--------------------------- MODULE ServicesProofs ---------------------------
(***************************************************************************)
(* Theorems about the smaller services.                                    *)
(*                                                                         *)
(* UplinkProxy: an uplink is offline only through a request that itself    *)
(* failed max_fails times since the last answer, for any requests, retry   *)
(* limits and numbers of failures above zero.                              *)
(*                                                                         *)
(* StorageQuota: the quota of the storage, for any publishes, sizes, quota *)
(* and lifetime of the cached measurement.                                 *)
(*                                                                         *)
(* TarballDownload: no cut tarball is stored or taken for a whole one, for *)
(* any clients and sizes, where a cut of the uplink's body shows.          *)
(*                                                                         *)
(* PackageAccess: every change of a package is one its sender had the      *)
(* right to make, for any people, rules and requests.                      *)
(*                                                                         *)
(* TrustedPublishing: what a job of a CI publishes is what an entry of the *)
(* settings vouches for, for any jobs, entries and rights.                 *)
(*                                                                         *)
(* AuthChain, LoginSession, AccessTokens, Htpasswd: where a right falls    *)
(* back to publishing, a login token that is handed out is spent, a bearer *)
(* token vouches for a login that still is one, and accounts change as     *)
(* they were asked to; for any plugins, requests, tokens and accounts.     *)
(*                                                                         *)
(* PackageFilter: a client sees what the rules of the filter allow, for    *)
(* any versions, dates, rules and exceptions.                              *)
(***************************************************************************)
EXTENDS UplinkProxy, StorageQuota, TarballDownload, PackageAccess,
        TrustedPublishing, AuthChain, LoginSession, AccessTokens, Htpasswd,
        PackageFilter, FiniteSetTheorems, WellFoundedInduction, TLAPS

-----------------------------------------------------------------------------
(* The breaker of an uplink *)

\* Only requests for metadata count as fresh; the numbers are numbers.
BreakerTypeOK ==
    /\ failedRequests \in Nat /\ retries \in [Asking -> Nat]
    /\ fresh \in [Asking -> BOOLEAN]
    /\ \A f \in Asking : fresh[f] => CountsFailures(f)

BreakerInv == BreakerTypeOK /\ OfflineIsEarned

\* No request and no event of one trips the breaker without having earned it.
LEMMA BreakerStep ==
    ASSUME MaxFails > 0, BreakerInv, [ProxyNext]_proxyVars
    PROVE  BreakerInv'
<1> USE ProxyAssumption DEF BreakerInv, BreakerTypeOK, OfflineIsEarned, CountsFailures
<1>1. ASSUME NEW f \in Asking, AskUplink(f) \/ SendRequest(f) \/ UplinkRefuses(f)
      PROVE  BreakerInv'
    BY <1>1 DEF AskUplink, SendRequest, UplinkRefuses
<1>2. ASSUME NEW f \in Asking, UplinkAnswers(f)
      PROVE  BreakerInv'
    BY <1>2 DEF UplinkAnswers
<1>3. ASSUME NEW f \in Asking, AttemptFails(f)
      PROVE  BreakerInv'
  <2>1. CASE retries[f] < RetryLimit /\ CountsFailures(f)
    <3>1. /\ retries' = [retries EXCEPT ![f] = @ + 1] /\ fresh' = [fresh EXCEPT ![f] = TRUE]
          /\ failedRequests' = retries'[f] /\ fetch' = fetch
      BY <1>3, <2>1 DEF AttemptFails
    <3> QED
      BY <2>1, <3>1
  <2>2. CASE retries[f] < RetryLimit /\ ~CountsFailures(f)
    <3>1. /\ retries' = [retries EXCEPT ![f] = @ + 1] /\ fresh' = [fresh EXCEPT ![f] = FALSE]
          /\ failedRequests' = failedRequests /\ fetch' = fetch /\ ~fresh[f]
      BY <1>3, <2>2 DEF AttemptFails
    <3>2. BreakerTypeOK'
      BY <3>1
    <3>3. OfflineIsEarned'
      BY <3>1
    <3> QED
      BY <3>2, <3>3
  <2>3. CASE ~(retries[f] < RetryLimit)
    BY <1>3, <2>3 DEF AttemptFails
  <2> QED
    BY <2>1, <2>2, <2>3
<1>4. CASE TimePasses
    BY <1>4 DEF TimePasses
<1>5. CASE UNCHANGED proxyVars
    BY <1>5 DEF proxyVars
<1> QED
    BY <1>1, <1>2, <1>3, <1>4, <1>5 DEF ProxyNext

\* The breaker is open only through a request that failed max_fails times
\* itself after the last answer (beforeRetry, afterResponse and
\* _ifRequestFailure of proxy.ts).
THEOREM OfflineAlwaysEarned ==
    ASSUME MaxFails > 0
    PROVE  ProxySpec => []OfflineIsEarned
<1>1. ProxyInit => BreakerInv
    BY ProxyAssumption
    DEF ProxyInit, BreakerInv, BreakerTypeOK, OfflineIsEarned
<1>2. BreakerInv /\ [ProxyNext]_proxyVars => BreakerInv'
    BY BreakerStep
<1>3. BreakerInv => OfflineIsEarned
    BY DEF BreakerInv
<1> QED
    BY <1>1, <1>2, <1>3, PTL DEF ProxySpec

-----------------------------------------------------------------------------
(* The quota of the storage *)

Measure == [bytes : Int, measuredAt : Nat]

QuotaTypeOK ==
    /\ used \in Int /\ minute \in Nat /\ disturbed \in Int /\ untold \in Nat
    /\ sizeCache \in Measure \cup {NoMeasure}
    /\ brings \in [Upload -> Sizes]
    /\ gate \in [Upload -> {"new", "walk", "accepted", "stored", "published",
                            "refused", "failed"}]
    /\ arrived \in [Upload -> Nat]
    /\ least \in [Upload -> Int] /\ most \in [Upload -> Int]

\* nothing is dated in the future
NothingAhead ==
    /\ disturbed <= minute
    /\ \A u \in Upload : arrived[u] <= minute
    /\ sizeCache # NoMeasure => sizeCache.measuredAt <= minute

\* two publishes that meet are a disturbance since both came, and since the
\* measurement that is cached began
MeetingsAreNoted ==
    \A u, v \in Upload :
        Publishing(u) /\ Publishing(v) /\ u # v =>
            /\ disturbed >= arrived[u]
            /\ sizeCache # NoMeasure => disturbed >= sizeCache.measuredAt

\* an undisturbed walk misses nothing
WalkCounts ==
    \A u \in Upload :
        gate[u] = "walk" => least[u] >= used \/ disturbed >= arrived[u]

\* an undisturbed measurement misses at most the tarball of the one publish
\* that has not dropped it yet
CacheCounts ==
    sizeCache # NoMeasure =>
        \/ disturbed >= sizeCache.measuredAt
        \/ sizeCache.bytes >= used
        \/ \E u \in Upload :
              gate[u] = "stored" /\ sizeCache.bytes + brings[u] >= used

\* an undisturbed publish that was let in has room
HasRoom ==
    \A u \in Upload :
        gate[u] = "accepted" /\ disturbed + CacheTtl < arrived[u] =>
            used + brings[u] <= Quota

QuotaInv ==
    /\ QuotaTypeOK /\ NothingAhead /\ MeetingsAreNoted
    /\ WalkCounts /\ CacheCounts /\ HasRoom /\ QuotaIsKept

-----------------------------------------------------------------------------
\* The initial states satisfy the invariant.
LEMMA QuotaStarts == QuotaInit => QuotaInv
BY QuotaAssumption
   DEF QuotaInit, QuotaInv, QuotaTypeOK, NothingAhead, MeetingsAreNoted,
       WalkCounts, CacheCounts, HasRoom, QuotaIsKept, Publishing, Measure

\* What a publish brings is a number of bytes.
LEMMA BringsBytes ==
    ASSUME QuotaTypeOK
    PROVE  \A u \in Upload : brings[u] \in Nat
BY QuotaAssumption DEF QuotaTypeOK

\* A measurement lets a publish in only if it fits.
LEMMA VerdictMeaning ==
    ASSUME NEW u \in Upload, NEW bytes \in Int, QuotaTypeOK
    PROVE  /\ Verdict(u, bytes) \in {"accepted", "refused"}
           /\ Verdict(u, bytes) = "accepted" => bytes + brings[u] <= Quota
<1>1. brings[u] \in Nat /\ Quota \in Nat
  BY BringsBytes, QuotaAssumption
<1> QED
  BY <1>1 DEF Verdict

\* A publish that comes notes whom it meets; alone, it is let in on a
\* measurement that misses nothing, because no disturbance is as old.
LEMMA ArrivalKeeps ==
    ASSUME QuotaInv, NEW u \in Upload, AssertStorageQuota(u)
    PROVE  QuotaInv'
<1> USE QuotaAssumption DEF QuotaInv, QuotaTypeOK, AssertStorageQuota, Enters, Publishing
<1>1. /\ gate' = [gate EXCEPT ![u] = gate'[u]]
      /\ gate[u] = "new"
      /\ gate'[u] \in {"walk", "accepted", "refused"}
      /\ gate'[u] = "accepted" =>
            Usable /\ sizeCache.bytes + brings[u] <= Quota
  <2>1. CASE Usable /\ Enters(u, "new", Verdict(u, sizeCache.bytes))
    <3>1. sizeCache.bytes \in Int
      BY <2>1 DEF Usable, Measure
    <3> QED
      BY <2>1, <3>1, VerdictMeaning
  <2>2. CASE ~Usable /\ Enters(u, "new", "walk")
    BY <2>2
  <2> QED
    BY <2>1, <2>2
<1>2. disturbed' >= disturbed /\ disturbed' \in Int
  BY DEF NothingAhead
<1>3. QuotaTypeOK'
  BY <1>1, <1>2
<1>4. NothingAhead'
  BY DEF NothingAhead
<1>5. MeetingsAreNoted'
  BY <1>1, <1>2 DEF MeetingsAreNoted, NothingAhead, Measure
<1>6. WalkCounts'
  <2> SUFFICES ASSUME NEW v \in Upload, gate'[v] = "walk"
               PROVE  least'[v] >= used' \/ disturbed' >= arrived'[v]
    BY DEF WalkCounts
  <2>1. CASE v # u
    BY <1>1, <1>2, <2>1 DEF WalkCounts
  <2>2. CASE v = u
    <3>1. ~Usable /\ least' = [least EXCEPT ![u] = used]
      BY <2>2, VerdictMeaning DEF Usable, Measure
    <3> QED
      BY <2>2, <3>1
  <2> QED
    BY <2>1, <2>2
<1>7. CacheCounts'
  BY <1>1, <1>2 DEF CacheCounts, Measure
<1>8. HasRoom'
  <2> SUFFICES ASSUME NEW v \in Upload, gate'[v] = "accepted",
                      disturbed' + CacheTtl < arrived'[v]
               PROVE  used' + brings'[v] <= Quota
    BY DEF HasRoom
  <2>1. CASE v # u
    BY <1>1, <1>2, <2>1 DEF HasRoom
  <2>2. CASE v = u
    <3>1. \A w \in Upload : ~Publishing(w)
      BY <2>2
    <3>2. sizeCache.measuredAt > disturbed
      BY <1>1, <2>2, <3>1 DEF Usable, Measure
    <3>3. sizeCache.bytes >= used
      BY <1>1, <2>2, <3>1, <3>2 DEF CacheCounts, Usable, Measure
    <3>4. /\ sizeCache.bytes \in Int /\ brings[u] \in Nat
          /\ sizeCache.bytes + brings[u] <= Quota
      BY <1>1, <2>2, BringsBytes DEF Usable, Measure
    <3> QED
      BY <2>2, <3>3, <3>4
  <2> QED
    BY <2>1, <2>2
<1>9. QuotaIsKept'
  BY <1>1, <1>2 DEF QuotaIsKept
<1> QED
  BY <1>3, <1>4, <1>5, <1>6, <1>7, <1>8, <1>9

\* A walk that ends is dated when it began: undisturbed, it missed nothing.
LEMMA MeasureKeeps ==
    ASSUME QuotaInv, NEW u \in Upload, Measured(u)
    PROVE  QuotaInv'
<1> USE QuotaAssumption DEF QuotaInv, QuotaTypeOK, Enters, Publishing
<1>1. PICK bytes \in least[u]..most[u] :
         /\ sizeCache' = [bytes |-> bytes, measuredAt |-> arrived[u]]
         /\ gate[u] = "walk"
         /\ gate' = [gate EXCEPT ![u] = Verdict(u, bytes)]
  BY DEF Measured
<1>2. /\ bytes \in Int /\ bytes >= least[u]
      /\ sizeCache' \in Measure /\ sizeCache' # NoMeasure
      /\ sizeCache'.bytes = bytes /\ sizeCache'.measuredAt = arrived[u]
  BY <1>1 DEF Measure
<1>3. /\ gate'[u] \in {"accepted", "refused"}
      /\ gate'[u] = "accepted" => bytes + brings[u] <= Quota
      /\ \A v \in Upload \ {u} : gate'[v] = gate[v]
  BY <1>1, <1>2, VerdictMeaning
<1>4. QuotaTypeOK'
  BY <1>1, <1>2, <1>3 DEF Measured
<1>5. NothingAhead'
  BY <1>2 DEF NothingAhead, Measured
<1>6. MeetingsAreNoted'
  BY <1>1, <1>2, <1>3 DEF MeetingsAreNoted, Measured
<1>7. WalkCounts'
  BY <1>3 DEF WalkCounts, Measured
<1>8. CacheCounts'
  BY <1>1, <1>2 DEF CacheCounts, WalkCounts, Measured
<1>9. HasRoom'
  <2> SUFFICES ASSUME NEW v \in Upload, gate'[v] = "accepted",
                      disturbed' + CacheTtl < arrived'[v]
               PROVE  used' + brings'[v] <= Quota
    BY DEF HasRoom
  <2>1. UNCHANGED <<used, brings, arrived, disturbed>>
    BY DEF Measured
  <2>2. CASE v # u
    BY <1>3, <2>1, <2>2 DEF HasRoom
  <2>3. CASE v = u
    <3>1. least[u] >= used
      BY <1>1, <2>1, <2>3 DEF WalkCounts
    <3>2. bytes + brings[u] <= Quota /\ brings[u] \in Nat
      BY <1>3, <2>3, BringsBytes
    <3> QED
      BY <1>2, <2>1, <2>3, <3>1, <3>2
  <2> QED
    BY <2>2, <2>3
<1>10. QuotaIsKept'
  BY <1>1, <1>3 DEF QuotaIsKept, Measured
<1> QED
  BY <1>4, <1>5, <1>6, <1>7, <1>8, <1>9, <1>10

\* A tarball is stored into the room its publish has; whoever else is there
\* has met it.
LEMMA StoreKeeps ==
    ASSUME QuotaInv, NEW u \in Upload, StoreTarball(u)
    PROVE  QuotaInv'
<1> USE QuotaAssumption DEF QuotaInv, QuotaTypeOK, StoreTarball, Enters, Publishing, Grows
<1>1. /\ gate[u] = "accepted" /\ gate'[u] = "stored"
      /\ \A v \in Upload \ {u} : gate'[v] = gate[v]
      /\ used' = used + brings[u] /\ brings[u] \in Nat
  OBVIOUS
<1>2. QuotaTypeOK'
  BY <1>1
<1>3. NothingAhead'
  BY DEF NothingAhead
<1>4. MeetingsAreNoted'
  BY <1>1 DEF MeetingsAreNoted
<1>5. WalkCounts'
  BY <1>1 DEF WalkCounts, MeetingsAreNoted
<1>6. CacheCounts'
  <2> SUFFICES ASSUME sizeCache # NoMeasure PROVE CacheCounts'
    BY DEF CacheCounts
  <2>1. CASE sizeCache.bytes >= used
    BY <1>1, <2>1 DEF CacheCounts, Measure
  <2>2. CASE \E v \in Upload : gate[v] = "stored"
    BY <1>1, <2>2 DEF CacheCounts, MeetingsAreNoted
  <2> QED
    BY <2>1, <2>2 DEF CacheCounts
<1>7. HasRoom'
  BY <1>1 DEF HasRoom, MeetingsAreNoted
<1>8. QuotaIsKept'
  BY <1>1 DEF QuotaIsKept, HasRoom, MeetingsAreNoted
<1> QED
  BY <1>2, <1>3, <1>4, <1>5, <1>6, <1>7, <1>8

\* A publish that ends well drops the measurement; one that fails gives back
\* what it stored.
LEMMA EndKeeps ==
    ASSUME QuotaInv, NEW u \in Upload,
           PublishFails(u) \/ TakeBack(u) \/ Published(u)
    PROVE  QuotaInv'
<1> USE QuotaAssumption DEF QuotaInv, QuotaTypeOK, Enters, Publishing
<1>1. /\ gate'[u] \in {"failed", "published"}
      /\ gate' = [gate EXCEPT ![u] = gate'[u]]
      /\ \A v \in Upload \ {u} : gate'[v] = gate[v]
      /\ brings[u] \in Nat
      /\ UNCHANGED <<minute, brings, arrived, disturbed, untold>>
  BY DEF PublishFails, TakeBack, Published
<1>2. \/ UNCHANGED <<used, sizeCache, least>> /\ gate[u] = "accepted"
      \/ sizeCache' = NoMeasure /\ UNCHANGED <<used, least>>
      \/ /\ used' = used - brings[u] /\ UNCHANGED sizeCache /\ gate[u] = "stored"
         /\ least' = [v \in Upload |-> IF gate[v] = "walk" THEN least[v] - brings[u]
                                                           ELSE least[v]]
  BY DEF PublishFails, TakeBack, Published, Shrinks
<1>3. most' = most
  BY DEF PublishFails, TakeBack, Published, Shrinks
<1>4. QuotaTypeOK'
  BY <1>1, <1>2, <1>3
<1>5. NothingAhead'
  BY <1>1, <1>2 DEF NothingAhead
<1>6. MeetingsAreNoted'
  BY <1>1, <1>2 DEF MeetingsAreNoted
<1>7. WalkCounts'
  BY <1>1, <1>2 DEF WalkCounts
<1>8. CacheCounts'
  <2>1. CASE UNCHANGED <<used, sizeCache>> /\ gate[u] = "accepted"
    BY <1>1, <2>1 DEF CacheCounts
  <2>2. CASE sizeCache' = NoMeasure
    BY <2>2 DEF CacheCounts
  <2>3. CASE used' = used - brings[u] /\ UNCHANGED sizeCache /\ gate[u] = "stored"
    <3> SUFFICES ASSUME sizeCache # NoMeasure PROVE CacheCounts'
      BY <2>3 DEF CacheCounts
    <3>1. CASE \E v \in Upload \ {u} : gate[v] = "stored"
      BY <1>1, <2>3, <3>1 DEF CacheCounts, MeetingsAreNoted
    <3>2. CASE \A v \in Upload \ {u} : gate[v] # "stored"
      BY <1>1, <2>3, <3>2 DEF CacheCounts, Measure
    <3> QED
      BY <3>1, <3>2
  <2> QED
    BY <1>2, <2>1, <2>2, <2>3
<1>9. used' \in Int /\ used' <= used
  BY <1>1, <1>2
<1>10. HasRoom'
  <2> SUFFICES ASSUME NEW v \in Upload, gate'[v] = "accepted",
                      disturbed' + CacheTtl < arrived'[v]
               PROVE  used' + brings'[v] <= Quota
    BY DEF HasRoom
  <2>1. used + brings[v] <= Quota /\ brings[v] \in Nat
    BY <1>1, BringsBytes DEF HasRoom
  <2> QED
    BY <1>1, <1>9, <2>1
<1>11. QuotaIsKept'
  BY <1>1, <1>9 DEF QuotaIsKept
<1> QED
  BY <1>4, <1>5, <1>6, <1>7, <1>8, <1>10, <1>11

\* What changes the storage behind the quota's back either disturbs all that
\* was measured before, or makes room.
LEMMA UntoldKeeps ==
    ASSUME QuotaInv, CacheTarball \/ StageTarball \/ RemoveTarball \/ MinutePasses
    PROVE  QuotaInv'
<1> USE QuotaAssumption DEF QuotaInv, QuotaTypeOK, NothingAhead, MeetingsAreNoted,
            WalkCounts, CacheCounts, HasRoom, QuotaIsKept, Publishing, Measure
<1>1. CASE CacheTarball \/ StageTarball
  <2>1. disturbed' = minute /\ used' \in Int /\ most' \in [Upload -> Int]
    BY <1>1 DEF CacheTarball, StageTarball, UntoldGrowth, Grows
  <2>2. UNCHANGED <<sizeCache, minute, brings, gate, arrived, least>> /\ untold' \in Nat
    BY <1>1 DEF CacheTarball, StageTarball, UntoldGrowth, Grows
  <2>3. /\ \A u \in Upload : disturbed' >= arrived'[u]
        /\ sizeCache' # NoMeasure => disturbed' >= sizeCache'.measuredAt
    BY <2>1, <2>2
  <2>4. QuotaTypeOK' /\ NothingAhead'
    BY <2>1, <2>2
  <2>5. \A u \in Upload : ~(disturbed' + CacheTtl < arrived'[u])
    BY <2>3, <2>4
  <2>6. MeetingsAreNoted' /\ WalkCounts' /\ CacheCounts'
    BY <2>3
  <2>7. HasRoom' /\ QuotaIsKept'
    BY <2>5
  <2> QED
    BY <2>4, <2>6, <2>7
<1>2. CASE RemoveTarball
  <2>1. PICK n \in Sizes : n <= used /\ Shrinks(n)
    BY <1>2 DEF RemoveTarball
  <2>2. /\ n \in Nat /\ used' = used - n
        /\ least' = [u \in Upload |-> IF gate[u] = "walk" THEN least[u] - n ELSE least[u]]
        /\ UNCHANGED <<sizeCache, minute, brings, gate, arrived, disturbed, most>>
        /\ untold' \in Nat
    BY <1>2, <2>1 DEF RemoveTarball, Shrinks
  <2>3. QuotaTypeOK' /\ NothingAhead' /\ MeetingsAreNoted'
    BY <2>2
  <2>4. WalkCounts'
    BY <2>2
  <2>5. CacheCounts'
    <3>1. \A u \in Upload : brings[u] \in Nat
      BY BringsBytes
    <3> QED
      BY <2>2, <3>1
  <2>6. HasRoom' /\ QuotaIsKept'
    <3>1. \A u \in Upload : brings[u] \in Nat
      BY BringsBytes
    <3>2. HasRoom'
      BY <2>2, <3>1
    <3>3. QuotaIsKept'
      BY <2>2
    <3> QED
      BY <3>2, <3>3
  <2> QED
    BY <2>3, <2>4, <2>5, <2>6
<1>3. CASE MinutePasses
  BY <1>3 DEF MinutePasses
<1> QED
  BY <1>1, <1>2, <1>3

\* A publish that nothing disturbed for one lifetime of the measurement, neither
\* another publish nor a staged or cached tarball, leaves the storage within the
\* quota (assertStorageQuota, and the reset of
\* storageSizeCache at the end of commitNewVersion).
THEOREM QuotaAlwaysKept == QuotaSpec => []QuotaIsKept
<1>1. QuotaInit => QuotaInv
  BY QuotaStarts
<1>2. QuotaInv /\ [QuotaNext]_quotaVars => QuotaInv'
  <2> SUFFICES ASSUME QuotaInv, [QuotaNext]_quotaVars PROVE QuotaInv'
    OBVIOUS
  <2>1. CASE UNCHANGED quotaVars
    BY <2>1 DEF quotaVars, QuotaInv, QuotaTypeOK, NothingAhead, MeetingsAreNoted,
                WalkCounts, CacheCounts, HasRoom, QuotaIsKept, Publishing
  <2> QED
    BY <2>1, ArrivalKeeps, MeasureKeeps, StoreKeeps, EndKeeps, UntoldKeeps
       DEF QuotaNext
<1>3. QuotaInv => QuotaIsKept
  BY DEF QuotaInv
<1> QED
  BY <1>1, <1>2, <1>3, PTL DEF QuotaSpec

-----------------------------------------------------------------------------
(* Downloads of a tarball *)

ClientState == Waiting \cup {"ok", "error", "left", "lost"}
WriterState == {"none", "folder", "closed", "done", "dead"} \cup Writing

DownloadTypeOK ==
    /\ caching \in BOOLEAN /\ tarball \in {Absent, Size} /\ diskFaults \in Nat
    /\ client \in [Client -> ClientState] /\ writer \in [Client -> WriterState]
    /\ received \in [Client -> Nat] /\ temp \in [Client -> Nat \cup {Absent}]
    /\ opened \in [Client -> {Absent, Size}] /\ failed \in [Client -> BOOLEAN]
    /\ framing \in [Client -> Framing \cup {"none", "over"}]

\* A client that is not being streamed to has nothing yet, or everything.
ClientOK(c) ==
    /\ client[c] \in {"new", "local", "asking", "fetching"} =>
          received[c] = 0 /\ writer[c] = "none" /\ ~failed[c]
    /\ client[c] = "left" /\ framing[c] = "none" =>
          received[c] = 0 /\ writer[c] = "none"
    /\ client[c] = "local" => opened[c] = Size
    /\ client[c] \in {"streaming", "draining"} =>
          received[c] <= Size /\ framing[c] \in Framing
    /\ client[c] \in {"draining", "ok"} =>
          received[c] = Size /\ (failed[c] => diskFaults > 0)

\* The temporary file is what the client got, until the body is over; a writer
\* that has not failed has a client that is being streamed to.
WriterOK(c) ==
    /\ writer[c] # "none" => caching
    /\ writer[c] \in {"none", "folder", "opening", "done"} => temp[c] = Absent
    /\ writer[c] \in {"folder", "opening"} => received[c] = 0
    /\ writer[c] = "folder" => failed[c] \/ client[c] \in {"streaming", "left"}
    /\ writer[c] = "opening" => failed[c] \/ client[c] = "streaming"
    /\ writer[c] = "open" =>
          ~failed[c] /\ client[c] = "streaming" /\ temp[c] = received[c]
    /\ writer[c] = "finishing" => failed[c] \/ temp[c] = Size
    /\ writer[c] = "closed" => temp[c] = Size

DownloadInv == DownloadTypeOK /\ \A c \in Client : ClientOK(c) /\ WriterOK(c)

\* No step of a download or of the storage breaks it.
LEMMA DownloadStep ==
    ASSUME Framing \subseteq {"length", "chunked"}, DownloadInv, [DownloadNext]_downloadVars
    PROVE  DownloadInv'
<1> USE DownloadAssumption
    DEF DownloadInv, DownloadTypeOK, ClientOK, WriterOK, ClientState, WriterState, Waiting,
        Writing, ClientGoes, WriterGoes, DiskFault, IfWaiting, input, counters
<1>1. ASSUME NEW c \in Client, OpenLocal(c) PROVE DownloadInv'
    BY <1>1 DEF OpenLocal
<1>2. ASSUME NEW c \in Client, ServeLocal(c) PROVE DownloadInv'
    BY <1>2 DEF ServeLocal
<1>3. ASSUME NEW c \in Client, LocalBreaks(c) PROVE DownloadInv'
    BY <1>3 DEF LocalBreaks
<1>4. ASSUME NEW c \in Client, FindUplink(c) PROVE DownloadInv'
    BY <1>4 DEF FindUplink
<1>5. ASSUME NEW c \in Client, BadStatus(c) PROVE DownloadInv'
    BY <1>5 DEF BadStatus
<1>6. ASSUME NEW c \in Client, Response(c) PROVE DownloadInv'
    BY <1>6 DEF Response
<1>7. ASSUME NEW c \in Client, FolderReady(c) PROVE DownloadInv'
    BY <1>7 DEF FolderReady
<1>8. ASSUME NEW c \in Client, FolderFails(c) PROVE DownloadInv'
    BY <1>8 DEF FolderFails
<1>9. ASSUME NEW c \in Client, TempOpened(c) PROVE DownloadInv'
  <2>1. CASE failed[c]
    BY <1>9, <2>1 DEF TempOpened
  <2>2. CASE ~failed[c]
    BY <1>9, <2>2 DEF TempOpened
  <2> QED
    BY <2>1, <2>2
<1>10. ASSUME NEW c \in Client, OpenFails(c) PROVE DownloadInv'
    BY <1>10 DEF OpenFails
<1>11. ASSUME NEW c \in Client, Chunk(c) PROVE DownloadInv'
    BY <1>11 DEF Chunk, Flows
<1>12. ASSUME NEW c \in Client, ConnectionBreaks(c) PROVE DownloadInv'
    BY <1>12 DEF ConnectionBreaks, Breaks
<1>13. ASSUME NEW c \in Client, BodyEnds(c) PROVE DownloadInv'
  <2>1. CASE received[c] < Size
    <3>1. Breaks(c) /\ UNCHANGED counters /\ client[c] = "streaming"
      BY <1>13, <2>1 DEF BodyEnds, Flows
    <3> QED
      BY <3>1 DEF Breaks
  <2>2. CASE received[c] = Size
    <3>1. /\ ClientGoes(c, "streaming", "draining") /\ ~failed[c]
          /\ writer[c] = IF caching THEN "open" ELSE "none"
          /\ writer' = [writer EXCEPT ![c] = IF caching THEN "finishing" ELSE @]
          /\ UNCHANGED <<caching, tarball, received, input, failed, temp, counters>>
      BY <1>13, <2>2 DEF BodyEnds, Flows
    <3>2. CASE caching
      BY <2>2, <3>1, <3>2
    <3>3. CASE ~caching
      BY <2>2, <3>1, <3>3
    <3> QED
      BY <3>2, <3>3
  <2> QED
    BY <1>13, <2>1, <2>2 DEF BodyEnds, Flows
<1>14. ASSUME NEW c \in Client, WriteToDiskFails(c) PROVE DownloadInv'
    BY <1>14 DEF WriteToDiskFails, Breaks
<1>15. ASSUME NEW c \in Client, LastWriteFails(c) PROVE DownloadInv'
    BY <1>15 DEF LastWriteFails
<1>16. ASSUME NEW c \in Client, ResponseEnds(c) PROVE DownloadInv'
    BY <1>16 DEF ResponseEnds
<1>17. ASSUME NEW c \in Client, Disconnects(c) PROVE DownloadInv'
  <2>1. DownloadTypeOK'
    BY <1>17 DEF Disconnects
  <2>2. \A d \in Client : ClientOK(d)'
    BY <1>17 DEF Disconnects
  <2>3. \A d \in Client : WriterOK(d)'
    BY <1>17 DEF Disconnects
  <2> QED
    BY <2>1, <2>2, <2>3
<1>18. ASSUME NEW c \in Client, StreamClosed(c) PROVE DownloadInv'
    BY <1>18 DEF StreamClosed
<1>19. ASSUME NEW c \in Client, Renamed(c) PROVE DownloadInv'
    BY <1>19 DEF Renamed
<1>20. ASSUME NEW c \in Client, RenameFails(c) PROVE DownloadInv'
    BY <1>20 DEF RenameFails
<1>21. CASE TarballRemoved
    BY <1>21 DEF TarballRemoved
<1>22. CASE ProcessDies
    BY <1>22 DEF ProcessDies
<1>23. CASE UNCHANGED downloadVars
    BY <1>23 DEF downloadVars
<1> QED
    BY <1>1, <1>2, <1>3, <1>4, <1>5, <1>6, <1>7, <1>8, <1>9, <1>10, <1>11, <1>12, <1>13, <1>14, <1>15, <1>16, <1>17, <1>18, <1>19, <1>20, <1>21, <1>22, <1>23 DEF DownloadNext

\* Where an uplink announces the length of a tarball or sends it in chunks, the
\* file under the tarball's name is whole and so is what a client takes for the
\* tarball, whatever breaks, leaves, overlaps or dies.
THEOREM TarballAlwaysWhole ==
    ASSUME Framing \subseteq {"length", "chunked"}
    PROVE  DownloadSpec => []TarballIsWhole
<1>1. DownloadInit => DownloadInv
    BY DownloadAssumption DEF DownloadInit, DownloadInv, DownloadTypeOK, ClientOK, WriterOK,
       ClientState, WriterState, Waiting, Writing
<1>2. DownloadInv /\ [DownloadNext]_downloadVars => DownloadInv'
    BY DownloadStep
<1>3. DownloadInv => TarballIsWhole
    BY DownloadAssumption DEF DownloadInv, DownloadTypeOK, ClientOK, WriterOK, TarballIsWhole
<1> QED
    BY <1>1, <1>2, <1>3, PTL DEF DownloadSpec

-----------------------------------------------------------------------------
(* Changes of who may change a package *)

Rights == {"publish", "access", "see", "own", "factor"}
Progress == {"new", "asked", "permitted", "passed", "private", "checked", "done", "refused"}

GrantTypeOK ==
    /\ access \in Access /\ wish \in [Wish -> Wishing]
    /\ progress \in [Wish -> Progress]
    /\ body \in [Wish -> SUBSET Person] /\ held \in [Wish -> SUBSET Rights]

\* What is true of a request under way is held.
HeldIsNoted(r) ==
    progress[r] \notin {"new", "done", "refused"} => True(access, wish[r]) \subseteq held[r]

\* What the checks a request has passed have found is held.
ChecksAreHeld(r) ==
    /\ progress[r] = "permitted" => wish[r].kind # "view" /\ "publish" \in held[r]
    /\ progress[r] = "private" => wish[r].kind = "view" /\ "access" \in held[r]
    /\ progress[r] = "passed" =>
          /\ wish[r].kind = "view" => "access" \in held[r]
          /\ wish[r].kind # "view" => "publish" \in held[r]
          /\ wish[r].kind \notin {"view", "star"} => "factor" \in held[r]
    /\ progress[r] = "checked" =>
          /\ MayHaveDone(r)
          /\ wish[r].kind = "owners" => wish[r].owners # {}

\* The stars of others are still those that were checked, or that is noted.
StarsAreNoted(r) ==
    progress[r] = "checked" /\ wish[r].kind = "star" =>
        r \in starred \/ access.stars \ {wish[r].by} = body[r] \ {wish[r].by}

GrantInv ==
    GrantTypeOK /\ \A r \in Wish : HeldIsNoted(r) /\ ChecksAreHeld(r) /\ StarsAreNoted(r)

\* What is true of a request depends on the manifest and on itself alone.
LEMMA TrueStays ==
    ASSUME UNCHANGED <<checkOwners, access, wish>>, NEW q \in Wish
    PROVE  True(access, wish[q])' = True(access, wish[q])
<1> USE DEF True, MayPublish, MayAccess, MaySee, Collaborator, CheckAllowedToChangePackage,
        Factored
<1> QED
  OBVIOUS

\* Checks change nothing but how far a request is.
LEMMA CheckKeeps ==
    ASSUME GrantInv, NEW r \in Wish,
           \/ Come(r) \/ Permit(r) \/ PackageOtp(r) \/ CheckOwner(r) \/ CheckStars(r)
           \/ CheckVisibility(r) \/ CheckCollaborator(r)
    PROVE  GrantInv'
<1> USE DEF GrantInv, GrantTypeOK, Proceeds, Unless, Progress, Rights
<1>1. wish[r] \in Wishing /\ access \in Access
  OBVIOUS
<1>0. ASSUME NEW q \in Wish PROVE True(access, wish[q])' = True(access, wish[q])
  BY TrueStays DEF Come, Permit, PackageOtp, CheckOwner, CheckStars, CheckVisibility,
     CheckCollaborator
<1>2. CASE Come(r)
  <2>1. True(access, wish[r]) \subseteq Rights
    BY DEF True
  <2>2. body' \in [Wish -> SUBSET Person]
    BY <1>1, <1>2 DEF Come, Access, Wishing
  <2> QED
    BY <1>0, <1>2, <2>1, <2>2 DEF Come, HeldIsNoted, ChecksAreHeld, StarsAreNoted, MayHaveDone
<1>3. CASE Permit(r)
  <2>1. progress[r] = "asked" => True(access, wish[r]) \subseteq held[r]
    BY DEF HeldIsNoted
  <2>2. wish[r].kind = "view" /\ MayAccess(access, wish[r].by) => "access" \in held[r] \/ progress[r] # "asked"
    BY <2>1 DEF True
  <2>3. MayPublish(access, wish[r].by) => "publish" \in held[r] \/ progress[r] # "asked"
    BY <2>1 DEF True
  <2> QED
    BY <1>0, <1>3, <2>1, <2>2, <2>3
       DEF Permit, HeldIsNoted, ChecksAreHeld, StarsAreNoted, MayHaveDone
<1>4. CASE PackageOtp(r)
  <2>1. Factored(access, wish[r]) => "factor" \in held[r]
    BY <1>4 DEF PackageOtp, HeldIsNoted, True
  <2> QED
    BY <1>0, <1>4, <2>1 DEF PackageOtp, HeldIsNoted, ChecksAreHeld, StarsAreNoted, MayHaveDone
<1>5. CASE CheckOwner(r)
  <2>1. CheckAllowedToChangePackage(access, wish[r].by) => "own" \in held[r]
    BY <1>5 DEF CheckOwner, HeldIsNoted, True
  <2> QED
    BY <1>0, <1>5, <2>1 DEF CheckOwner, HeldIsNoted, ChecksAreHeld, StarsAreNoted, MayHaveDone
<1>6. CASE CheckStars(r)
  BY <1>0, <1>6 DEF CheckStars, HeldIsNoted, ChecksAreHeld, StarsAreNoted, MayHaveDone
<1>7. CASE CheckVisibility(r)
  <2>1. ~access.private => "see" \in held[r]
    BY <1>7 DEF CheckVisibility, HeldIsNoted, True, MaySee
  <2> QED
    BY <1>0, <1>7, <2>1 DEF CheckVisibility, HeldIsNoted, ChecksAreHeld, StarsAreNoted, MayHaveDone
<1>8. CASE CheckCollaborator(r)
  <2>1. Collaborator(access, wish[r].by) # "none" \/ wish[r].by \in Publishers
          => "see" \in held[r]
    BY <1>8 DEF CheckCollaborator, HeldIsNoted, True, MaySee
  <2> QED
    BY <1>0, <1>8, <2>1
       DEF CheckCollaborator, HeldIsNoted, ChecksAreHeld, StarsAreNoted, MayHaveDone
<1> QED
  BY <1>2, <1>3, <1>4, <1>5, <1>6, <1>7, <1>8

\* A change keeps the manifest one, and differs from it in what it is about.
LEMMA ChangeIsAsked ==
    ASSUME GrantInv, NEW r \in Wish
    PROVE  /\ Changed(access, r) \in Access
           /\ wish[r].kind # "owners" => Changed(access, r).owners = access.owners
           /\ wish[r].kind = "owners" => Changed(access, r).owners = wish[r].owners
           /\ wish[r].kind # "mfa" => Changed(access, r).mfa = access.mfa
           /\ wish[r].kind # "visibility" => Changed(access, r).private = access.private
           /\ wish[r].kind # "star" => Changed(access, r).stars = access.stars
           /\ wish[r].kind = "star" => Changed(access, r).stars = body[r]
           /\ \A p \in Person : Changed(access, r).roles[p] # access.roles[p] =>
                 wish[r].kind = "collaborator" /\ wish[r].to = p
<1> USE DEF GrantInv, GrantTypeOK
<1>1. wish[r] \in Wishing /\ access \in Access /\ body[r] \in SUBSET Person
  OBVIOUS
<1>2. CASE wish[r].kind = "owners"
  BY <1>1, <1>2 DEF Changed, Access, Wishing
<1>3. CASE wish[r].kind = "collaborator"
  BY <1>1, <1>3 DEF Changed, Access, Wishing
<1>4. CASE wish[r].kind = "visibility"
  BY <1>1, <1>4 DEF Changed, Access, Wishing
<1>5. CASE wish[r].kind = "mfa"
  BY <1>1, <1>5 DEF Changed, Access, Wishing
<1>6. CASE wish[r].kind = "star"
  BY <1>1, <1>6 DEF Changed, Access, Wishing
<1>7. CASE wish[r].kind = "view"
  BY <1>1, <1>7 DEF Changed, Access, Wishing
<1> QED
  BY <1>1, <1>2, <1>3, <1>4, <1>5, <1>6, <1>7 DEF Wishing

\* What a change makes true of the requests under way is noted.
LEMMA MakeChangeKeeps ==
    ASSUME GrantInv, NEW r \in Wish, MakeChange(r)
    PROVE  GrantInv'
<1> USE DEF GrantInv
<1>1. access' \in Access
  BY ChangeIsAsked DEF MakeChange
<1>2. \A q \in Wish : True(access', wish[q]) \subseteq Rights
  BY DEF True, Rights
<1>3. GrantTypeOK'
  BY <1>1, <1>2 DEF GrantTypeOK, MakeChange, Proceeds, Progress
<1>4. ASSUME NEW q \in Wish PROVE HeldIsNoted(q)' /\ ChecksAreHeld(q)' /\ StarsAreNoted(q)'
  <2>1. progress'[q] = (IF q = r THEN "done" ELSE progress[q]) /\ wish' = wish /\ body' = body
    BY DEF MakeChange, Proceeds, GrantTypeOK
  <2>2. /\ held[q] \subseteq held'[q]
        /\ progress[q] \notin {"new", "done", "refused"} => True(access', wish[q]) \subseteq held'[q]
    BY DEF MakeChange
  <2>3. HeldIsNoted(q)'
    <3>1. True(access, wish[q])' = True(access', wish[q])
      BY DEF MakeChange, True, MayPublish, MayAccess, MaySee, Collaborator,
         CheckAllowedToChangePackage, Factored
    <3> QED
      BY <2>1, <2>2, <3>1 DEF HeldIsNoted
  <2>4. ChecksAreHeld(q)'
    BY <2>1, <2>2 DEF ChecksAreHeld, MayHaveDone
  <2>5. StarsAreNoted(q)'
    BY <2>1 DEF MakeChange, StarsAreNoted
  <2> QED
    BY <2>3, <2>4, <2>5
<1> QED
  BY <1>3, <1>4

\* Every change of a package, and every view of a private one, is one its sender
\* had the right to make while the request was under way, of what it asked for,
\* and a package that has owners keeps one, for any people, rules and requests
\* (updatePackageMetadata and the routes of access.ts).
THEOREM AccessAlwaysEarned == GrantSpec => AccessIsEarned
<1>1. GrantInit => GrantInv
  BY GrantAssumption DEF GrantInit, GrantInv, GrantTypeOK, HeldIsNoted, ChecksAreHeld,
     StarsAreNoted, Progress, Rights
<1>2. GrantInv /\ [GrantNext]_grantVars => GrantInv'
  <2> SUFFICES ASSUME GrantInv, [GrantNext]_grantVars PROVE GrantInv'
    OBVIOUS
  <2>1. CASE UNCHANGED grantVars
    BY <2>1, TrueStays DEF grantVars, GrantInv, GrantTypeOK, HeldIsNoted, ChecksAreHeld,
       StarsAreNoted, MayHaveDone
  <2> QED
    BY <2>1, CheckKeeps, MakeChangeKeeps DEF GrantNext
<1>3. GrantInv /\ [GrantNext]_grantVars =>
        [/\ \A r \in Wish :
              progress[r] = "checked" /\ progress'[r] = "done" =>
                 /\ MayHaveDone(r) /\ OnlyOwnStar(r)
                 /\ wish[r].kind # "owners" => access'.owners = access.owners
                 /\ wish[r].kind # "mfa" => access'.mfa = access.mfa
                 /\ wish[r].kind # "visibility" => access'.private = access.private
                 /\ \A p \in Person : access'.roles[p] # access.roles[p] =>
                       wish[r].kind = "collaborator" /\ wish[r].to = p
         /\ access.owners # {} => access'.owners # {}]_grantVars
  <2> SUFFICES ASSUME GrantInv, NEW q \in Wish,
                      \/ Come(q) \/ Permit(q) \/ PackageOtp(q)
                      \/ CheckOwner(q) \/ CheckStars(q) \/ CheckVisibility(q)
                      \/ CheckCollaborator(q) \/ MakeChange(q)
               PROVE  /\ \A r \in Wish :
                            progress[r] = "checked" /\ progress'[r] = "done" =>
                               /\ MayHaveDone(r) /\ OnlyOwnStar(r)
                               /\ wish[r].kind # "owners" => access'.owners = access.owners
                               /\ wish[r].kind # "mfa" => access'.mfa = access.mfa
                               /\ wish[r].kind # "visibility" =>
                                     access'.private = access.private
                               /\ \A p \in Person : access'.roles[p] # access.roles[p] =>
                                     wish[r].kind = "collaborator" /\ wish[r].to = p
                      /\ access.owners # {} => access'.owners # {}
    BY DEF GrantNext
  <2>1. CASE MakeChange(q)
    <3>1. /\ access' = Changed(access, q) /\ progress[q] = "checked"
          /\ \A r \in Wish \ {q} : progress'[r] = progress[r]
      BY <2>1 DEF MakeChange, Proceeds, GrantInv, GrantTypeOK
    <3>2. MayHaveDone(q) /\ (wish[q].kind = "owners" => wish[q].owners # {})
      BY <3>1 DEF GrantInv, ChecksAreHeld
    <3>3. OnlyOwnStar(q)
      <4>1. CASE wish[q].kind # "star"
        BY <3>1, <4>1, ChangeIsAsked DEF OnlyOwnStar
      <4>2. CASE wish[q].kind = "star"
        BY <3>1, <4>2, ChangeIsAsked DEF OnlyOwnStar, GrantInv, StarsAreNoted
      <4> QED
        BY <4>1, <4>2
    <3>4. \A r \in Wish : progress[r] = "checked" /\ progress'[r] = "done" => r = q
      BY <3>1
    <3> QED
      BY <3>1, <3>2, <3>3, <3>4, ChangeIsAsked
  <2>2. CASE ~MakeChange(q)
    BY <2>2 DEF Come, Permit, PackageOtp, CheckOwner, CheckStars, CheckVisibility,
       CheckCollaborator, Proceeds, Unless, GrantInv, GrantTypeOK
  <2> QED
    BY <2>1, <2>2
<1> QED
  BY <1>1, <1>2, <1>3, PTL DEF GrantSpec, AccessIsEarned

-----------------------------------------------------------------------------
(* Trusted publishing *)

Tried == {"new", "trying", "refused", "challenged"}
InPublish == {"known", "permitted", "verified", "published"}
JobStage == Tried \cup InPublish \cup {"matched", "signed", "answered", "asked"}

TrustTypeOK ==
    /\ jobAt \in [Job -> JobStage]
    /\ DOMAIN entryAt = Job /\ DOMAIN carried = Job /\ DOMAIN scope = Job

\* The entry a job has got to vouches for it once one has matched, and the token that
\* is signed is of its user.
VouchedFor(j) ==
    /\ jobAt[j] \notin Tried =>
          entryAt[j] \in DOMAIN registry.publishers /\ Vouches(Entry(j), j)
    /\ jobAt[j] \notin Tried \cup {"matched"} => carried[j].name = Entry(j).user

\* A publish that has passed a check satisfies it.
ScopeIsAsked(j) ==
    /\ jobAt[j] \in InPublish => scope[j] = {ciJob[j].asks}
    /\ jobAt[j] \in InPublish \ {"known"} =>
          /\ ciJob[j].publishes \in scope[j]
          /\ <<carried[j].name, ciJob[j].publishes>> \in registry.mayPublish

\* A row that was deleted before the publish does not come back.
RowsStayDeleted(j) ==
    /\ jobAt[j] = "answered" => j \in keyRows \cup withdrawn
    /\ j \in withdrawn =>
          j \notin keyRows /\ jobAt[j] \in {"answered", "asked", "refused"}

TrustInv ==
    TrustTypeOK /\ \A j \in Job : VouchedFor(j) /\ ScopeIsAsked(j) /\ RowsStayDeleted(j)

\* The entry that matched vouches for the job.
LEMMA ExchangeKeeps ==
    ASSUME TrustInv, NEW j \in Job,
           \/ Exchange(j) \/ TryEntry(j) \/ NoneMatches(j) \/ Sign(j)
           \/ SaveKey(j) \/ SaveFails(j) \/ Revoke(j)
    PROVE  TrustInv'
<1> USE DEF TrustInv, TrustTypeOK, VouchedFor, ScopeIsAsked, RowsStayDeleted, Steps, Tried,
        InPublish, JobStage, Entry, Vouches, Candidate, JwtVerify
<1>1. CASE Exchange(j)
  BY <1>1 DEF Exchange
<1>2. CASE TryEntry(j)
  <2>1. /\ jobAt[j] = "trying" /\ UNCHANGED <<registry, ciJob, carried, keyRows, scope, withdrawn>>
        /\ \/ /\ Vouches(Entry(j), j) /\ entryAt[j] \in DOMAIN registry.publishers
              /\ jobAt' = [jobAt EXCEPT ![j] = "matched"] /\ entryAt' = entryAt
           \/ jobAt' = jobAt /\ entryAt' = [entryAt EXCEPT ![j] = @ + 1]
    BY <1>2 DEF TryEntry, NextEntry, ClaimsMatch
  <2>2. TrustTypeOK'
    BY <2>1
  <2>3. ASSUME NEW q \in Job PROVE VouchedFor(q)' /\ ScopeIsAsked(q)' /\ RowsStayDeleted(q)'
    <3>1. VouchedFor(q) /\ ScopeIsAsked(q) /\ RowsStayDeleted(q)
      OBVIOUS
    <3>2. CASE q = j
      BY <2>1, <3>1, <3>2
    <3>3. CASE q # j
      BY <2>1, <3>1, <3>3
    <3> QED
      BY <3>2, <3>3
  <2> QED
    BY <2>2, <2>3
<1>3. CASE NoneMatches(j)
  BY <1>3 DEF NoneMatches
<1>4. CASE Sign(j)
  <2>1. CASE registry.legacy
    BY <1>4, <2>1 DEF Sign
  <2>2. CASE ~registry.legacy
    <3>1. /\ jobAt[j] = "matched" /\ jobAt' = [jobAt EXCEPT ![j] = "signed"]
          /\ UNCHANGED <<registry, ciJob, entryAt, keyRows, scope, withdrawn>>
      BY <1>4, <2>2 DEF Sign
    <3>2. /\ carried'[j].name = Entry(j).user /\ DOMAIN carried' = Job
          /\ \A q \in Job \ {j} : carried'[q] = carried[q]
      BY <1>4, <2>2 DEF Sign, JwtEncrypt
    <3>3. TrustTypeOK'
      BY <3>1, <3>2
    <3>4. ASSUME NEW q \in Job PROVE VouchedFor(q)' /\ ScopeIsAsked(q)' /\ RowsStayDeleted(q)'
      <4>1. VouchedFor(q) /\ ScopeIsAsked(q) /\ RowsStayDeleted(q)
        OBVIOUS
      <4>2. CASE q = j
        BY <3>1, <3>2, <4>1, <4>2
      <4>3. CASE q # j
        BY <3>1, <3>2, <4>1, <4>3
      <4> QED
        BY <4>2, <4>3
    <3> QED
      BY <3>3, <3>4
  <2> QED
    BY <2>1, <2>2
<1>5. CASE SaveKey(j)
  BY <1>5 DEF SaveKey
<1>6. CASE SaveFails(j)
  BY <1>6 DEF SaveFails
<1>7. CASE Revoke(j)
  BY <1>7 DEF Revoke
<1> QED
  BY <1>1, <1>2, <1>3, <1>4, <1>5, <1>6, <1>7

\* A publish gets no further than its token allows.
LEMMA PublishKeeps ==
    ASSUME TrustInv, NEW j \in Job,
           \/ PublishArrives(j) \/ Enforce(j) \/ CanPublish(j) \/ UserOtp(j)
           \/ PublishOtp(j)
    PROVE  TrustInv'
<1> USE DEF TrustInv, TrustTypeOK, VouchedFor, ScopeIsAsked, RowsStayDeleted, Steps, Tried,
        InPublish, JobStage, Entry, Vouches, Candidate, JwtVerify
<1>1. CASE PublishArrives(j)
  BY <1>1 DEF PublishArrives
<1>2. CASE Enforce(j)
  <2>1. CASE j \notin keyRows
    BY <1>2, <2>1 DEF Enforce
  <2>2. CASE j \in keyRows
    <3>1. /\ jobAt[j] = "asked" /\ jobAt' = [jobAt EXCEPT ![j] = "known"]
          /\ scope' = [scope EXCEPT ![j] = {ciJob[j].asks}]
          /\ UNCHANGED <<registry, ciJob, entryAt, carried, keyRows, withdrawn>>
      BY <1>2, <2>2 DEF Enforce, RowPackages
    <3>2. TrustTypeOK'
      BY <3>1
    <3>3. ASSUME NEW q \in Job PROVE VouchedFor(q)' /\ ScopeIsAsked(q)' /\ RowsStayDeleted(q)'
      BY <2>2, <3>1
    <3> QED
      BY <3>2, <3>3
  <2> QED
    BY <2>1, <2>2
<1>3. CASE CanPublish(j)
  BY <1>3 DEF CanPublish
<1>4. CASE UserOtp(j)
  BY <1>4 DEF UserOtp
<1>5. CASE PublishOtp(j)
  BY <1>5 DEF PublishOtp
<1> QED
  BY <1>1, <1>2, <1>3, <1>4, <1>5

\* What a job publishes is the package it asked for, an entry vouches for it and for
\* the user it publishes as, and its row was not revoked before, for any jobs, entries
\* and rights (oidc-exchange.ts, enforceGeneratedTokenMetadata).
THEOREM TrustAlwaysEarned == TrustSpec => []TrustIsEarned
<1>1. TrustInit => TrustInv
  BY DEF TrustInit, TrustInv, TrustTypeOK, VouchedFor, ScopeIsAsked, RowsStayDeleted,
     Tried, InPublish, JobStage
<1>2. TrustInv /\ [TrustNext]_trustVars => TrustInv'
  <2> SUFFICES ASSUME TrustInv, [TrustNext]_trustVars PROVE TrustInv'
    OBVIOUS
  <2>1. CASE UNCHANGED trustVars
    BY <2>1 DEF trustVars, TrustInv, TrustTypeOK, VouchedFor, ScopeIsAsked,
       RowsStayDeleted, Entry, Vouches, Candidate, JwtVerify
  <2> QED
    BY <2>1, ExchangeKeeps, PublishKeeps DEF TrustNext
<1>3. TrustInv => TrustIsEarned
  <2> SUFFICES ASSUME TrustInv, NEW j \in Job, jobAt[j] = "published"
               PROVE  /\ ciJob[j].publishes = ciJob[j].asks /\ j \notin withdrawn
                      /\ \E i \in DOMAIN registry.publishers :
                            LET e == registry.publishers[i]
                            IN  /\ Vouches(e, j) /\ e.user = carried[j].name
                                /\ <<e.user, ciJob[j].asks>> \in registry.mayPublish
    BY DEF TrustIsEarned, TrustInv, RowsStayDeleted
  <2>1. VouchedFor(j) /\ ScopeIsAsked(j) /\ RowsStayDeleted(j)
    BY DEF TrustInv
  <2>2. /\ entryAt[j] \in DOMAIN registry.publishers /\ Vouches(Entry(j), j)
        /\ carried[j].name = Entry(j).user
    BY <2>1 DEF VouchedFor, Tried
  <2>3. ciJob[j].publishes = ciJob[j].asks /\ j \notin withdrawn
    BY <2>1 DEF ScopeIsAsked, RowsStayDeleted, InPublish
  <2>4. <<Entry(j).user, ciJob[j].asks>> \in registry.mayPublish
    BY <2>1, <2>2, <2>3 DEF ScopeIsAsked, InPublish
  <2> QED
    BY <2>2, <2>3, <2>4 DEF Entry
<1> QED
  BY <1>1, <1>2, <1>3, PTL DEF TrustSpec

-----------------------------------------------------------------------------
(* The chain of auth plugins *)

\* Plugin t is the first that has an opinion on publishing.
SilentBefore(t) ==
    \A i \in 1..Len(plugins) : i < t => plugins[i]["publish"] \notin {"error", "yes"}
Voice(t) == IF t <= Len(plugins) THEN plugins[t]["publish"] ELSE AllowAction("publish")
FirstVoice(t) ==
    /\ t \in Nat \ {0} /\ SilentBefore(t)
    /\ Voice(t) \in {"error", "yes"}

\* what the chain answers to whoever wants to publish
PublishVerdict(answer) ==
    IF inScope THEN \E t \in Nat : FirstVoice(t)
                       /\ answer = IF Voice(t) = "yes" THEN "allowed" ELSE "denied"
               ELSE answer = "denied"

\* a question about publishing, or one that nobody but the rules for publishing
\* can answer
GoesByPublish(a) ==
    asks[a] = "publish" \/ (asks[a] \in Fallback /\ NoOpinionOn(asks[a]))

AuthTypeOK ==
    /\ plugins \in Seq([Right -> Reply]) /\ asks \in [Asker -> Right]
    /\ right \in [Asker -> Right] /\ turnOf \in [Asker -> Nat]
    /\ DOMAIN verdict = Asker

OnThePublishWay(a) ==
    GoesByPublish(a) =>
        /\ right[a] \in {asks[a], "publish"}
        /\ turnOf[a] > 0 => inScope
        /\ right[a] = "publish" => SilentBefore(turnOf[a])
        /\ verdict[a] # "open" => PublishVerdict(verdict[a])

AuthInv == AuthTypeOK /\ \A a \in Asker : OnThePublishWay(a)

\* The chain gives one answer.
LEMMA OneVerdict ==
    ASSUME AuthTypeOK, NEW x, NEW y, PublishVerdict(x), PublishVerdict(y)
    PROVE  x = y
<1>1. CASE inScope
  <2>1. PICK t \in Nat : FirstVoice(t) /\ x = IF Voice(t) = "yes" THEN "allowed" ELSE "denied"
    BY <1>1 DEF PublishVerdict
  <2>2. PICK u \in Nat : FirstVoice(u) /\ y = IF Voice(u) = "yes" THEN "allowed" ELSE "denied"
    BY <1>1 DEF PublishVerdict
  <2>3. Len(plugins) \in Nat
    BY DEF AuthTypeOK
  <2>4. CASE t <= Len(plugins) \/ u <= Len(plugins)
    <3>1. t = u
      BY <2>1, <2>2, <2>3, <2>4 DEF FirstVoice, SilentBefore, Voice
    <3> QED
      BY <2>1, <2>2, <3>1
  <2>5. CASE ~(t <= Len(plugins)) /\ ~(u <= Len(plugins))
    BY <2>1, <2>2, <2>5 DEF Voice
  <2> QED
    BY <2>4, <2>5
<1>2. CASE ~inScope
  BY <1>2 DEF PublishVerdict
<1> QED
  BY <1>1, <1>2

\* The checks before the plugins.
LEMMA BeginKeeps ==
    ASSUME AuthInv, NEW a \in Asker, Begin(a)
    PROVE  AuthInv'
<1>0. /\ AuthTypeOK /\ OnThePublishWay(a) /\ turnOf[a] = 0 /\ verdict[a] = "open"
      /\ UNCHANGED <<plugins, member, configured, visible, inScope, asks, right>>
  BY DEF AuthInv, Begin, Decide, Pass
<1>1. \A x : PublishVerdict(x)' = PublishVerdict(x)
  BY <1>0 DEF PublishVerdict, FirstVoice, SilentBefore, Voice, AllowAction
<1>2. \A b \in Asker : GoesByPublish(b)' = GoesByPublish(b)
  BY <1>0 DEF GoesByPublish, NoOpinionOn
<1>3. AuthTypeOK'
  BY <1>0 DEF AuthTypeOK, Begin, Decide, Pass
<1>4. ASSUME NEW b \in Asker \ {a} PROVE OnThePublishWay(b)'
  <2>1. turnOf'[b] = turnOf[b] /\ verdict'[b] = verdict[b] /\ right'[b] = right[b]
    BY <1>0 DEF AuthTypeOK, Begin, Decide, Pass
  <2> QED
    BY <1>0, <1>1, <1>2, <2>1 DEF AuthInv, OnThePublishWay, SilentBefore
<1>5. OnThePublishWay(a)'
  <2> SUFFICES ASSUME GoesByPublish(a) PROVE OnThePublishWay(a)'
    BY <1>2 DEF OnThePublishWay
  <2>1. right[a] \in {asks[a], "publish"} /\ right[a] \notin {"authenticate", "adduser", "access"}
    BY <1>0 DEF OnThePublishWay, GoesByPublish, Fallback
  <2>2. CASE inScope
    <3>1. turnOf'[a] = 1 /\ verdict'[a] = "open"
      BY <1>0, <2>1, <2>2 DEF Begin, Pass, AuthTypeOK
    <3> QED
      BY <1>0, <2>1, <2>2, <3>1 DEF OnThePublishWay, SilentBefore
  <2>3. CASE ~inScope
    <3>1. turnOf'[a] = 0 /\ verdict'[a] = "denied"
      BY <1>0, <2>1, <2>3 DEF Begin, Decide, AuthTypeOK
    <3> QED
      BY <1>0, <2>1, <2>3, <3>1 DEF OnThePublishWay, SilentBefore, PublishVerdict
  <2> QED
    BY <2>2, <2>3
<1> QED
  BY <1>3, <1>4, <1>5 DEF AuthInv

\* A plugin without an opinion leaves the question to the next one, or to those
\* who decide on publishing.
LEMMA PluginKeeps ==
    ASSUME AuthInv, NEW a \in Asker, PluginDecides(a)
    PROVE  AuthInv'
<1>0. /\ AuthTypeOK /\ OnThePublishWay(a) /\ turnOf[a] > 0 /\ verdict[a] = "open"
      /\ UNCHANGED <<plugins, member, configured, visible, inScope, asks>>
      /\ turnOf[a] \in Nat /\ Len(plugins) \in Nat
  BY DEF AuthInv, PluginDecides, AuthTypeOK
<1>1. \A x : PublishVerdict(x)' = PublishVerdict(x)
  BY <1>0 DEF PublishVerdict, FirstVoice, SilentBefore, Voice, AllowAction
<1>2. \A b \in Asker : GoesByPublish(b)' = GoesByPublish(b)
  BY <1>0 DEF GoesByPublish, NoOpinionOn
<1>3. \/ /\ AnswerOf(a) = "error" /\ Decide(a, "denied")
      \/ /\ AnswerOf(a) = "yes" /\ right[a] = "adduser" /\ AskInstead(a, "authenticate")
      \/ /\ AnswerOf(a) = "yes" /\ right[a] # "adduser" /\ Decide(a, "allowed")
      \/ /\ AnswerOf(a) = "nothing" /\ right[a] \in Fallback /\ AskInstead(a, "publish")
      \/ /\ AnswerOf(a) \notin {"error", "yes"}
         /\ ~(AnswerOf(a) = "nothing" /\ right[a] \in Fallback) /\ Pass(a)
  BY DEF PluginDecides
<1>4. AuthTypeOK'
  BY <1>0, <1>3 DEF AuthTypeOK, Decide, AskInstead, Pass, Right
<1>5. ASSUME NEW b \in Asker \ {a} PROVE OnThePublishWay(b)'
  <2>1. turnOf'[b] = turnOf[b] /\ verdict'[b] = verdict[b] /\ right'[b] = right[b]
    BY <1>0, <1>3 DEF AuthTypeOK, Decide, AskInstead, Pass
  <2> QED
    BY <1>0, <1>1, <1>2, <2>1 DEF AuthInv, OnThePublishWay, SilentBefore
<1>6. OnThePublishWay(a)'
  <2> SUFFICES ASSUME GoesByPublish(a) PROVE OnThePublishWay(a)'
    BY <1>2 DEF OnThePublishWay
  <2>0. right[a] \in {asks[a], "publish"} /\ right[a] # "adduser" /\ inScope
    BY <1>0 DEF OnThePublishWay, GoesByPublish, Fallback
  <2>1. CASE right[a] = "publish"
    <3>1. AnswerOf(a) = Voice(turnOf[a]) /\ SilentBefore(turnOf[a])
      BY <1>0, <2>1 DEF AnswerOf, Voice, BuiltIn, Fallback, OnThePublishWay
    <3>2. CASE AnswerOf(a) \in {"error", "yes"}
      <4>1. FirstVoice(turnOf[a])
        BY <1>0, <3>1, <3>2 DEF FirstVoice
      <4>2. /\ verdict'[a] = IF Voice(turnOf[a]) = "yes" THEN "allowed" ELSE "denied"
            /\ right'[a] = right[a] /\ turnOf'[a] = turnOf[a]
        BY <1>0, <1>3, <2>0, <3>1, <3>2 DEF Decide, AuthTypeOK
      <4>3. PublishVerdict(verdict'[a])
        BY <1>0, <2>0, <4>1, <4>2 DEF PublishVerdict
      <4> QED
        BY <1>0, <1>1, <2>0, <2>1, <3>1, <4>2, <4>3 DEF OnThePublishWay, SilentBefore
    <3>3. CASE AnswerOf(a) \notin {"error", "yes"}
      <4>1. Pass(a)
        BY <1>3, <2>1, <3>3 DEF Fallback
      <4>2. turnOf'[a] = turnOf[a] + 1 /\ right'[a] = "publish" /\ verdict'[a] = "open"
        BY <1>0, <2>1, <4>1 DEF Pass, AuthTypeOK
      <4>3. SilentBefore(turnOf[a] + 1)
        BY <1>0, <3>1, <3>3 DEF SilentBefore, Voice
      <4> QED
        BY <1>0, <2>0, <4>2, <4>3 DEF OnThePublishWay, SilentBefore
    <3> QED
      BY <3>2, <3>3
  <2>2. CASE right[a] # "publish"
    <3>1. right[a] = asks[a] /\ asks[a] \in Fallback /\ NoOpinionOn(asks[a])
      BY <2>0, <2>2 DEF GoesByPublish
    <3>2. AnswerOf(a) \in {"missing", "no", "nothing"}
      BY <1>0, <3>1 DEF AnswerOf, BuiltIn, NoOpinionOn, Fallback
    <3>3. CASE AskInstead(a, "publish")
      <4>1. right'[a] = "publish" /\ turnOf'[a] = 0 /\ verdict'[a] = "open"
        BY <1>0, <3>3 DEF AskInstead, AuthTypeOK
      <4> QED
        BY <1>0, <4>1 DEF OnThePublishWay, SilentBefore
    <3>4. CASE Pass(a)
      <4>1. right'[a] = right[a] /\ verdict'[a] = "open"
        BY <1>0, <3>4 DEF Pass
      <4> QED
        BY <1>0, <2>0, <2>2, <4>1 DEF OnThePublishWay
    <3> QED
      BY <1>3, <3>2, <3>3, <3>4
  <2> QED
    BY <2>1, <2>2
<1> QED
  BY <1>4, <1>5, <1>6 DEF AuthInv

\* Where neither the configuration nor a plugin has an opinion on unpublishing
\* or staging, they are for whoever may publish (auth.ts, allow_unpublish and
\* allow_stage), for any chain of plugins and any askers.
THEOREM FallbackAlwaysPublish == AuthSpec => []FallbackIsPublish
<1>1. AuthInit => AuthInv
  <2> SUFFICES ASSUME AuthInit PROVE AuthInv
    OBVIOUS
  <2>1. AuthTypeOK
    BY AuthAssumption DEF AuthInit, AuthTypeOK
  <2> QED
    BY <2>1 DEF AuthInit, AuthInv, OnThePublishWay, SilentBefore, AuthTypeOK
<1>2. AuthInv /\ [AuthNext]_authVars => AuthInv'
  <2>1. ASSUME AuthInv, UNCHANGED authVars PROVE AuthInv'
    <3>1. \A x : PublishVerdict(x)' = PublishVerdict(x)
      BY <2>1 DEF authVars, PublishVerdict, FirstVoice, SilentBefore, Voice, AllowAction
    <3>2. \A a \in Asker : GoesByPublish(a)' = GoesByPublish(a)
      BY <2>1 DEF authVars, GoesByPublish, NoOpinionOn
    <3>3. AuthTypeOK'
      BY <2>1 DEF authVars, AuthInv, AuthTypeOK
    <3> QED
      BY <2>1, <3>1, <3>2, <3>3 DEF authVars, AuthInv, OnThePublishWay, SilentBefore
  <2> QED
    BY <2>1, BeginKeeps, PluginKeeps DEF AuthNext, AuthStep
<1>3. AuthInv => FallbackIsPublish
  BY OneVerdict DEF AuthInv, OnThePublishWay, GoesByPublish, FallbackIsPublish
<1> QED
  BY <1>1, <1>2, <1>3, PTL DEF AuthSpec

-----------------------------------------------------------------------------
(* The session of a login *)

LoginTypeOK ==
    /\ sessionRows \in Seq(Guest \cup {NoToken}) /\ cell \in Guest \cup {NoToken}
    /\ DOMAIN room = Guest
    /\ found \in [Guest -> Guest \cup {NoToken}]
    /\ handed \in [Guest -> Guest \cup {NoToken}]

\* of the OIDC plugin: with the token the session goes, for good
OneForTheSession ==
    /\ sessionRows = <<>>
    /\ cell # NoToken => session = "open"
    /\ \A g \in Guest : handed[g] # NoToken => session = "none"
    /\ \A g, q \in Guest : handed[g] # NoToken /\ handed[q] # NoToken => g = q

Saved(t) == t \in Guest /\ guest[t] = "password" /\ room[t] = "ended"
Unhanded(t) == \A g \in Guest : handed[g] # t

\* of the registry: a token in the rows was saved, and it is saved once, so that
\* it does not come back when a poll that read it has deleted the rows
OnceInTheRows ==
    /\ \A i \in 1..Len(sessionRows) :
          sessionRows[i] # NoToken => Saved(sessionRows[i]) /\ Unhanded(sessionRows[i])
    /\ \A g \in Guest : room[g] = "found" => Saved(found[g])
    /\ \A g \in Guest : handed[g] # NoToken => Saved(handed[g])

LoginInv ==
    /\ LoginTypeOK
    /\ IF inMemory THEN OneForTheSession ELSE OnceInTheRows

\* The steps on the rows of the registry.
LEMMA RowsKeep ==
    ASSUME LoginInv, NEW g \in Guest,
           ReadSession(g) \/ DropSession(g) \/ DeleteSession(g) \/ SaveSession(g)
    PROVE  LoginInv'
<1> USE LoginAssumption DEF Comes, sessionConfig, sessionState
<1>0. /\ LoginTypeOK /\ OnceInTheRows /\ ~inMemory /\ inMemory' = inMemory /\ guest' = guest
      /\ \A t \in Guest : room[t] = "ended" => room'[t] = "ended"
      /\ DOMAIN room' = Guest
  BY DEF LoginInv, LoginTypeOK, ReadSession, DropSession, DeleteSession, SaveSession
<1>1. \A t : Saved(t) => Saved(t)'
  BY <1>0 DEF Saved
<1>2. CASE ReadSession(g)
  <2>1. UNCHANGED <<sessionRows, session, cell, handed>>
    BY <1>2 DEF ReadSession
  <2>2. CASE room'[g] = "found"
    <3>1. /\ Len(sessionRows) = 1 /\ sessionRows[1] # NoToken
          /\ found' = [found EXCEPT ![g] = sessionRows[1]]
          /\ \A q \in Guest \ {g} : room'[q] = room[q]
      BY <1>0, <1>2, <2>2 DEF ReadSession, LoginTypeOK
    <3>2. sessionRows[1] \in Guest /\ Saved(sessionRows[1]) /\ Unhanded(sessionRows[1])
      <4>1. 1 \in 1..Len(sessionRows)
        BY <3>1
      <4> QED
        BY <1>0, <3>1, <4>1 DEF OnceInTheRows, Saved
    <3>3. LoginTypeOK' /\ found'[g] = sessionRows[1]
      BY <1>0, <2>1, <3>1, <3>2 DEF LoginTypeOK
    <3> QED
      BY <1>0, <1>1, <2>1, <3>1, <3>2, <3>3 DEF LoginInv, OnceInTheRows, Unhanded
  <2>3. CASE room'[g] # "found"
    <3>1. /\ \A q \in Guest : room'[q] = "found" => room[q] = "found"
          /\ found' = found
      BY <1>0, <1>2, <2>3 DEF ReadSession, LoginTypeOK
    <3>2. LoginTypeOK'
      BY <1>0, <2>1, <3>1 DEF LoginTypeOK
    <3> QED
      BY <1>0, <1>1, <2>1, <3>1, <3>2 DEF LoginInv, OnceInTheRows, Unhanded
  <2> QED
    BY <2>2, <2>3
<1>3. CASE DropSession(g)
  <2>1. /\ UNCHANGED <<session, cell, found>> /\ sessionRows' = <<>> /\ room[g] = "found"
        /\ \A q \in Guest : room'[q] = "found" => room[q] = "found"
        /\ handed' = handed \/ handed' = [handed EXCEPT ![g] = found[g]]
    BY <1>0, <1>3 DEF DropSession, LoginTypeOK, OnceInTheRows
  <2>2. LoginTypeOK'
    BY <1>0, <2>1 DEF LoginTypeOK
  <2>3. CASE handed' = handed
    BY <1>0, <1>1, <2>1, <2>2, <2>3 DEF LoginInv, OnceInTheRows, Unhanded
  <2>4. CASE handed' = [handed EXCEPT ![g] = found[g]]
    <3>1. handed'[g] = found[g] /\ \A q \in Guest \ {g} : handed'[q] = handed[q]
      BY <1>0, <2>4 DEF LoginTypeOK
    <3>2. Saved(found[g])
      BY <1>0, <2>1 DEF OnceInTheRows
    <3> QED
      BY <1>0, <1>1, <2>1, <2>2, <3>1, <3>2 DEF LoginInv, OnceInTheRows, Unhanded
  <2> QED
    BY <2>1, <2>3, <2>4
<1>4. CASE DeleteSession(g)
  <2>1. /\ UNCHANGED <<session, cell, found, handed>> /\ sessionRows' = <<>>
        /\ \A q \in Guest : room'[q] = "found" => room[q] = "found"
    BY <1>0, <1>4 DEF DeleteSession, LoginTypeOK
  <2>2. LoginTypeOK'
    BY <1>0, <2>1 DEF LoginTypeOK
  <2> QED
    BY <1>0, <1>1, <2>1, <2>2 DEF LoginInv, OnceInTheRows, Unhanded
<1>5. CASE SaveSession(g)
  <2>1. /\ UNCHANGED <<session, cell, found, handed>> /\ sessionRows' = Append(sessionRows, g)
        /\ \A q \in Guest : room'[q] = "found" => room[q] = "found"
        /\ room[g] = "deleted" /\ room'[g] = "ended" /\ guest[g] = "password"
    BY <1>0, <1>5 DEF SaveSession, LoginTypeOK
  <2>2. LoginTypeOK'
    BY <1>0, <2>1 DEF LoginTypeOK
  <2>3. Saved(g)' /\ Unhanded(g)'
    BY <1>0, <2>1 DEF OnceInTheRows, Saved, Unhanded
  <2>4. \A i \in 1..Len(sessionRows') :
           sessionRows'[i] = g \/ (i \in 1..Len(sessionRows) /\ sessionRows'[i] = sessionRows[i])
    BY <1>0, <2>1 DEF LoginTypeOK
  <2> QED
    BY <1>0, <1>1, <2>1, <2>2, <2>3, <2>4 DEF LoginInv, OnceInTheRows, Unhanded
<1> QED
  BY <1>2, <1>3, <1>4, <1>5

\* The steps on the session in memory, and those that change no token.
LEMMA SessionKeeps ==
    ASSUME LoginInv, NEW g \in Guest,
           \/ ConsumeCliToken(g) \/ Authenticated(g) \/ CompleteWithPassword(g)
           \/ CreatePendingAuth(g) \/ ConsumePendingAuth(g) \/ CreatePendingConfirm(g)
           \/ Confirm(g) \/ Expires
    PROVE  LoginInv'
<1> USE LoginAssumption DEF sessionConfig, sessionState
<1>0. /\ LoginTypeOK /\ inMemory' = inMemory /\ guest' = guest
      /\ UNCHANGED <<sessionRows, found>> /\ DOMAIN room' = Guest
      /\ \A q \in Guest : room'[q] = "found" => room[q] = "found"
  BY DEF LoginInv, LoginTypeOK, ConsumeCliToken, Authenticated, CompleteWithPassword,
     CreatePendingAuth, ConsumePendingAuth, CreatePendingConfirm, Confirm, Expires, Comes
<1>1. CASE ConsumeCliToken(g)
  <2>1. /\ inMemory /\ OneForTheSession /\ handed' = [handed EXCEPT ![g] = cell]
        /\ IF cell = NoToken THEN UNCHANGED <<session, cell>>
                             ELSE session' = "none" /\ cell' = NoToken
    BY <1>1 DEF ConsumeCliToken, LoginInv
  <2>2. LoginTypeOK'
    BY <1>0, <2>1 DEF LoginTypeOK
  <2>3. handed'[g] = cell /\ \A q \in Guest \ {g} : handed'[q] = handed[q]
    BY <1>0, <2>1 DEF LoginTypeOK
  <2>4. OneForTheSession'
    BY <1>0, <2>1, <2>3 DEF OneForTheSession
  <2> QED
    BY <1>0, <2>1, <2>2, <2>4 DEF LoginInv
<1>2. CASE ~ConsumeCliToken(g)
  <2>1. /\ handed' = handed
        /\ \/ UNCHANGED <<session, cell>>
           \/ session = "open" /\ session' = session /\ cell' = g
           \/ session' = "none" /\ cell' = NoToken
    BY <1>2 DEF Authenticated, CompleteWithPassword, CreatePendingAuth, ConsumePendingAuth,
       CreatePendingConfirm, Confirm, Expires, Completed
  <2>2. LoginTypeOK'
    BY <1>0, <2>1 DEF LoginTypeOK
  <2>3. CASE inMemory
    BY <1>0, <2>1, <2>2, <2>3 DEF LoginInv, OneForTheSession
  <2>4. CASE ~inMemory
    <3>1. \A t \in Guest : guest[t] = "password" /\ room[t] = "ended" => room'[t] = "ended"
      BY <1>0, <1>2 DEF LoginTypeOK, Authenticated, CompleteWithPassword, CreatePendingAuth,
         ConsumePendingAuth, CreatePendingConfirm, Confirm, Expires, Comes
    <3>2. \A t : Saved(t) => Saved(t)'
      BY <1>0, <3>1 DEF Saved
    <3> QED
      BY <1>0, <2>1, <2>2, <2>4, <3>2 DEF LoginInv, OnceInTheRows, Unhanded
  <2> QED
    BY <2>3, <2>4
<1> QED
  BY <1>1, <1>2

\* A session token that was answered is spent: no poll that comes later finds it,
\* and the OIDC plugin answers with no other (login.ts and state.ts), for any
\* guests of a session in any order, polls that overlap included.
THEOREM HandedAlwaysSpent == LoginSpec => []HandedIsSpent
<1>1. LoginInit => LoginInv
  <2> SUFFICES ASSUME LoginInit PROVE LoginInv
    OBVIOUS
  <2>1. LoginTypeOK
    <3>1. sessionRows = <<>> \/ sessionRows = <<NoToken>>
      BY DEF LoginInit
    <3>2. sessionRows \in Seq(Guest \cup {NoToken})
      <4> DEFINE token == Guest \cup {NoToken}
      <4>1. NoToken \in token
        OBVIOUS
      <4> HIDE DEF token
      <4>2. <<>> \in Seq(token)
        OBVIOUS
      <4>3. <<NoToken>> \in Seq(token)
        BY <4>1
      <4>4. sessionRows \in Seq(token)
        BY <3>1, <4>2, <4>3, Zenon
      <4> QED
        BY <4>4 DEF token
    <3>3. cell \in Guest \cup {NoToken} /\ DOMAIN room = Guest
      BY DEF LoginInit
    <3>4. [g \in Guest |-> NoToken] \in [Guest -> Guest \cup {NoToken}]
      OBVIOUS
    <3>5. found = [g \in Guest |-> NoToken] /\ handed = found
      BY DEF LoginInit
    <3>6. found \in [Guest -> Guest \cup {NoToken}] /\ handed \in [Guest -> Guest \cup {NoToken}]
      BY <3>4, <3>5
    <3> QED
      BY <3>2, <3>3, <3>6 DEF LoginTypeOK
  <2>2. IF inMemory THEN OneForTheSession ELSE OnceInTheRows
    BY DEF LoginInit, OneForTheSession, OnceInTheRows
  <2> QED
    BY <2>1, <2>2 DEF LoginInv
<1>2. LoginInv /\ [LoginNext]_loginVars => LoginInv'
  <2>1. ASSUME LoginInv, UNCHANGED loginVars PROVE LoginInv'
    BY <2>1 DEF loginVars, LoginInv, LoginTypeOK, OneForTheSession, OnceInTheRows, Saved, Unhanded
  <2>2. ASSUME LoginInv, Expires PROVE LoginInv'
    <3>1. CASE Guest = {}
      BY <2>2, <3>1 DEF LoginInv, LoginTypeOK, OneForTheSession, OnceInTheRows, Saved, Unhanded,
         Expires, sessionConfig
    <3>2. CASE Guest # {}
      BY <2>2, <3>2, SessionKeeps
    <3> QED
      BY <3>1, <3>2
  <2> QED
    BY <2>1, <2>2, RowsKeep, SessionKeeps DEF LoginNext
<1>3. LoginInv => HandedIsSpent
  <2> SUFFICES ASSUME LoginInv, NEW g \in Guest, handed[g] # NoToken
               PROVE  /\ \A i \in 1..Len(sessionRows) : sessionRows[i] # handed[g]
                      /\ inMemory => cell = NoToken
                                     /\ \A q \in Guest \ {g} : handed[q] = NoToken
    BY DEF HandedIsSpent
  <2>1. CASE inMemory
    BY <2>1 DEF LoginInv, OneForTheSession
  <2>2. CASE ~inMemory
    BY <2>2 DEF LoginInv, OnceInTheRows, Unhanded
  <2> QED
    BY <2>1, <2>2
<1> QED
  BY <1>1, <1>2, <1>3, PTL DEF LoginSpec

-----------------------------------------------------------------------------
(* Bearer tokens *)

\* what an entry of the cache may say: the key of its own token, and a time to
\* live that began when the plugin accepted that token
Vouched ==
    {e \in [bearer : Bearer, key : TokenKey \cup {NoKey}, expires : Nat] :
        e.key = e.bearer.key /\ e.expires <= checked[e.bearer] + Ttl}

BearerTypeOK ==
    /\ clock \in Nat /\ issued \subseteq TokenKey
    /\ calls \in [Caller -> Calling]
    /\ DOMAIN stage = Caller /\ DOMAIN stale = Caller
    /\ remoteKey \in [Caller -> TokenKey \cup {NoKey}]
    /\ checked \in [Bearer -> Nat]

\* a key that was revoked has no row, and never gets one again
RevokedHaveNoRow ==
    /\ revoked \subseteq issued \ tokenRows
    /\ \A c \in Caller : stage[c] # "new" /\ calls[c].kind = "revoke" => calls[c].key \in issued
    /\ \A c \in Caller : stage[c] = "gone" => calls[c].key \in issued \ tokenRows

KnownByItsKey == \A c \in Caller : stage[c] = "known" => remoteKey[c] = Of(c).key

BearerInv ==
    /\ BearerTypeOK
    /\ \A b \in Bearer : checked[b] <= clock
    /\ cache \in Seq(Vouched)
    /\ RevokedHaveNoRow
    /\ \A c \in Caller : stale[c] \subseteq revoked
    /\ KnownByItsKey
    /\ RevokedIsRefused

\* The cache keeps entries that are vouched for, when one is used and when one
\* is stored; what it finds for a token has that token's key.
LEMMA TouchedIsVouched ==
    ASSUME BearerInv, NEW b \in Bearer
    PROVE  /\ Touched(b) \in Seq(Vouched)
           /\ Hit(b) => cache[PlaceOf(b)].key = b.key
<1>0. cache \in Seq(Vouched)
  BY DEF BearerInv
<1>1. CASE Cached(b)
  <2> DEFINE n == PlaceOf(b)
  <2>1. n \in 1..Len(cache) /\ cache[n].bearer = b
    BY <1>1 DEF Cached, PlaceOf
  <2> HIDE DEF n
  <2>2. cache[n] \in Vouched
    BY <1>0, <2>1
  <2>3. SubSeq(cache, 1, n - 1) \in Seq(Vouched) /\ SubSeq(cache, n + 1, Len(cache)) \in Seq(Vouched)
    BY <1>0, <2>1
  <2>4. SubSeq(cache, 1, n - 1) \o SubSeq(cache, n + 1, Len(cache)) \in Seq(Vouched)
    BY <2>3
  <2>5. Others(b) \in Seq(Vouched)
    BY <1>1, <2>4 DEF Others, n
  <2>6. Append(Others(b), cache[n]) \in Seq(Vouched)
    BY <2>2, <2>5
  <2>7. Touched(b) \in Seq(Vouched)
    BY <2>5, <2>6 DEF Touched, n
  <2> QED
    BY <2>1, <2>2, <2>7 DEF Vouched, n
<1>2. CASE ~Cached(b)
  BY <1>0, <1>2 DEF Touched, Hit, Others
<1> QED
  BY <1>1, <1>2

LEMMA StoredIsVouched ==
    ASSUME BearerInv, NEW b \in Bearer, checked' = [checked EXCEPT ![b] = clock]
    PROVE  Stored(b) \in Seq(Vouched')
<1> USE AccessAssumption
<1> DEFINE entry == [bearer |-> b, key |-> b.key, expires |-> clock + Ttl]
           all == IF Cached(b) THEN [cache EXCEPT ![PlaceOf(b)] = entry] ELSE Append(cache, entry)
<1>0. /\ cache \in Seq(Vouched) /\ clock \in Nat /\ checked \in [Bearer -> Nat]
      /\ \A x \in Bearer : checked[x] <= clock
  BY DEF BearerInv, BearerTypeOK
<1>1. checked' \in [Bearer -> Nat] /\ \A x \in Bearer : checked[x] <= checked'[x]
  BY <1>0
<1>2. Vouched \subseteq Vouched'
  BY <1>0, <1>1 DEF Vouched
<1>3. cache \in Seq(Vouched')
  BY <1>0, <1>2
<1>4. entry \in Vouched'
  <2>1. b.key \in TokenKey \cup {NoKey}
    BY DEF Bearer
  <2>2. checked'[b] = clock /\ clock + Ttl \in Nat
    BY <1>0
  <2>3. entry \in [bearer : Bearer, key : TokenKey \cup {NoKey}, expires : Nat]
    BY <2>1, <2>2
  <2> QED
    BY <1>0, <2>2, <2>3 DEF Vouched
<1> DEFINE vouched == Vouched'
<1> HIDE DEF entry, vouched
<1>5. all \in Seq(vouched)
  <2>1. CASE Cached(b)
    <3>1. PlaceOf(b) \in 1..Len(cache)
      BY <2>1 DEF Cached, PlaceOf
    <3>2. [cache EXCEPT ![PlaceOf(b)] = entry] \in Seq(vouched)
      BY <1>3, <1>4, <3>1 DEF vouched
    <3> QED
      BY <2>1, <3>2
  <2>2. CASE ~Cached(b)
    BY <1>3, <1>4, <2>2 DEF vouched
  <2> QED
    BY <2>1, <2>2
<1>6. Stored(b) = IF Len(all) > MaxEntries THEN Tail(all) ELSE all
  BY DEF Stored, entry
<1> HIDE DEF all
<1>7. Len(all) \in Nat /\ (Len(all) > MaxEntries => Tail(all) \in Seq(vouched))
  BY <1>5
<1> QED
  BY <1>5, <1>6, <1>7 DEF vouched

\* The middleware.
LEMMA MiddlewareKeeps ==
    ASSUME BearerInv, NEW c \in Caller,
           \/ Arrive(c) \/ PluginAnswers(c) \/ OnAuthComplete(c)
           \/ EnforceGeneratedTokenMetadata(c)
    PROVE  BearerInv'
<1> USE AccessAssumption DEF Of, ToStage
<1>0. BearerTypeOK /\ Of(c) \in Bearer /\ Of(c).key \in TokenKey \cup {NoKey}
  BY DEF BearerInv, BearerTypeOK, Calling, Bearer
<1>1. CASE Arrive(c)
  <2>1. /\ UNCHANGED <<clock, tokenRows, issued, calls, checked, revoked>>
        /\ calls[c].kind = "revoke" => calls[c].key \in issued
        /\ stale' = [stale EXCEPT ![c] = revoked]
        /\ stage[c] = "new"
    BY <1>1 DEF Arrive
  <2>2. cache' \in Seq(Vouched)
    BY <1>0, <1>1, TouchedIsVouched DEF Arrive, BearerInv
  <2>3. Vouched' = Vouched
    BY <2>1 DEF Vouched
  <2>4. /\ \E s \in {"known", "waiting", "asking"} : stage' = [stage EXCEPT ![c] = s]
        /\ \/ remoteKey' = [remoteKey EXCEPT ![c] = Of(c).key]
           \/ remoteKey' = remoteKey /\ stage'[c] # "known"
    <3>1. CASE ~legacy
      BY <1>1, <3>1 DEF Arrive
    <3>2. CASE legacy /\ Hit(Of(c))
      BY <1>0, <1>1, <3>2, TouchedIsVouched DEF Arrive
    <3>3. CASE legacy /\ ~Hit(Of(c))
      BY <1>0, <1>1, <3>3 DEF Arrive, BearerTypeOK
    <3> QED
      BY <3>1, <3>2, <3>3
  <2>5. BearerTypeOK'
    BY <1>0, <2>1, <2>4 DEF BearerTypeOK
  <2>6. RevokedHaveNoRow' /\ KnownByItsKey' /\ RevokedIsRefused'
    BY <1>0, <2>1, <2>4 DEF BearerInv, BearerTypeOK, RevokedHaveNoRow, KnownByItsKey, RevokedIsRefused
  <2>7. \A q \in Caller : stale'[q] \subseteq revoked'
    BY <1>0, <2>1 DEF BearerInv, BearerTypeOK
  <2> QED
    BY <2>1, <2>2, <2>3, <2>5, <2>6, <2>7 DEF BearerInv
<1>2. CASE PluginAnswers(c)
  <2>1. /\ UNCHANGED <<clock, tokenRows, issued, cache, calls, remoteKey, checked, revoked, stale>>
        /\ stage[c] = "asking" /\ stage' = [stage EXCEPT ![c] = "asked"]
    BY <1>2 DEF PluginAnswers
  <2>2. Vouched' = Vouched
    BY <2>1 DEF Vouched
  <2> QED
    BY <1>0, <2>1, <2>2 DEF BearerInv, BearerTypeOK, RevokedHaveNoRow, KnownByItsKey,
       RevokedIsRefused
<1>3. CASE OnAuthComplete(c)
  <2>1. /\ UNCHANGED <<clock, tokenRows, issued, calls, revoked, stale>>
        /\ stage[c] = "asked" /\ DOMAIN stage' = Caller
        /\ DOMAIN remoteKey' = Caller
        /\ cache' = IF accepted[c] THEN Stored(Of(c)) ELSE cache
        /\ checked' = IF accepted[c] THEN [checked EXCEPT ![Of(c)] = clock] ELSE checked
    BY <1>3 DEF OnAuthComplete
  <2>2. \A w \in Caller :
          \/ stage'[w] = stage[w] /\ remoteKey'[w] = remoteKey[w]
          \/ /\ stage[w] # "new"
             /\ \/ stage'[w] = "known" /\ remoteKey'[w] = Of(w).key
                \/ stage'[w] = "refused" /\ remoteKey'[w] = remoteKey[w]
    BY <1>3, <2>1 DEF OnAuthComplete, Served
  <2>3. checked' \in [Bearer -> Nat] /\ \A b \in Bearer : checked'[b] <= clock'
    BY <1>0, <2>1 DEF BearerTypeOK, BearerInv
  <2>4. remoteKey' \in [Caller -> TokenKey \cup {NoKey}]
    <3>1. \A w \in Caller : Of(w).key \in TokenKey \cup {NoKey}
      BY <1>0 DEF BearerTypeOK, Calling, Bearer
    <3>2. \A w \in Caller : remoteKey'[w] \in TokenKey \cup {NoKey}
      BY <1>0, <2>2, <3>1 DEF BearerTypeOK
    <3>3. remoteKey' = [w \in Caller |-> remoteKey'[w]]
      BY <1>3 DEF OnAuthComplete
    <3> QED
      BY <3>2, <3>3
  <2>5. BearerTypeOK'
    BY <1>0, <2>1, <2>3, <2>4 DEF BearerTypeOK
  <2>6. cache' \in Seq(Vouched')
    <3>1. CASE accepted[c]
      BY <1>0, <2>1, <3>1, StoredIsVouched
    <3>2. CASE ~accepted[c]
      <4>1. Vouched' = Vouched
        BY <2>1, <3>2 DEF Vouched
      <4> QED
        BY <2>1, <3>2, <4>1 DEF BearerInv
    <3> QED
      BY <3>1, <3>2
  <2>7. RevokedHaveNoRow' /\ KnownByItsKey' /\ RevokedIsRefused'
    BY <2>1, <2>2 DEF BearerInv, RevokedHaveNoRow, KnownByItsKey, RevokedIsRefused
  <2> QED
    BY <2>1, <2>3, <2>5, <2>6, <2>7 DEF BearerInv
<1>4. CASE EnforceGeneratedTokenMetadata(c)
  <2>1. /\ UNCHANGED <<clock, tokenRows, issued, cache, calls, remoteKey, checked, revoked, stale>>
        /\ stage[c] = "known" /\ remoteKey[c] = Of(c).key
        /\ \/ stage' = [stage EXCEPT ![c] = "refused"]
           \/ /\ stage' = [stage EXCEPT ![c] = "in"]
              /\ remoteKey[c] = NoKey \/ remoteKey[c] \in tokenRows
    BY <1>4 DEF EnforceGeneratedTokenMetadata, BearerInv, KnownByItsKey
  <2>2. Vouched' = Vouched
    BY <2>1 DEF Vouched
  <2>3. stale[c] \subseteq TokenKey \ tokenRows
    BY <1>0 DEF BearerInv, BearerTypeOK, RevokedHaveNoRow
  <2>4. RevokedIsRefused'
    BY <1>0, <2>1, <2>3 DEF BearerInv, BearerTypeOK, RevokedIsRefused
  <2> QED
    BY <1>0, <2>1, <2>2, <2>4 DEF BearerInv, BearerTypeOK, RevokedHaveNoRow, KnownByItsKey
<1> QED
  BY <1>1, <1>2, <1>3, <1>4

\* The handlers, and the clock.
LEMMA HandlersKeep ==
    ASSUME BearerInv, NEW c \in Caller,
           CreateToken(c) \/ RevokeToken(c) \/ Revoked(c) \/ ChangePassword(c) \/ UsePackage(c)
    PROVE  BearerInv'
<1> USE AccessAssumption DEF Of, ToStage
<1>0. /\ BearerTypeOK /\ calls[c].key \in TokenKey
      /\ UNCHANGED <<clock, cache, calls, remoteKey, checked, stale>>
      /\ stage[c] \in {"in", "gone"} /\ DOMAIN stage' = Caller
      /\ \A q \in Caller \ {c} : stage'[q] = stage[q]
      /\ stage'[c] \in {"done", "refused", "gone"}
  BY DEF BearerInv, BearerTypeOK, Calling, CreateToken, RevokeToken, Revoked, ChangePassword, UsePackage
<1>1. Vouched' = Vouched
  BY <1>0 DEF Vouched
<1>2. KnownByItsKey' /\ RevokedIsRefused'
  BY <1>0 DEF BearerInv, KnownByItsKey, RevokedIsRefused
<1>3. issued' \subseteq TokenKey /\ revoked \subseteq revoked'
  BY <1>0 DEF BearerTypeOK, CreateToken, RevokeToken, Revoked, ChangePassword, UsePackage
<1>4. RevokedHaveNoRow'
  <2>1. CASE CreateToken(c)
    BY <1>0, <2>1 DEF BearerInv, BearerTypeOK, RevokedHaveNoRow, CreateToken
  <2>2. CASE RevokeToken(c)
    BY <1>0, <2>2 DEF BearerInv, BearerTypeOK, RevokedHaveNoRow, RevokeToken
  <2>3. CASE Revoked(c)
    BY <1>0, <2>3 DEF BearerInv, BearerTypeOK, RevokedHaveNoRow, Revoked
  <2>4. CASE ChangePassword(c) \/ UsePackage(c)
    BY <1>0, <2>4 DEF BearerInv, BearerTypeOK, RevokedHaveNoRow, ChangePassword, UsePackage
  <2> QED
    BY <2>1, <2>2, <2>3, <2>4
<1> QED
  BY <1>0, <1>1, <1>2, <1>3, <1>4 DEF BearerInv, BearerTypeOK

\* A bearer token whose row was revoked lets no later request in, and the cache
\* vouches for no password longer than ttlMs (apiJWTmiddleware,
\* enforceGeneratedTokenMetadata), for any requests, tokens and times.
THEOREM BearerAlwaysCurrent == AccessSpec => []BearerIsCurrent
<1> USE AccessAssumption
<1>1. AccessInit => BearerInv
  <2> SUFFICES ASSUME AccessInit PROVE BearerInv
    OBVIOUS
  <2>1. BearerTypeOK
    BY DEF AccessInit, BearerTypeOK
  <2>2. cache \in Seq(Vouched)
    BY DEF AccessInit
  <2> QED
    BY <2>1, <2>2 DEF AccessInit, BearerInv, RevokedHaveNoRow, KnownByItsKey, RevokedIsRefused
<1>2. BearerInv /\ [AccessNext]_accessVars => BearerInv'
  <2>1. ASSUME BearerInv, UNCHANGED accessVars PROVE BearerInv'
    <3>1. Vouched' = Vouched
      BY <2>1 DEF accessVars, Vouched
    <3> QED
      BY <2>1, <3>1 DEF accessVars, BearerInv, BearerTypeOK, RevokedHaveNoRow, KnownByItsKey,
         RevokedIsRefused, Of
  <2>2. ASSUME BearerInv, ClockTicks PROVE BearerInv'
    <3>1. Vouched' = Vouched
      BY <2>2 DEF ClockTicks, Vouched
    <3> QED
      BY <2>2, <3>1 DEF ClockTicks, BearerInv, BearerTypeOK, RevokedHaveNoRow, KnownByItsKey,
         RevokedIsRefused, Of
  <2> QED
    BY <2>1, <2>2, MiddlewareKeeps, HandlersKeep DEF AccessNext, CallerStep
<1>3. BearerInv => BearerIsCurrent
  <2> SUFFICES ASSUME BearerInv PROVE BearerIsCurrent
    OBVIOUS
  <2>1. ASSUME NEW i \in 1..Len(cache), clock < cache[i].expires
        PROVE  clock < checked[cache[i].bearer] + Ttl
    <3>1. cache[i] \in Vouched /\ clock \in Nat /\ checked \in [Bearer -> Nat]
      BY DEF BearerInv, BearerTypeOK
    <3>2. /\ cache[i].expires <= checked[cache[i].bearer] + Ttl
          /\ cache[i].expires \in Nat /\ checked[cache[i].bearer] \in Nat
      BY <3>1 DEF Vouched
    <3> QED
      BY <2>1, <3>1, <3>2
  <2> QED
    BY <2>1 DEF BearerInv, BearerIsCurrent, CacheIsRecent
<1> QED
  BY <1>1, <1>2, <1>3, PTL DEF AccessSpec

-----------------------------------------------------------------------------
(* The accounts of the htpasswd plugin *)

HtpasswdTypeOK ==
    /\ userFile \in Accounts \cup {Missing} /\ settled \in Accounts
    /\ maxUsers \in Limits /\ visits \in [Visitor -> Visiting]
    /\ DOMAIN place = Visitor /\ text \in [Visitor -> Accounts]
    /\ bootstrap \in [Visitor -> BOOLEAN]
    /\ bare \subseteq Visitor /\ links \in Nat \ {0}

Within == {"locked", "open", "writing", "written", "unlock"}
AboutToWrite == {"open", "writing"}

SetupFirst == \A v \in Visitor : bootstrap[v] => Kind(v) = "setup"

\* with a user file, a mutation has the lock from its reading to its unlock
LockIsHeld == bare = {} => \A v \in Visitor : place[v] \in Within => lockFile = v

\* what it read is what the file should have, and what it makes of that is within
\* the limit; an administrator comes to an empty file
TextIsCurrent ==
    \A v \in Visitor : bare = {} /\ place[v] \in AboutToWrite =>
        /\ ~torn => text[v] = settled
        /\ WithinLimit(Cardinality(Names(Edited(v))))
        /\ bootstrap[v] => Names(text[v]) = {}

ToBootstrap(v) == bootstrap[v] /\ place[v] \in {"lock", "locked", "open", "writing"}

\* closed but for one link: its user is the only one who can bring an account,
\* and nobody else has anything to write until then
OneLinkOneAccount ==
    maxUsers = Closed /\ links = 1 =>
        /\ \A v, w \in Visitor : bootstrap[v] /\ bootstrap[w] => v = w
        /\ link # 0 => \A v \in Visitor : ~bootstrap[v]
        /\ link # 0 \/ (\E v \in Visitor : ToBootstrap(v)) =>
              /\ Names(settled) = {} /\ Names(Parsed(userFile)) = {}
              /\ \A w \in Visitor : place[w] \in AboutToWrite => bootstrap[w]

HtpasswdInv ==
    /\ HtpasswdTypeOK
    /\ SetupFirst
    /\ LockIsHeld
    /\ TextIsCurrent
    /\ AccountsStay /\ LimitHolds
    /\ OneLinkOneAccount

\* The names in a file can be counted, and a limit that holds more holds fewer.
LEMMA NamesAreFinite ==
    ASSUME NEW accounts
    PROVE  IsFiniteSet(Names(accounts)) /\ Cardinality(Names(accounts)) \in Nat
<1>1. IsFiniteSet(Account) /\ Names(accounts) \subseteq Account
  BY AccountAssumption DEF Names
<1> QED
  BY <1>1, FS_Subset, FS_CardinalityType

LEMMA FewerAreWithinLimit ==
    ASSUME maxUsers \in Nat, NEW n \in Nat, NEW m \in Nat, m <= n, WithinLimit(n)
    PROVE  WithinLimit(m)
<1>1. CASE n <= IF maxUsers = Closed THEN 1 ELSE maxUsers
  BY <1>1 DEF WithinLimit
<1>2. CASE \E file \in FirstFiles : n <= Cardinality(Names(Parsed(file)))
  <2>1. PICK file \in FirstFiles : n <= Cardinality(Names(Parsed(file)))
    BY <1>2
  <2>2. Cardinality(Names(Parsed(file))) \in Nat
    BY NamesAreFinite
  <2>3. m <= Cardinality(Names(Parsed(file)))
    BY <2>1, <2>2
  <2> QED
    BY <2>3 DEF WithinLimit
<1> QED
  BY <1>1, <1>2 DEF WithinLimit

LEMMA SubsetIsWithinLimit ==
    ASSUME maxUsers \in Nat, NEW accounts, NEW others, Names(others) \subseteq Names(accounts),
           WithinLimit(Cardinality(Names(accounts)))
    PROVE  WithinLimit(Cardinality(Names(others)))
<1>1. Cardinality(Names(others)) <= Cardinality(Names(accounts))
  BY NamesAreFinite, FS_Subset
<1> QED
  BY <1>1, NamesAreFinite, FewerAreWithinLimit

\* The mutations edit one account: a new one if there is room, or if there is
\* none at all, or one that is there.
LEMMA EditedNames ==
    ASSUME NEW x \in Accounts, NEW a \in Account, NEW n \in Password \cup {0}
    PROVE  /\ [x EXCEPT ![a] = n] \in Accounts
           /\ Names([x EXCEPT ![a] = n]) \subseteq Names(x) \cup {a}
           /\ n = 0 => Names([x EXCEPT ![a] = n]) \subseteq Names(x)
<1> DEFINE y == [x EXCEPT ![a] = n]
<1>1. y \in Accounts
  BY DEF Accounts
<1>2. y[a] = n /\ \A b \in Account : b # a => y[b] = x[b]
  BY DEF Accounts
<1> HIDE DEF y
<1>3. Names(y) \subseteq Names(x) \cup {a} /\ (n = 0 => Names(y) \subseteq Names(x))
  BY <1>2 DEF Names
<1> QED
  BY <1>1, <1>3 DEF y

LEMMA EditedIsWithinLimit ==
    ASSUME maxUsers \in Limits,
           NEW x \in Accounts, NEW a \in Account, NEW n \in Password \cup {0},
           \/ maxUsers # Closed /\ Cardinality(Names(x)) < maxUsers
           \/ Names(x) = {}
           \/ WithinLimit(Cardinality(Names(x))) /\ (a \in Names(x) \/ n = 0)
    PROVE  WithinLimit(Cardinality(Names([x EXCEPT ![a] = n])))
<1> DEFINE y == [x EXCEPT ![a] = n]
<1>0. maxUsers \in Nat \ {0}
  BY AccountAssumption
<1>1. Names(y) \subseteq Names(x) \cup {a} /\ (n = 0 => Names(y) \subseteq Names(x))
  BY EditedNames
<1> SUFFICES WithinLimit(Cardinality(Names(y)))
  BY DEF y
<1> HIDE DEF y
<1>2. CASE WithinLimit(Cardinality(Names(x))) /\ (a \in Names(x) \/ n = 0)
  BY <1>0, <1>1, <1>2, SubsetIsWithinLimit
<1>3. CASE Names(x) = {} \/ (maxUsers # Closed /\ Cardinality(Names(x)) < maxUsers)
  <2>1. IsFiniteSet(Names(x)) /\ Cardinality(Names(x)) \in Nat /\ Cardinality(Names(y)) \in Nat
    BY NamesAreFinite
  <2>2. /\ IsFiniteSet(Names(x) \cup {a})
        /\ \/ Cardinality(Names(x) \cup {a}) = Cardinality(Names(x))
           \/ Cardinality(Names(x) \cup {a}) = Cardinality(Names(x)) + 1
    BY <2>1, FS_AddElement
  <2>3. Cardinality(Names(y)) <= Cardinality(Names(x) \cup {a}) /\ Cardinality(Names(x) \cup {a}) \in Nat
    BY <1>1, <2>2, FS_Subset, FS_CardinalityType
  <2>4. Names(x) = {} => Cardinality(Names(x)) = 0
    BY FS_EmptySet
  <2>5. Cardinality(Names(y)) <= IF maxUsers = Closed THEN 1 ELSE maxUsers
    BY <1>0, <1>3, <2>1, <2>2, <2>3, <2>4
  <2> QED
    BY <2>5 DEF WithinLimit
<1> QED
  BY <1>2, <1>3

\* Who is about to write and does not move keeps the text that is current.
LEMMA TextKeeps ==
    ASSUME HtpasswdInv, UNCHANGED <<settled, maxUsers, visits, bare, torn>>,
           \A q \in Visitor : place'[q] \in AboutToWrite =>
              place[q] \in AboutToWrite /\ text'[q] = text[q] /\ bootstrap'[q] = bootstrap[q]
    PROVE  TextIsCurrent'
<1> SUFFICES ASSUME NEW q \in Visitor, bare' = {}, place'[q] \in AboutToWrite
             PROVE  /\ ~torn' => text'[q] = settled'
                    /\ WithinLimit(Cardinality(Names(Edited(q))))'
                    /\ bootstrap'[q] => Names(text[q])' = {}
  BY DEF TextIsCurrent
<1>1. place[q] \in AboutToWrite /\ text'[q] = text[q] /\ bootstrap'[q] = bootstrap[q]
  OBVIOUS
<1>2. Edited(q)' = Edited(q) /\ Names(text[q])' = Names(text[q])
  BY <1>1 DEF Edited, Target, Kind, Names
<1>3. /\ ~torn => text[q] = settled
      /\ WithinLimit(Cardinality(Names(Edited(q))))
      /\ bootstrap[q] => Names(text[q]) = {}
  BY <1>1 DEF HtpasswdInv, TextIsCurrent
<1> QED
  BY <1>1, <1>2, <1>3 DEF WithinLimit, Names

\* Steps of a request that leave the file and the lock alone.
LEMMA AsideKeeps ==
    ASSUME HtpasswdInv, NEW v \in Visitor,
           \/ Register(v) \/ Manage(v) \/ Written(v) \/ Answer(v)
           \/ Reload(v) \/ Authenticate(v) \/ SetAdminFlag(v)
    PROVE  HtpasswdInv'
<1> USE AccountAssumption DEF Moves
<1>0. /\ HtpasswdTypeOK /\ SetupFirst
      /\ UNCHANGED <<userFile, settled, maxUsers, lockFile, link, links, visits, bare, torn>>
  BY DEF HtpasswdInv, Register, Manage, Written, Answer, Reload, Authenticate, SetAdminFlag,
     AddUser, files, setup, accountGhosts
<1>1. /\ DOMAIN place' = Visitor
      /\ \A q \in Visitor \ {v} : place'[q] = place[q]
      /\ place[v] # "writing" /\ place'[v] \notin AboutToWrite \cup {"locked"}
      /\ place'[v] \in Within => place[v] \in Within
  BY <1>0 DEF HtpasswdTypeOK, Register, Manage, Written, Answer, Reload, Authenticate,
     SetAdminFlag, AddUser, AboutToWrite, Within
<1>2. /\ text' \in [Visitor -> Accounts] /\ \A q \in Visitor \ {v} : text'[q] = text[q]
  <2>1. CASE Reload(v)
    <3>1. Parsed(userFile) \in Accounts
      BY <1>0 DEF HtpasswdTypeOK, Parsed, NoAccounts, Accounts
    <3> QED
      BY <1>0, <2>1, <3>1 DEF HtpasswdTypeOK, Reload
  <2>2. CASE ~Reload(v)
    BY <1>0, <2>2 DEF HtpasswdTypeOK, Register, Manage, Written, Answer, Authenticate, SetAdminFlag
  <2> QED
    BY <2>1, <2>2
<1>3. /\ bootstrap' \in [Visitor -> BOOLEAN]
      /\ \A q \in Visitor \ {v} : bootstrap'[q] = bootstrap[q]
      /\ bootstrap'[v] => bootstrap[v]
      /\ place'[v] = "lock" => ~bootstrap'[v]
  BY <1>0 DEF HtpasswdTypeOK, SetupFirst, Register, Manage, Written, Answer, Reload,
     Authenticate, SetAdminFlag, AddUser
<1>4. HtpasswdTypeOK' /\ SetupFirst' /\ LockIsHeld'
  BY <1>0, <1>1, <1>2, <1>3 DEF HtpasswdInv, HtpasswdTypeOK, SetupFirst, LockIsHeld, Kind
<1>5. TextIsCurrent'
  BY <1>0, <1>1, <1>2, <1>3, TextKeeps
<1>6. AccountsStay' /\ LimitHolds'
  BY <1>0, <1>1 DEF HtpasswdInv, AccountsStay, LimitHolds, WithinLimit, Names, Parsed
<1>7. OneLinkOneAccount'
  BY <1>0, <1>1, <1>3 DEF HtpasswdInv, OneLinkOneAccount, ToBootstrap, AboutToWrite, Names, Parsed
<1> QED
  BY <1>4, <1>5, <1>6, <1>7 DEF HtpasswdInv


\* A setup link is used once (consumeSetup, bootstrapAdmin).
LEMMA SetupKeeps ==
    ASSUME HtpasswdInv, NEW v \in Visitor, Setup(v)
    PROVE  HtpasswdInv'
<1> USE AccountAssumption DEF Moves
<1>0. /\ HtpasswdTypeOK /\ SetupFirst
      /\ UNCHANGED <<userFile, settled, maxUsers, lockFile, links, visits, text, bare, torn>>
      /\ Kind(v) = "setup" /\ place[v] = "new"
      /\ \E to \in {"lock", "refused"} : place' = [place EXCEPT ![v] = to]
      /\ \/ bootstrap' = bootstrap /\ place'[v] = "refused" /\ link' \in {0, link}
         \/ /\ link # 0 /\ link' = 0
            /\ bootstrap' = [bootstrap EXCEPT ![v] = TRUE]
  <2>1. visits[v].token # 0
    BY DEF HtpasswdInv, HtpasswdTypeOK, Visiting
  <2> QED
    BY <2>1 DEF HtpasswdInv, HtpasswdTypeOK, Setup, AddUser, files, accountGhosts
<1>1. /\ DOMAIN place' = Visitor /\ bootstrap' \in [Visitor -> BOOLEAN]
      /\ \A q \in Visitor \ {v} : place'[q] = place[q] /\ bootstrap'[q] = bootstrap[q]
      /\ place'[v] \in {"lock", "refused"}
  BY <1>0 DEF HtpasswdTypeOK
<1>2. HtpasswdTypeOK' /\ SetupFirst' /\ LockIsHeld'
  BY <1>0, <1>1 DEF HtpasswdInv, HtpasswdTypeOK, SetupFirst, LockIsHeld, Within, Kind
<1>3. TextIsCurrent'
  BY <1>0, <1>1, TextKeeps DEF AboutToWrite
<1>4. AccountsStay' /\ LimitHolds'
  BY <1>0, <1>1 DEF HtpasswdInv, AccountsStay, LimitHolds, WithinLimit, Names, Parsed
<1>5. OneLinkOneAccount'
  <2> SUFFICES ASSUME maxUsers = Closed, links = 1 PROVE OneLinkOneAccount'
    BY <1>0 DEF OneLinkOneAccount
  <2>1. /\ \A q, w \in Visitor : bootstrap[q] /\ bootstrap[w] => q = w
        /\ link # 0 => \A q \in Visitor : ~bootstrap[q]
        /\ link # 0 \/ (\E q \in Visitor : ToBootstrap(q)) =>
              /\ Names(settled) = {} /\ Names(Parsed(userFile)) = {}
              /\ \A w \in Visitor : place[w] \in AboutToWrite => bootstrap[w]
    BY DEF HtpasswdInv, OneLinkOneAccount
  <2>2. /\ \A q, w \in Visitor : bootstrap'[q] /\ bootstrap'[w] => q = w
        /\ link' # 0 => \A q \in Visitor : ~bootstrap'[q]
    BY <1>0, <1>1, <2>1
  <2>3. (\E q \in Visitor : ToBootstrap(q)') => link # 0 \/ (\E q \in Visitor : ToBootstrap(q))
    BY <1>0, <1>1 DEF ToBootstrap
  <2>4. Names(settled)' = Names(settled) /\ Names(Parsed(userFile))' = Names(Parsed(userFile))
    BY <1>0 DEF Names, Parsed
  <2>5. \A w \in Visitor : place'[w] \in AboutToWrite =>
            place[w] \in AboutToWrite /\ bootstrap'[w] = bootstrap[w]
    BY <1>1 DEF AboutToWrite
  <2> QED
    BY <1>0, <2>1, <2>2, <2>3, <2>4, <2>5 DEF OneLinkOneAccount
<1> QED
  BY <1>2, <1>3, <1>4, <1>5 DEF HtpasswdInv

\* Taking the lock, or going on without one, and giving it back.
LEMMA LockKeeps ==
    ASSUME HtpasswdInv, NEW v \in Visitor, Lock(v) \/ Unlock(v)
    PROVE  HtpasswdInv'
<1> USE AccountAssumption DEF Moves
<1>0. /\ HtpasswdTypeOK /\ SetupFirst
      /\ UNCHANGED <<userFile, settled, maxUsers, link, links, visits, text, bootstrap, torn>>
      /\ \/ /\ place[v] = "lock" /\ place' = [place EXCEPT ![v] = "locked"]
            /\ \/ bare' = bare \cup {v}
               \/ bare' = bare /\ lockFile = Nobody /\ lockFile' = v
         \/ /\ place[v] = "lock" /\ place' = [place EXCEPT ![v] = "answer"]
            /\ UNCHANGED <<lockFile, bare>>
         \/ /\ place[v] = "unlock" /\ place' = [place EXCEPT ![v] = "answer"]
            /\ bare' = bare
  BY DEF HtpasswdInv, Lock, Unlock, files, setup, accountGhosts
<1>1. /\ DOMAIN place' = Visitor /\ bare \subseteq bare' /\ bare' \subseteq Visitor
      /\ \A q \in Visitor \ {v} : place'[q] = place[q]
      /\ place'[v] \in {"locked", "answer"} /\ place[v] \in {"lock", "unlock"}
      /\ place'[v] = "locked" => place[v] = "lock"
  BY <1>0 DEF HtpasswdTypeOK
<1>2. HtpasswdTypeOK' /\ SetupFirst'
  BY <1>0, <1>1 DEF HtpasswdTypeOK, SetupFirst, Kind
<1>3. LockIsHeld'
  BY <1>0, <1>1 DEF HtpasswdInv, LockIsHeld, Within
<1>4. TextIsCurrent'
  <2>1. CASE bare' = bare
    BY <1>0, <1>1, <2>1, TextKeeps DEF AboutToWrite
  <2>2. CASE bare' # bare
    BY <1>1, <2>2 DEF TextIsCurrent
  <2> QED
    BY <2>1, <2>2
<1>5. AccountsStay' /\ LimitHolds'
  BY <1>0, <1>1 DEF HtpasswdInv, AccountsStay, LimitHolds, WithinLimit, Names, Parsed
<1>6. OneLinkOneAccount'
  BY <1>0, <1>1 DEF HtpasswdInv, OneLinkOneAccount, ToBootstrap, AboutToWrite, Names, Parsed
<1> QED
  BY <1>2, <1>3, <1>4, <1>5, <1>6 DEF HtpasswdInv


\* Reading under the lock: what is allowed edits a text that is current.
LEMMA ReadKeeps ==
    ASSUME HtpasswdInv, NEW v \in Visitor, ReadAndEdit(v)
    PROVE  HtpasswdInv'
<1> USE AccountAssumption DEF Moves
<1> DEFINE known == IF v \in bare THEN NoAccounts ELSE Parsed(userFile)
<1>0. /\ HtpasswdTypeOK /\ SetupFirst
      /\ UNCHANGED <<userFile, settled, maxUsers, lockFile, link, links, visits, bootstrap,
                     bare, torn>>
      /\ text' = [text EXCEPT ![v] = known]
      /\ place[v] = "locked"
      /\ \/ Allowed(v, text'[v]) /\ place' = [place EXCEPT ![v] = "open"]
         \/ place' = [place EXCEPT ![v] = "unlock"]
  BY DEF HtpasswdInv, ReadAndEdit, Read, setup, accountGhosts
<1>1. known \in Accounts
  BY <1>0 DEF HtpasswdTypeOK, Parsed, NoAccounts, Accounts
<1> HIDE DEF known
<1>2. /\ DOMAIN place' = Visitor /\ text' \in [Visitor -> Accounts] /\ text'[v] = known
      /\ \A q \in Visitor \ {v} : place'[q] = place[q] /\ text'[q] = text[q]
      /\ place'[v] \in {"open", "unlock"}
      /\ place'[v] = "open" => Allowed(v, known)
  BY <1>0, <1>1 DEF HtpasswdTypeOK
<1>3. /\ Target(v) \in Account /\ visits[v].new \in Password /\ visits[v].old \in Password
      /\ 0 \notin Password /\ bootstrap[v] \in BOOLEAN
      /\ Kind(v) \in {"register", "setup", "login", "change", "reset", "delete", "grant", "revoke"}
  BY <1>0 DEF HtpasswdTypeOK, Visiting, Target, Kind
<1>4. Allowed(v, known) =>
         \/ Sane(v, Names(known)) /\ Kind(v) \in {"register", "setup"}
         \/ known[Target(v)] # 0 /\ Kind(v) \notin {"register", "setup"}
  <2>1. CASE Kind(v) \in {"register", "setup"}
    BY <2>1 DEF Allowed
  <2>2. CASE Kind(v) = "change"
    BY <1>3, <2>2 DEF Allowed
  <2>3. CASE Kind(v) \notin {"register", "setup", "change"}
    BY <2>3 DEF Allowed
  <2> QED
    BY <2>1, <2>2, <2>3
<1>5. HtpasswdTypeOK' /\ SetupFirst' /\ LockIsHeld'
  BY <1>0, <1>2 DEF HtpasswdInv, HtpasswdTypeOK, SetupFirst, LockIsHeld, Within, Kind
<1>6. ASSUME bare = {}, place'[v] = "open"
      PROVE  /\ ~torn => known = settled
             /\ WithinLimit(Cardinality(Names([known EXCEPT ![Target(v)] =
                               IF Kind(v) = "delete" THEN 0 ELSE visits[v].new])))
             /\ bootstrap[v] => Names(known) = {}
  <2>1. known = Parsed(userFile)
    BY <1>6 DEF known
  <2>2. \A q \in Visitor : place[q] # "writing"
    BY <1>0, <1>6 DEF HtpasswdInv, LockIsHeld, Within
  <2>3. ~torn => known = settled
    BY <1>6, <2>1, <2>2 DEF HtpasswdInv, AccountsStay
  <2>4. WithinLimit(Cardinality(Names(known)))
    BY <1>6, <2>1 DEF HtpasswdInv, LimitHolds
  <2>5. bootstrap[v] => Names(known) = {}
    BY <1>0, <1>2, <1>4, <1>6 DEF Sane, SetupFirst
  <2>6. \/ maxUsers # Closed /\ Cardinality(Names(known)) < maxUsers
        \/ Names(known) = {}
        \/ Target(v) \in Names(known)
    BY <1>0, <1>2, <1>3, <1>4, <1>6 DEF Sane, Names
  <2>7. maxUsers \in Limits
    BY <1>0 DEF HtpasswdTypeOK
  <2> DEFINE n == IF Kind(v) = "delete" THEN 0 ELSE visits[v].new
  <2>8. n \in Password \cup {0}
    BY <1>3
  <2> HIDE DEF n
  <2>9. WithinLimit(Cardinality(Names([known EXCEPT ![Target(v)] = n])))
    BY <1>1, <1>3, <2>4, <2>6, <2>7, <2>8, EditedIsWithinLimit
  <2> QED
    BY <2>3, <2>5, <2>9 DEF n
<1>7. TextIsCurrent'
  <2> SUFFICES ASSUME NEW q \in Visitor, bare' = {}, place'[q] \in AboutToWrite
               PROVE  /\ ~torn' => text'[q] = settled'
                      /\ WithinLimit(Cardinality(Names(Edited(q))))'
                      /\ bootstrap'[q] => Names(text[q])' = {}
    BY DEF TextIsCurrent
  <2>1. CASE q = v
    <3>1. Edited(q)' = [known EXCEPT ![Target(v)] =
                               IF Kind(v) = "delete" THEN 0 ELSE visits[v].new]
      BY <1>0, <1>2, <2>1 DEF Edited, Target, Kind
    <3>2. place'[v] = "open"
      BY <1>2, <2>1 DEF AboutToWrite
    <3> QED
      BY <1>0, <1>2, <1>6, <2>1, <3>1, <3>2 DEF WithinLimit, Names
  <2>2. CASE q # v
    <3>1. place[q] \in AboutToWrite /\ text'[q] = text[q] /\ bootstrap'[q] = bootstrap[q]
      BY <1>0, <1>2, <2>2
    <3>2. Edited(q)' = Edited(q) /\ Names(text[q])' = Names(text[q])
      BY <1>0, <3>1 DEF Edited, Target, Kind, Names
    <3>3. /\ ~torn => text[q] = settled
          /\ WithinLimit(Cardinality(Names(Edited(q))))
          /\ bootstrap[q] => Names(text[q]) = {}
      BY <1>0, <3>1 DEF HtpasswdInv, TextIsCurrent
    <3> QED
      BY <1>0, <3>1, <3>2, <3>3 DEF WithinLimit, Names
  <2> QED
    BY <2>1, <2>2
<1>8. AccountsStay' /\ LimitHolds'
  BY <1>0, <1>2 DEF HtpasswdInv, AccountsStay, LimitHolds, WithinLimit, Names, Parsed
<1>9. OneLinkOneAccount'
  <2> SUFFICES ASSUME maxUsers = Closed, links = 1,
                      link # 0 \/ (\E q \in Visitor : ToBootstrap(q)')
               PROVE  /\ Names(settled) = {} /\ Names(Parsed(userFile)) = {}
                      /\ \A w \in Visitor : place'[w] \in AboutToWrite => bootstrap[w]
    BY <1>0 DEF HtpasswdInv, OneLinkOneAccount, Names, Parsed
  <2>1. link # 0 \/ (\E q \in Visitor : ToBootstrap(q))
    BY <1>0, <1>2 DEF ToBootstrap
  <2>2. /\ Names(settled) = {} /\ Names(Parsed(userFile)) = {}
        /\ \A w \in Visitor : place[w] \in AboutToWrite => bootstrap[w]
    BY <2>1 DEF HtpasswdInv, OneLinkOneAccount
  <2>3. Names(known) = {}
    BY <2>2 DEF known, Names, NoAccounts
  <2>4. place'[v] = "open" => bootstrap[v]
    BY <1>0, <1>2, <1>3, <1>4, <2>3 DEF Sane, Names
  <2> QED
    BY <1>2, <2>2, <2>4 DEF AboutToWrite
<1> QED
  BY <1>5, <1>7, <1>8, <1>9 DEF HtpasswdInv


\* The file is truncated, and then it is what the text becomes.
LEMMA OpenKeeps ==
    ASSUME HtpasswdInv, NEW v \in Visitor, OpenUserFile(v)
    PROVE  HtpasswdInv'
<1> USE AccountAssumption DEF Moves
<1>0. /\ HtpasswdTypeOK /\ SetupFirst
      /\ UNCHANGED <<settled, maxUsers, lockFile, link, links, visits, text, bootstrap,
                     bare, torn>>
      /\ place[v] = "open"
      /\ \/ place' = [place EXCEPT ![v] = "writing"] /\ userFile' = NoAccounts
         \/ place' = [place EXCEPT ![v] = "unlock"] /\ userFile' = userFile
  BY DEF HtpasswdInv, OpenUserFile, setup, accountGhosts
<1>1. /\ DOMAIN place' = Visitor
      /\ \A q \in Visitor \ {v} : place'[q] = place[q]
      /\ \/ place'[v] = "writing" /\ userFile' = NoAccounts
         \/ place'[v] = "unlock" /\ userFile' = userFile
  BY <1>0 DEF HtpasswdTypeOK
<1>2. NoAccounts \in Accounts /\ Parsed(NoAccounts) = NoAccounts /\ Names(NoAccounts) = {}
  BY DEF Accounts, NoAccounts, Parsed, Names
<1>3. HtpasswdTypeOK' /\ SetupFirst' /\ LockIsHeld'
  BY <1>0, <1>1, <1>2 DEF HtpasswdInv, HtpasswdTypeOK, SetupFirst, LockIsHeld, Within, Kind
<1>4. TextIsCurrent'
  BY <1>0, <1>1, TextKeeps DEF AboutToWrite
<1>5. AccountsStay'
  BY <1>0, <1>1 DEF HtpasswdInv, AccountsStay, Parsed
<1>6. LimitHolds'
  <2>1. WithinLimit(0)
    <3>1. maxUsers \in Nat
      BY <1>0 DEF HtpasswdTypeOK
    <3> QED
      BY <3>1 DEF WithinLimit
  <2>2. Cardinality({}) = 0
    BY FS_EmptySet
  <2>3. CASE userFile' = userFile
    BY <1>0, <2>3 DEF HtpasswdInv, LimitHolds, WithinLimit, Names, Parsed
  <2>4. CASE userFile' = NoAccounts
    <3>1. Names(Parsed(userFile))' = {}
      BY <1>2, <2>4 DEF Names, Parsed
    <3> QED
      BY <1>0, <2>1, <2>2, <3>1 DEF LimitHolds, WithinLimit
  <2> QED
    BY <1>1, <2>3, <2>4
<1>7. OneLinkOneAccount'
  <2>1. Names(Parsed(userFile))' = {} \/ Names(Parsed(userFile))' = Names(Parsed(userFile))
    BY <1>1, <1>2 DEF Names, Parsed
  <2>2. Names(settled)' = Names(settled)
    BY <1>0 DEF Names
  <2>3. \A q \in Visitor : /\ ToBootstrap(q)' => ToBootstrap(q)
                           /\ place'[q] \in AboutToWrite => place[q] \in AboutToWrite
    BY <1>0, <1>1 DEF ToBootstrap, AboutToWrite
  <2> QED
    BY <1>0, <2>1, <2>2, <2>3 DEF HtpasswdInv, OneLinkOneAccount
<1> QED
  BY <1>3, <1>4, <1>5, <1>6, <1>7 DEF HtpasswdInv

LEMMA WriteKeeps ==
    ASSUME HtpasswdInv, NEW v \in Visitor, WriteText(v)
    PROVE  /\ HtpasswdInv'
           /\ bootstrap[v] /\ ~torn /\ (bare = {} \/ (maxUsers = Closed /\ links = 1))
                 => Names(settled) = {}
<1> USE AccountAssumption DEF Moves
<1> DEFINE n == IF Kind(v) = "delete" THEN 0 ELSE visits[v].new
<1>0. /\ HtpasswdTypeOK /\ SetupFirst
      /\ UNCHANGED <<maxUsers, lockFile, link, links, visits, text, bootstrap, bare, torn>>
      /\ place[v] = "writing" /\ place' = [place EXCEPT ![v] = "written"]
      /\ userFile' = Edited(v)
      /\ settled' = [settled EXCEPT ![Target(v)] = Edited(v)[Target(v)]]
  BY DEF HtpasswdInv, WriteText, setup
<1>1. /\ DOMAIN place' = Visitor
      /\ \A q \in Visitor \ {v} : place'[q] = place[q]
      /\ place'[v] = "written"
  BY <1>0 DEF HtpasswdTypeOK
<1>2. /\ Target(v) \in Account /\ n \in Password \cup {0} /\ text[v] \in Accounts
      /\ Edited(v) = [text[v] EXCEPT ![Target(v)] = n]
  BY <1>0 DEF HtpasswdTypeOK, Visiting, Target, Kind, Edited
<1> HIDE DEF n
<1>3. Edited(v) \in Accounts /\ Edited(v)[Target(v)] = n /\ Edited(v) # Missing
  BY <1>2 DEF Accounts
<1>4. settled' \in Accounts
  BY <1>0, <1>2, <1>3, EditedNames DEF HtpasswdTypeOK
<1>5. HtpasswdTypeOK' /\ SetupFirst' /\ LockIsHeld'
  BY <1>0, <1>1, <1>3, <1>4 DEF HtpasswdInv, HtpasswdTypeOK, SetupFirst, LockIsHeld, Within, Kind
<1>6. ASSUME bare = {}, NEW q \in Visitor, q # v PROVE place[q] \notin Within
  BY <1>0, <1>6 DEF HtpasswdInv, LockIsHeld, Within
<1>7. TextIsCurrent'
  BY <1>0, <1>1, <1>6 DEF TextIsCurrent, AboutToWrite, Within
<1>8. AccountsStay'
  <2> SUFFICES ASSUME bare = {}, ~torn PROVE Parsed(userFile)' = settled'
    BY <1>0 DEF AccountsStay
  <2>1. text[v] = settled
    BY <1>0 DEF HtpasswdInv, TextIsCurrent, AboutToWrite
  <2>2. settled' = Edited(v)
    BY <1>0, <1>2, <1>3, <2>1
  <2> QED
    BY <1>0, <1>3, <2>2 DEF Parsed
<1>9. LimitHolds'
  <2> SUFFICES ASSUME bare = {} PROVE WithinLimit(Cardinality(Names(Parsed(userFile))))'
    BY <1>0 DEF LimitHolds
  <2>1. WithinLimit(Cardinality(Names(Edited(v))))
    BY <1>0 DEF HtpasswdInv, TextIsCurrent, AboutToWrite
  <2>2. Names(Parsed(userFile))' = Names(Edited(v))
    BY <1>0, <1>3 DEF Parsed, Names
  <2> QED
    BY <1>0, <2>1, <2>2 DEF WithinLimit
<1>10. ASSUME maxUsers = Closed, links = 1
       PROVE  /\ \A q, w \in Visitor : bootstrap[q] /\ bootstrap[w] => q = w
              /\ link # 0 => \A q \in Visitor : ~bootstrap[q]
              /\ link # 0 \/ (\E q \in Visitor : ToBootstrap(q)) => bootstrap[v]
              /\ bootstrap[v] => Names(settled) = {}
  <2>1. bootstrap[v] => ToBootstrap(v)
    BY <1>0 DEF ToBootstrap
  <2> QED
    BY <1>0, <1>10, <2>1 DEF HtpasswdInv, OneLinkOneAccount, AboutToWrite
<1>11. OneLinkOneAccount'
  <2> SUFFICES ASSUME maxUsers = Closed, links = 1
               PROVE  /\ link = 0
                      /\ \A q \in Visitor : ~ToBootstrap(q)'
    BY <1>0, <1>10 DEF OneLinkOneAccount
  <2>1. link = 0
    BY <1>10
  <2>2. \A q \in Visitor : ~ToBootstrap(q)'
    <3> SUFFICES ASSUME NEW q \in Visitor, ToBootstrap(q)' PROVE FALSE
      OBVIOUS
    <3>1. q # v /\ ToBootstrap(q)
      BY <1>0, <1>1 DEF ToBootstrap
    <3> QED
      BY <1>10, <3>1 DEF ToBootstrap
  <2> QED
    BY <2>1, <2>2
<1>12. bootstrap[v] /\ ~torn /\ (bare = {} \/ (maxUsers = Closed /\ links = 1))
          => Names(settled) = {}
  <2>1. bare = {} /\ ~torn /\ bootstrap[v] => Names(text[v]) = {} /\ text[v] = settled
    BY <1>0 DEF HtpasswdInv, TextIsCurrent, AboutToWrite
  <2> QED
    BY <1>10, <2>1
<1> QED
  BY <1>5, <1>7, <1>8, <1>9, <1>11, <1>12 DEF HtpasswdInv

\* Links that are issued or expire, a lock file that is stale, and the end of
\* the process.
LEMMA ProcessKeeps ==
    ASSUME HtpasswdInv, IssueLink \/ LinkExpires \/ LockIsStale \/ Kill
    PROVE  HtpasswdInv'
<1> USE AccountAssumption
<1>0. /\ HtpasswdTypeOK /\ SetupFirst
      /\ UNCHANGED <<userFile, settled, maxUsers, visits, text, bootstrap, bare>>
      /\ \/ link' = link /\ links' = links
         \/ link' = 0 /\ links' = links
         \/ links' = links + 1
  BY DEF HtpasswdInv, IssueLink, LinkExpires, LockIsStale, Kill, NewLink, files, setup, accountGhosts
<1>1. /\ DOMAIN place' = Visitor
      /\ \A q \in Visitor : place'[q] = place[q] \/ place'[q] = "dropped"
  BY <1>0 DEF HtpasswdTypeOK, IssueLink, LinkExpires, LockIsStale, Kill, files, accountGhosts
<1>2. \/ links' \in Nat \ {0} /\ links' = links
      \/ links' \in Nat \ {0, 1}
  BY <1>0 DEF HtpasswdTypeOK
<1>3. HtpasswdTypeOK' /\ SetupFirst'
  BY <1>0, <1>1, <1>2 DEF HtpasswdTypeOK, SetupFirst, Kind
<1>4. LockIsHeld'
  <2>1. CASE Kill
    <3>1. \A q \in Visitor : place'[q] \notin Within
      BY <2>1 DEF Kill, Over, Within
    <3> QED
      BY <3>1 DEF LockIsHeld
  <2>2. CASE IssueLink \/ LinkExpires \/ LockIsStale
    BY <1>0, <2>2 DEF HtpasswdInv, LockIsHeld, Within, IssueLink, LinkExpires, LockIsStale, files, accountGhosts
  <2> QED
    BY <2>1, <2>2
<1>5. TextIsCurrent'
  <2>1. CASE Kill
    <3>1. \A q \in Visitor : place'[q] \notin AboutToWrite
      BY <2>1 DEF Kill, Over, AboutToWrite
    <3> QED
      BY <3>1 DEF TextIsCurrent
  <2>2. CASE IssueLink \/ LinkExpires \/ LockIsStale
    <3>1. UNCHANGED <<place, torn>>
      BY <2>2 DEF IssueLink, LinkExpires, LockIsStale, accountGhosts
    <3> QED
      BY <1>0, <3>1, TextKeeps
  <2> QED
    BY <2>1, <2>2
<1>6. AccountsStay'
  <2>1. CASE Kill
    <3>1. ~torn' => ~torn /\ \A q \in Visitor : place[q] # "writing"
      BY <2>1 DEF Kill
    <3> QED
      BY <1>0, <3>1 DEF HtpasswdInv, AccountsStay, Parsed
  <2>2. CASE IssueLink \/ LinkExpires \/ LockIsStale
    BY <1>0, <2>2 DEF HtpasswdInv, AccountsStay, Parsed, IssueLink, LinkExpires, LockIsStale, accountGhosts
  <2> QED
    BY <2>1, <2>2
<1>7. LimitHolds'
  BY <1>0 DEF HtpasswdInv, LimitHolds, WithinLimit, Names, Parsed
<1>8. OneLinkOneAccount'
  <2> SUFFICES ASSUME links' = 1 PROVE OneLinkOneAccount'
    BY DEF OneLinkOneAccount
  <2>1. links = 1 /\ link' \in {0, link}
    BY <1>0, <1>2 DEF HtpasswdTypeOK
  <2>2. \A q \in Visitor : /\ ToBootstrap(q)' => ToBootstrap(q)
                           /\ place'[q] \in AboutToWrite => place[q] \in AboutToWrite
    BY <1>0, <1>1 DEF ToBootstrap, AboutToWrite
  <2>3. Names(settled)' = Names(settled) /\ Names(Parsed(userFile))' = Names(Parsed(userFile))
    BY <1>0 DEF Names, Parsed
  <2> QED
    BY <1>0, <2>1, <2>2, <2>3 DEF HtpasswdInv, OneLinkOneAccount
<1> QED
  BY <1>3, <1>4, <1>5, <1>6, <1>7, <1>8 DEF HtpasswdInv

\* No account is lost or added by mutations that overlap, there are no more than
\* max_users, and the administrator of a setup link is the first one
\* (htpasswd.ts, setup-link.ts), for any requests, accounts and crashes.
THEOREM AccountsAlwaysKept == HtpasswdSpec => AccountsAreKept
<1> USE AccountAssumption
<1>1. HtpasswdInit => HtpasswdInv
  <2> SUFFICES ASSUME HtpasswdInit PROVE HtpasswdInv
    OBVIOUS
  <2>1. Parsed(userFile) \in Accounts /\ NoAccounts \in Accounts
    BY DEF HtpasswdInit, Parsed, NoAccounts, Accounts
  <2>2. HtpasswdTypeOK /\ SetupFirst /\ LockIsHeld /\ TextIsCurrent /\ AccountsStay
    BY <2>1 DEF HtpasswdInit, HtpasswdTypeOK, SetupFirst, LockIsHeld, Within, TextIsCurrent,
       AboutToWrite, AccountsStay
  <2>3. LimitHolds
    <3>1. userFile \in FirstFiles /\ Cardinality(Names(Parsed(userFile))) \in Nat
      BY NamesAreFinite DEF HtpasswdInit
    <3> QED
      BY <3>1 DEF LimitHolds, WithinLimit
  <2>4. OneLinkOneAccount
    BY DEF HtpasswdInit, OneLinkOneAccount, ToBootstrap, AboutToWrite, HasUsers
  <2> QED
    BY <2>2, <2>3, <2>4 DEF HtpasswdInv
<1>2. HtpasswdInv /\ [HtpasswdNext]_hpVars => HtpasswdInv'
  <2>1. ASSUME HtpasswdInv, UNCHANGED hpVars PROVE HtpasswdInv'
    <3>1. UNCHANGED <<userFile, settled, maxUsers, lockFile, link, links, visits, place, text,
                      bootstrap, bare, torn>>
      BY <2>1 DEF hpVars, files, setup, accountGhosts
    <3>2. TextIsCurrent'
      BY <2>1, <3>1, TextKeeps
    <3> QED
      BY <2>1, <3>1, <3>2 DEF HtpasswdInv, HtpasswdTypeOK, SetupFirst, Kind, LockIsHeld,
         AccountsStay, LimitHolds, WithinLimit, Names, Parsed, OneLinkOneAccount, ToBootstrap
  <2>2. ASSUME HtpasswdInv, NEW v \in Visitor, VisitorStep(v) PROVE HtpasswdInv'
    BY <2>2, AsideKeeps, SetupKeeps, LockKeeps, ReadKeeps, OpenKeeps, WriteKeeps DEF VisitorStep
  <2> QED
    BY <2>1, <2>2, ProcessKeeps DEF HtpasswdNext
<1>3. HtpasswdInv => AccountsStay /\ LimitHolds
  BY DEF HtpasswdInv
<1>4. HtpasswdInv /\ [HtpasswdNext]_hpVars =>
        [\A v \in Visitor :
           /\ place[v] = "writing" /\ place'[v] = "written"
           /\ bootstrap[v] /\ ~torn
           /\ bare = {} \/ (maxUsers = Closed /\ links = 1)
           => Names(settled) = {}]_hpVars
  <2> SUFFICES ASSUME HtpasswdInv, HtpasswdNext, NEW v \in Visitor,
                      place[v] = "writing", place'[v] = "written", bootstrap[v], ~torn,
                      bare = {} \/ (maxUsers = Closed /\ links = 1)
               PROVE  Names(settled) = {}
    OBVIOUS
  <2>1. DOMAIN place = Visitor
    BY DEF HtpasswdInv, HtpasswdTypeOK
  <2>2. ~(IssueLink \/ LinkExpires \/ LockIsStale \/ Kill)
    BY DEF IssueLink, LinkExpires, LockIsStale, Kill, Over
  <2>3. PICK w \in Visitor : VisitorStep(w)
    BY <2>2 DEF HtpasswdNext
  <2>4. ~(Register(w) \/ Setup(w) \/ Manage(w) \/ Lock(w) \/ Unlock(w))
    BY <2>1 DEF Register, Setup, AddUser, Manage, Lock, Unlock, Moves
  <2>5. ~(ReadAndEdit(w) \/ OpenUserFile(w) \/ Written(w) \/ Answer(w))
    BY <2>1 DEF ReadAndEdit, OpenUserFile, Written, Answer, Moves
  <2>6. ~(Reload(w) \/ Authenticate(w) \/ SetAdminFlag(w))
    BY <2>1 DEF Reload, Authenticate, SetAdminFlag, Moves
  <2>7. WriteText(w)
    BY <2>3, <2>4, <2>5, <2>6 DEF VisitorStep
  <2>8. w = v
    BY <2>1, <2>7 DEF WriteText, Moves
  <2> QED
    BY <2>7, <2>8, WriteKeeps
<1> QED
  BY <1>1, <1>2, <1>3, <1>4, PTL DEF HtpasswdSpec, AccountsAreKept, BootstrapIsFirst

-----------------------------------------------------------------------------
(* The package filter: first what the least and the greatest of a set are, *)
(* then what the parsed rules say of a version                             *)

\* A set of numbers that is not empty has a least one.
LEMMA LeastIsLeast ==
    ASSUME NEW S, S \subseteq Nat, S # {}
    PROVE  Least(S) \in S /\ \A y \in S : Least(S) <= y
<1> DEFINE below == OpToRel(<, Nat)
<1>1. \E x \in S : \A y \in S : ~ (<<y, x>> \in below)
  BY NatLessThanWellFounded, WFMin
<1>2. \A x, y \in Nat : y < x => <<y, x>> \in below
  BY Zenon DEF OpToRel
<1> HIDE DEF below
<1>3. \E x \in S : \A y \in S : x <= y
  <2>1. PICK x \in S : \A y \in S : ~ (<<y, x>> \in below)
    BY <1>1
  <2>2. \A y \in S : x \in Nat /\ y \in Nat /\ ~ (y < x)
    BY <1>2, <2>1
  <2>3. \A y \in S : x <= y
    BY <2>2
  <2> QED
    BY <2>3
<1> QED
  BY <1>3, Zenon DEF Least

\* One that is bounded has a greatest.
LEMMA GreatestIsGreatest ==
    ASSUME NEW S, S \subseteq Nat, S # {}, NEW n \in Nat, \A x \in S : x <= n
    PROVE  Greatest(S) \in S /\ \A y \in S : y <= Greatest(S)
<1> DEFINE T == {n - x : x \in S}
<1>1. T \subseteq Nat /\ T # {}
  <2>1. \A x \in S : n - x \in Nat
    OBVIOUS
  <2> QED
    BY <2>1
<1>2. Least(T) \in T /\ \A y \in T : Least(T) <= y
  BY <1>1, LeastIsLeast
<1>3. PICK x \in S : Least(T) = n - x
  BY <1>2
<1>4. \A y \in S : y <= x
  <2> TAKE y \in S
  <2>1. n - x <= n - y
    BY <1>2, <1>3
  <2> QED
    BY <2>1
<1> QED
  BY <1>4 DEF Greatest

\* What the parsed rule of a key says of a version, one of the rules that were
\* written says, and what one of them says, the parsed one does.
LEMMA ParsedRuleSays ==
    ASSUME NEW rules, RulesThatParse(rules), NEW i \in DOMAIN rules, NEW v
    PROVE  LET rule == ParsedRule(rules, i)
               mine == {j \in DOMAIN rules : SameKey(rules[j], rules[i])}
           IN  /\ rule.whole \/ InSome(v, rule.ranges)
                    <=> \E j \in mine : Says(rules[j], v)
               /\ rule.strategy = "replace" =>
                    /\ ~rule.whole /\ DOMAIN rule.ranges = mine
                    /\ \E j \in mine : rules[j].strategy = "replace"
<1> DEFINE mine == {j \in DOMAIN rules : SameKey(rules[j], rules[i])}
<1>1. mine \subseteq Nat /\ i \in mine /\ Len(rules) \in Nat /\ \A j \in mine : j <= Len(rules)
  BY DEF RulesThatParse, SameKey
<1>2. Greatest(mine) \in mine
  <2> HIDE DEF mine
  <2> QED
    BY <1>1, GreatestIsGreatest
<1>3. CASE \E j \in mine : rules[j].range = Nothing
  BY <1>3 DEF ParsedRule, Says
<1>4. CASE ~\E j \in mine : rules[j].range = Nothing
  <2>1. ParsedRule(rules, i) = [whole |-> FALSE, ranges |-> [j \in mine |-> rules[j].range],
                                strategy |-> rules[Greatest(mine)].strategy]
    BY <1>4 DEF ParsedRule
  <2> QED
    BY <1>2, <1>4, <2>1 DEF InSome, Says
<1> QED
  BY <1>3, <1>4

\* The same of the rule that is found for the package at one level: it is the
\* rule of a key whose pattern matches, that of the name itself if any is, and
\* the empty rule only where no pattern matches.
LEMMA FindRuleFinds ==
    ASSUME NEW rules, RulesThatParse(rules), NEW level
    PROVE  LET about == {i \in AboutUs(rules) : rules[i].level = level}
           IN  IF about = {} THEN FindRule(rules, level) = NoRule
               ELSE \E i \in about :
                      /\ FindRule(rules, level) = ParsedRule(rules, i)
                      /\ (\E j \in about : rules[j].pattern = "exact")
                            => rules[i].pattern = "exact"
<1> DEFINE written == {i \in DOMAIN rules : rules[i].level = level}
           exact == {i \in written : rules[i].pattern = "exact"}
           globs == {i \in written : rules[i].pattern \in Globs}
           about == {i \in AboutUs(rules) : rules[i].level = level}
<1>1. exact \subseteq Nat /\ globs \subseteq Nat /\ about = exact \cup globs
  BY DEF RulesThatParse, AboutUs
<1>2. /\ exact # {} => Least(exact) \in exact
      /\ globs # {} => Least(globs) \in globs
  <2> HIDE DEF exact, globs
  <2> QED
    BY <1>1, LeastIsLeast
<1>3. FindRule(rules, level) = IF exact # {} THEN ParsedRule(rules, Least(exact))
                               ELSE IF globs # {} THEN ParsedRule(rules, Least(globs))
                               ELSE NoRule
  BY DEF FindRule
<1>4. CASE exact # {}
  BY <1>1, <1>2, <1>3, <1>4
<1>5. CASE exact = {}
  BY <1>1, <1>2, <1>3, <1>5
<1> QED
  BY <1>4, <1>5

Matches(rules, v) == LET rule == MatchRules(rules) IN rule.whole \/ InSome(v, rule.ranges)

\* A version that the rules match is one they may ask for, and one they must
\* ask for is matched; `replace` is the word of a rule about this package, and
\* the ranges are those of such rules.
LEMMA MatchRulesSays ==
    ASSUME NEW rules, RulesThatParse(rules), NEW v
    PROVE  LET rule == MatchRules(rules)
           IN  /\ Matches(rules, v) => MaySay(rules, v)
               /\ MustSay(rules, v) => Matches(rules, v)
               /\ rule.strategy = "replace" =>
                    /\ ~rule.whole /\ DOMAIN rule.ranges \subseteq AboutUs(rules)
                    /\ \E i \in AboutUs(rules) : rules[i].strategy = "replace"
<1> DEFINE about(level) == {i \in AboutUs(rules) : rules[i].level = level}
<1>0. /\ ~NoRule.whole /\ NoRule.strategy = "block" /\ ~InSome(v, NoRule.ranges)
      /\ AboutUs(rules) \subseteq DOMAIN rules
      /\ \A i, j \in DOMAIN rules :
            i \in AboutUs(rules) /\ SameKey(rules[j], rules[i]) => j \in AboutUs(rules)
  BY DEF NoRule, InSome, AboutUs, SameKey
<1>1. CASE about("scope") # {}
  <2>1. PICK i \in about("scope") : FindRule(rules, "scope") = ParsedRule(rules, i)
    BY <1>1, FindRuleFinds
  <2>2. rules[i].range = Nothing /\ SameKey(rules[i], rules[i]) /\ i \in DOMAIN rules
    BY <1>0 DEF RulesThatParse, SameKey
  <2>3. ParsedRule(rules, i).whole /\ ParsedRule(rules, i).strategy = "block"
    BY <2>2 DEF ParsedRule
  <2>4. MatchRules(rules) = ParsedRule(rules, i)
    BY <2>1, <2>3 DEF MatchRules
  <2> QED
    BY <2>2, <2>3, <2>4 DEF Matches, MaySay, Says
<1>2. CASE about("scope") = {}
  <2>1. MatchRules(rules) = FindRule(rules, "package")
    BY <1>0, <1>2, FindRuleFinds DEF MatchRules
  <2>2. \A i \in AboutUs(rules) : rules[i].level = "package"
    BY <1>0, <1>2 DEF RulesThatParse
  <2>3. CASE about("package") = {}
    <3>1. AboutUs(rules) = {} /\ MatchRules(rules) = NoRule
      BY <2>1, <2>2, <2>3, FindRuleFinds
    <3> QED
      BY <1>0, <3>1 DEF Matches, MustSay
  <2>4. CASE about("package") # {}
    <3>1. PICK i \in about("package") :
             /\ FindRule(rules, "package") = ParsedRule(rules, i)
             /\ (\E j \in about("package") : rules[j].pattern = "exact")
                    => rules[i].pattern = "exact"
      BY <2>4, FindRuleFinds
    <3> DEFINE mine == {j \in DOMAIN rules : SameKey(rules[j], rules[i])}
    <3>2. i \in DOMAIN rules /\ mine \subseteq AboutUs(rules)
      BY <1>0, <3>1
    <3>3. /\ Matches(rules, v) <=> \E j \in mine : Says(rules[j], v)
          /\ MatchRules(rules).strategy = "replace" =>
                /\ ~MatchRules(rules).whole /\ DOMAIN MatchRules(rules).ranges = mine
                /\ \E j \in mine : rules[j].strategy = "replace"
      BY <2>1, <3>1, <3>2, ParsedRuleSays DEF Matches
    <3>4. MustSay(rules, v) => \E j \in mine : Says(rules[j], v)
      <4> SUFFICES ASSUME NEW j \in AboutUs(rules), Says(rules[j], v),
                          rules[j].pattern = "exact" \/ OneKey(rules)
                   PROVE  j \in mine
        BY <2>2, <1>2 DEF MustSay
      <4>1. CASE rules[j].pattern = "exact"
        BY <1>0, <2>2, <3>1, <4>1 DEF SameKey
      <4>2. CASE OneKey(rules)
        BY <1>0, <2>2, <4>2 DEF OneKey, SameKey
      <4> QED
        BY <4>1, <4>2
    <3> QED
      BY <3>2, <3>3, <3>4 DEF MaySay
  <2> QED
    BY <2>3, <2>4
<1> QED
  BY <1>1, <1>2

Blocked(v) == Matches(settings.block, v) /\ v \notin Exempt

\* Of the versions offered, the exempt are those that the allow rules match.
LEMMA ExemptIsAllowed ==
    ASSUME settings \in Configs, NEW v \in VersionsOf(offered)
    PROVE  /\ v \in Exempt => MaySay(settings.allow, v)
           /\ MustSay(settings.allow, v) => v \in Exempt
<1>1. RulesThatParse(settings.allow)
  BY FilterAssumption
<1>2. v \in Exempt <=> Matches(settings.allow, v)
  BY DEF Exempt, MatchedVersions, Matches
<1> QED
  BY <1>1, <1>2, MatchRulesSays

\* What the block rules leave: every version that they do not block, as it
\* was, and under `replace` those that they do, as an older one or, where two
\* ranges meet, as nothing.
LEMMA UnblockedIsAllowed ==
    ASSUME settings \in Configs, offered \in Offers
    PROVE  /\ DOMAIN Unblocked \subseteq VersionsOf(offered)
           /\ \A v \in VersionsOf(offered) :
                 ~Blocked(v) => v \in DOMAIN Unblocked /\ Unblocked[v] = v
           /\ \A v \in DOMAIN Unblocked :
                 LET c == Unblocked[v]
                 IN  Blocked(v) =>
                     /\ \E i \in AboutUs(settings.block) :
                           settings.block[i].strategy = "replace"
                     /\ c # v
                     /\ c # Nothing => c \in VersionsOf(offered) /\ c < v
                     /\ (\A i, j \in AboutUs(settings.block) : i = j) =>
                           /\ c # Nothing /\ ~Blocked(c)
                           /\ \A u \in VersionsOf(offered) : c < u /\ u < v => Blocked(u)
<1> DEFINE rules == settings.block
           rule == MatchRules(rules)
           versions == VersionsOf(offered)
<1>1. /\ RulesThatParse(rules) /\ versions \subseteq Nat /\ Nothing \notin Nat
      /\ offered.content = [v \in versions |-> v]
  BY FilterAssumption DEF AManifest, VersionsOf
<1>2. CASE rule.strategy # "replace"
  <2>1. Unblocked = Only(offered.content, versions \ (MatchedVersions(rule, versions) \ Exempt))
    BY <1>2 DEF Unblocked, FilterBlockedVersions, VersionsOf
  <2>2. \A v \in versions : v \in MatchedVersions(rule, versions) <=> Matches(rules, v)
    BY DEF MatchedVersions, Matches
  <2>3. DOMAIN Unblocked = {v \in versions : ~Blocked(v)}
    BY <2>1, <2>2 DEF Only, Blocked, VersionsOf
  <2>4. \A v \in DOMAIN Unblocked : Unblocked[v] = v
    BY <1>1, <2>1, <2>3 DEF Only, VersionsOf
  <2> HIDE DEF rules, rule, versions
  <2> QED
    BY <2>3, <2>4 DEF versions
<1>3. CASE rule.strategy = "replace"
  <2> DEFINE ranges == rule.ranges
             hit == {v \in versions \ Exempt : InSome(v, ranges)}
             first(v) == Least({i \in DOMAIN ranges : v \in ranges[i]})
             before(v) == {u \in versions : u < v /\ (u \in hit => first(u) > first(v))}
             kept == (versions \ hit) \cup {v \in hit : before(v) # {}}
             taken(v) == Greatest(before(v))
  <2>1. Unblocked = [v \in kept |-> IF v \notin hit THEN v
                                    ELSE IF taken(v) \in kept THEN taken(v) ELSE Nothing]
    BY <1>3 DEF Unblocked, FilterBlockedVersions, ReplaceVersions, VersionsOf
  <2>2. /\ ~rule.whole /\ DOMAIN ranges \subseteq AboutUs(rules)
        /\ \E i \in AboutUs(rules) : rules[i].strategy = "replace"
    BY <1>1, <1>3, MatchRulesSays
  <2>3. hit = {v \in versions : Blocked(v)}
    BY <2>2 DEF Blocked, Matches
  <2>4. \A v \in hit : before(v) # {} =>
              /\ taken(v) \in before(v) /\ \A u \in before(v) : u <= taken(v)
    <3> SUFFICES ASSUME NEW v \in hit, before(v) # {}
                 PROVE  taken(v) \in before(v) /\ \A u \in before(v) : u <= taken(v)
      OBVIOUS
    <3>1. v \in Nat /\ before(v) \subseteq Nat /\ \A u \in before(v) : u <= v
      BY <1>1
    <3> HIDE DEF before
    <3> QED
      BY <3>1, GreatestIsGreatest
  <2>5. (\A i, j \in AboutUs(rules) : i = j) => \A u, v \in hit : first(u) = first(v)
    <3> SUFFICES ASSUME \A i, j \in AboutUs(rules) : i = j, NEW u \in hit, NEW v \in hit
                 PROVE  {i \in DOMAIN ranges : u \in ranges[i]}
                          = {i \in DOMAIN ranges : v \in ranges[i]}
      OBVIOUS
    <3>1. PICK i \in DOMAIN ranges : u \in ranges[i]
      BY DEF InSome
    <3>2. PICK j \in DOMAIN ranges : v \in ranges[j]
      BY DEF InSome
    <3>3. \A h \in DOMAIN ranges : h = i /\ h = j
      BY <2>2, <3>1, <3>2
    <3> QED
      BY <3>1, <3>2, <3>3
  <2>6. /\ \A v : before(v) \subseteq versions /\ \A u \in before(v) : u < v
        /\ \A v, u \in versions : u < v /\ u \notin hit => u \in before(v)
        /\ (\A i, j \in AboutUs(rules) : i = j) =>
              \A v \in hit : \A u \in before(v) : u \notin hit
    <3>1. ASSUME \A i, j \in AboutUs(rules) : i = j, NEW v \in hit, NEW u \in before(v)
          PROVE  u \notin hit
      <4> SUFFICES ASSUME u \in hit PROVE FALSE
        OBVIOUS
      <4>1. first(u) = first(v) /\ first(u) > first(v)
        BY <2>5, <3>1
      <4>2. first(u) \in Nat
        <5> DEFINE S == {i \in DOMAIN ranges : u \in ranges[i]}
        <5>1. S \subseteq Nat /\ S # {}
          BY <1>1, <2>2 DEF InSome, AboutUs, RulesThatParse
        <5> HIDE DEF S
        <5>2. Least(S) \in S
          BY <5>1, LeastIsLeast
        <5> QED
          BY <5>1, <5>2 DEF S
      <4> QED
        BY <4>1, <4>2
    <3> QED
      BY <3>1
  <2>7. kept \subseteq versions /\ versions \ hit \subseteq kept
        /\ \A v \in kept : v \in hit => before(v) # {}
    OBVIOUS
  <2>8. hit \subseteq versions
    OBVIOUS
  <2> HIDE DEF rules, rule, versions, ranges, hit, first, before, kept, taken
  <2>9. \A v \in versions : ~Blocked(v) => v \in DOMAIN Unblocked /\ Unblocked[v] = v
    BY <2>1, <2>3, <2>7
  <2>10. ASSUME NEW v \in DOMAIN Unblocked, Blocked(v)
         PROVE  /\ Unblocked[v] # v
                /\ Unblocked[v] # Nothing => Unblocked[v] \in versions /\ Unblocked[v] < v
                /\ (\A i, j \in AboutUs(rules) : i = j) =>
                      /\ Unblocked[v] # Nothing /\ ~Blocked(Unblocked[v])
                      /\ \A u \in versions : Unblocked[v] < u /\ u < v => Blocked(u)
    <3>1. v \in hit /\ v \in kept /\ v \in versions /\ v \in Nat
      BY <1>1, <2>1, <2>3, <2>7, <2>10
    <3>2. /\ taken(v) \in before(v) /\ \A u \in before(v) : u <= taken(v)
          /\ Unblocked[v] = IF taken(v) \in kept THEN taken(v) ELSE Nothing
      BY <2>1, <2>4, <2>7, <3>1
    <3>3. taken(v) < v /\ taken(v) \in versions /\ taken(v) \in Nat
      BY <1>1, <2>6, <3>2
    <3>4. Unblocked[v] # v
      BY <1>1, <3>1, <3>2, <3>3
    <3>5. ASSUME \A i, j \in AboutUs(rules) : i = j
          PROVE  /\ Unblocked[v] = taken(v) /\ ~Blocked(taken(v))
                 /\ \A u \in versions : taken(v) < u /\ u < v => Blocked(u)
      <4>1. taken(v) \notin hit
        BY <2>6, <3>1, <3>2, <3>5
      <4>2. Unblocked[v] = taken(v) /\ ~Blocked(taken(v))
        BY <2>3, <2>7, <3>2, <3>3, <4>1
      <4>3. \A u \in versions : taken(v) < u /\ u < v => u \in hit
        <5> SUFFICES ASSUME NEW u \in versions, taken(v) < u, u < v, u \notin hit
                     PROVE  FALSE
          OBVIOUS
        <5>1. u \in before(v) /\ u \in Nat
          BY <1>1, <2>6, <3>1
        <5> QED
          BY <3>2, <3>3, <5>1
      <4> QED
        BY <2>3, <4>2, <4>3
    <3> QED
      BY <1>1, <3>2, <3>3, <3>4, <3>5
  <2>11. DOMAIN Unblocked \subseteq versions
    BY <2>1, <2>7
  <2> QED
    BY <2>2, <2>9, <2>10, <2>11 DEF rules, versions
<1> QED
  BY <1>2, <1>3

\* Dates are numbers.
LEMMA TimesAreNumbers ==
    ASSUME settings \in Configs, offered \in Offers
    PROVE  /\ HasDate => settings.before \in Nat
           /\ \A v \in DOMAIN offered.time : offered.time[v] \in Nat
<1>1. HasDate => settings.before \in Nat
  BY FilterAssumption DEF HasDate
<1> QED
  BY <1>1, FilterAssumption DEF AManifest

\* What the other filters leave of that: what is exempt, or is neither
\* deprecated nor young, under the content the block rules left.
LEMMA FilteredIsAllowed ==
    ASSUME settings \in Configs, offered \in Offers,
           ~(HasDate /\ TimeIsMissing(Undeprecated, Exempt))
    PROVE  /\ DOMAIN Filtered
                = {v \in DOMAIN Unblocked :
                      \/ v \in Exempt
                      \/ ~Deprecated(Unblocked[v]) /\ ~Young(v)}
           /\ \A v \in DOMAIN Filtered : Filtered[v] = Unblocked[v]
           /\ HasDate => \A v \in DOMAIN Filtered \ Exempt : v \in DOMAIN offered.time
<1> DEFINE current == {v \in DOMAIN Unblocked : v \in Exempt \/ ~Deprecated(Unblocked[v])}
<1>1. /\ DOMAIN Undeprecated = current
      /\ \A v \in current : Undeprecated[v] = Unblocked[v]
  <2>1. CASE settings.excludeDeprecated
    BY <2>1 DEF Undeprecated, FilterDeprecatedVersions, Only, Deprecated
  <2>2. CASE ~settings.excludeDeprecated
    BY <2>2 DEF Undeprecated, Deprecated
  <2> QED
    BY <2>1, <2>2
<1>2. CASE ~HasDate
  BY <1>1, <1>2 DEF Filtered, Young
<1>3. CASE HasDate
  <2>1. \A v \in current \ Exempt : v \in DOMAIN offered.time
    BY <1>1, <1>3 DEF TimeIsMissing
  <2>2. settings.before \in Nat /\ \A v \in DOMAIN offered.time : offered.time[v] \in Nat
    BY <1>3, TimesAreNumbers
  <2>3. \A v \in current \ Exempt : Young(v) <=> ~(offered.time[v] <= settings.before)
    BY <1>3, <2>1, <2>2 DEF Young
  <2>4. Filtered = [v \in {v \in current : v \in Exempt \/ offered.time[v] <= settings.before}
                      |-> Undeprecated[v]]
    <3>1. Filtered = Only(Undeprecated, {v \in current : \/ v \in Exempt
                                                       \/ offered.time[v] <= settings.before})
      BY <1>1, <1>3 DEF Filtered, FilterVersionsByPublishDate
    <3> QED
      BY <1>1, <3>1 DEF Only
  <2>5. \A v \in DOMAIN Filtered : Filtered[v] = Unblocked[v]
    BY <1>1, <2>4
  <2>6. DOMAIN Filtered = {v \in current : v \in Exempt \/ ~Young(v)}
    BY <2>3, <2>4
  <2> QED
    BY <2>1, <2>5, <2>6
<1> QED
  BY <1>2, <1>3

\* The latest of some versions is one of them that has a date, and none of
\* them has a later one.
LEMMA LatestIsLatest ==
    ASSUME NEW m, NEW S, NEW last \in Nat, S \subseteq Nat,
           \A v \in DOMAIN m.time : m.time[v] \in 0..last
    PROVE  LET timed == S \cap DOMAIN m.time
               latest == GetLatestVersion(m, S)
           IN  IF timed = {} THEN latest = Nothing
               ELSE latest \in timed /\ \A v \in timed : m.time[v] <= m.time[latest]
<1> DEFINE timed == S \cap DOMAIN m.time
           final == {v \in timed : \A u \in timed : m.time[u] <= m.time[v]}
<1>1. CASE timed = {}
  BY <1>1 DEF GetLatestVersion
<1>2. CASE timed # {}
  <2> DEFINE T == {m.time[v] : v \in timed}
  <2>1. T \subseteq Nat /\ T # {} /\ \A x \in T : x <= last
    <3>1. \A v \in timed : m.time[v] \in Nat /\ m.time[v] <= last
      OBVIOUS
    <3> QED
      BY <1>2, <3>1
  <2>2. Greatest(T) \in T /\ \A x \in T : x <= Greatest(T)
    <3> HIDE DEF T
    <3> QED
      BY <2>1, GreatestIsGreatest
  <2>3. PICK v \in timed : m.time[v] = Greatest(T)
    BY <2>2
  <2>4. v \in final
    BY <2>2, <2>3
  <2>5. final \subseteq Nat /\ final # {}
    BY <2>4
  <2>6. GetLatestVersion(m, S) = Least(final)
    BY <1>2 DEF GetLatestVersion
  <2>7. Least(final) \in final
    <3> HIDE DEF final
    <3> QED
      BY <2>5, LeastIsLeast
  <2> QED
    BY <1>2, <2>6, <2>7
<1> QED
  BY <1>1, <1>2

\* Cleanup leaves a manifest that hangs together.
LEMMA CleanupHangsTogether ==
    ASSUME offered \in Offers, NEW content, DOMAIN content \subseteq Nat,
           shown = Cleanup([offered EXCEPT !.content = content])
    PROVE  shown.content = content /\ CleanupIsRight
<1> DEFINE V == DOMAIN content
           tags == Only(offered.tags, {t \in DOMAIN offered.tags : offered.tags[t] \in V})
           m1 == [offered EXCEPT !.content = content, !.tags = tags]
           m2 == SetupLatestTag(m1)
           dates == Only(offered.time, V)
           distFiles == offered.files \cap ValuesOf(content)
           untagged == V \ ValuesOf(tags)
           stable == GetLatestVersion(m1, untagged \ Prerelease)
           latest == IF stable # Nothing THEN stable ELSE GetLatestVersion(m1, untagged)
<1>0. PICK last \in Nat : \A v \in DOMAIN offered.time : offered.time[v] \in 0..last
  <2>1. CASE DOMAIN offered.time = {}
    BY <2>1
  <2>2. CASE DOMAIN offered.time # {}
    <3>1. AManifest(offered)
      BY FilterAssumption
    <3>2. PICK l \in DOMAIN offered.time :
             \A v \in DOMAIN offered.time : offered.time[v] <= offered.time[l]
      BY <2>2, <3>1 DEF AManifest
    <3>3. \A v \in DOMAIN offered.time : offered.time[v] \in Nat
      BY <3>1 DEF AManifest
    <3> QED
      BY <3>2, <3>3
  <2> QED
    BY <2>1, <2>2
<1>1. /\ offered = [content |-> offered.content, deprecated |-> offered.deprecated,
                    time |-> offered.time, tags |-> offered.tags, files |-> offered.files,
                    created |-> offered.created, modified |-> offered.modified]
      /\ Nothing \notin Nat
  BY FilterAssumption DEF AManifest
<1>2. /\ CleanupTags([offered EXCEPT !.content = content]) = m1
      /\ m1.content = content /\ m1.tags = tags /\ m1.time = offered.time
      /\ m1.files = offered.files
  BY <1>1 DEF CleanupTags, VersionsOf
<1>3. /\ tags = [t \in DOMAIN tags |-> offered.tags[t]]
      /\ DOMAIN tags = {t \in DOMAIN offered.tags : offered.tags[t] \in V}
  BY DEF Only
<1>4. /\ m2.content = content /\ m2.time = offered.time /\ m2.files = offered.files
      /\ m2 = [m1 EXCEPT !.tags = m2.tags]
      /\ m2.tags = IF "latest" \in DOMAIN tags \/ latest = Nothing THEN tags
                   ELSE [t \in DOMAIN tags \cup {"latest"} |->
                            IF t = "latest" THEN latest ELSE tags[t]]
  <2> HIDE DEF tags
  <2> QED
    BY <1>1, <1>2 DEF SetupLatestTag, VersionsOf
<1>5. /\ shown.content = content /\ shown.tags = m2.tags /\ shown.time = dates
      /\ shown.files = distFiles
      /\ ValuesOf(dates) # {} => /\ shown.created = Least(ValuesOf(dates))
                                /\ shown.modified = Greatest(ValuesOf(dates))
  <2> DEFINE m3 == CleanupTime(m2)
             m4 == SetupCreatedAndModified(m3)
             times == ValuesOf(dates)
  <2>1. m3 = [content |-> content, deprecated |-> offered.deprecated, time |-> dates,
              tags |-> m2.tags, files |-> offered.files,
              created |-> Nothing, modified |-> Nothing]
    <3>1. m2 = [content |-> content, deprecated |-> offered.deprecated,
                time |-> offered.time, tags |-> m2.tags, files |-> offered.files,
                created |-> offered.created, modified |-> offered.modified]
      <4> HIDE DEF m2, tags
      <4> QED
        BY <1>1, <1>4
    <3>2. m3 = [m2 EXCEPT !.time = Only(m2.time, DOMAIN m2.content),
                          !.created = Nothing, !.modified = Nothing]
      BY DEF CleanupTime, VersionsOf
    <3>3. dates = Only(m2.time, DOMAIN m2.content)
      BY <1>4
    <3> DEFINE names == m2.tags
    <3>4. m2 = [content |-> content, deprecated |-> offered.deprecated,
                time |-> offered.time, tags |-> names, files |-> offered.files,
                created |-> offered.created, modified |-> offered.modified]
      BY <3>1
    <3>5. m3 = [m2 EXCEPT !.time = dates, !.created = Nothing, !.modified = Nothing]
      BY <3>2, <3>3
    <3> HIDE DEF m2, m3, dates, names
    <3>6. m3 = [content |-> content, deprecated |-> offered.deprecated, time |-> dates,
                tags |-> names, files |-> offered.files,
                created |-> Nothing, modified |-> Nothing]
      BY <3>4, <3>5
    <3> QED
      BY <3>6 DEF names
  <2>2. m4 = IF ValuesOf(m3.time) = {} THEN m3
             ELSE [m3 EXCEPT !.created = Least(ValuesOf(m3.time)),
                             !.modified = Greatest(ValuesOf(m3.time))]
    BY DEF SetupCreatedAndModified
  <2>3. /\ m4.content = content /\ m4.tags = m2.tags /\ m4.time = dates
        /\ m4.files = offered.files
        /\ times # {} => m4.created = Least(times) /\ m4.modified = Greatest(times)
        /\ m4 = [m4 EXCEPT !.files = m4.files]
        /\ DOMAIN m4 = {"content", "deprecated", "time", "tags", "files", "created",
                        "modified"}
    <3>1. m3.time = dates /\ times = ValuesOf(m3.time)
      BY <2>1
    <3> HIDE DEF m2, m3, m4, dates, times
    <3>2. CASE times = {}
      <4>1. m4 = m3
        BY <2>2, <3>1, <3>2
      <4> QED
        BY <2>1, <3>2, <4>1
    <3>3. CASE times # {}
      <4>1. m4 = [m3 EXCEPT !.created = Least(times), !.modified = Greatest(times)]
        BY <2>2, <3>1, <3>3
      <4> QED
        BY <2>1, <4>1
    <3> QED
      BY <3>2, <3>3
  <2>4. shown = [m4 EXCEPT !.files = @ \cap ValuesOf(m4.content)]
    BY <1>2 DEF Cleanup, CleanupDistFiles
  <2> HIDE DEF m2, m3, m4, dates
  <2> QED
    BY <2>3, <2>4
<1>6. /\ DOMAIN dates = DOMAIN offered.time \cap V
      /\ \A v \in DOMAIN dates : dates[v] = offered.time[v] /\ dates[v] \in 0..last
  BY <1>0 DEF Only
<1>7. \A v \in DOMAIN shown.time :
          shown.created <= shown.time[v] /\ shown.time[v] <= shown.modified
  <2> DEFINE times == ValuesOf(dates)
  <2>1. /\ times \subseteq Nat /\ \A x \in times : x <= last
        /\ \A v \in DOMAIN dates : dates[v] \in times
    BY <1>6 DEF ValuesOf
  <2>2. ASSUME times # {}
        PROVE  \A x \in times : Least(times) <= x /\ x <= Greatest(times)
    <3> HIDE DEF times
    <3> QED
      BY <2>1, <2>2, LeastIsLeast, GreatestIsGreatest
  <2> HIDE DEF times, dates
  <2> QED
    BY <1>5, <2>1, <2>2 DEF times
<1>8. ASSUME latest # Nothing
      PROVE  /\ latest \in untagged \cap DOMAIN offered.time
             /\ \A v \in untagged \cap DOMAIN offered.time :
                   \/ v \in Prerelease /\ latest \notin Prerelease
                   \/ (v \in Prerelease <=> latest \in Prerelease)
                      /\ offered.time[v] <= offered.time[latest]
  <2>1. untagged \subseteq Nat
    OBVIOUS
  <2> HIDE DEF m1, untagged
  <2>2. IF (untagged \ Prerelease) \cap DOMAIN offered.time = {} THEN stable = Nothing
        ELSE /\ stable \in (untagged \ Prerelease) \cap DOMAIN offered.time
             /\ \A v \in (untagged \ Prerelease) \cap DOMAIN offered.time :
                   offered.time[v] <= offered.time[stable]
    BY <1>0, <1>2, <2>1, LatestIsLatest
  <2>3. LET l == GetLatestVersion(m1, untagged)
        IN  IF untagged \cap DOMAIN offered.time = {} THEN l = Nothing
            ELSE /\ l \in untagged \cap DOMAIN offered.time
                 /\ \A v \in untagged \cap DOMAIN offered.time :
                       offered.time[v] <= offered.time[l]
    BY <1>0, <1>2, <2>1, LatestIsLatest
  <2> HIDE DEF stable
  <2>4. CASE stable # Nothing
    BY <2>2, <2>4
  <2>5. CASE stable = Nothing
    <3>1. untagged \cap DOMAIN offered.time \subseteq Prerelease
      BY <1>1, <2>1, <2>2, <2>5
    <3> QED
      BY <1>8, <2>3, <2>5, <3>1
  <2> QED
    BY <2>4, <2>5
<1>9. untagged \cap DOMAIN offered.time # {} => latest # Nothing
  <2>1. untagged \subseteq Nat
    OBVIOUS
  <2> HIDE DEF m1, untagged
  <2>2. untagged \cap DOMAIN offered.time # {} => GetLatestVersion(m1, untagged) \in Nat
    BY <1>0, <1>2, <2>1, LatestIsLatest
  <2> QED
    BY <1>1, <2>2
<1>10. V \ {shown.tags[t] : t \in DOMAIN shown.tags \ {"latest"}}
         = V \ {tags[t] : t \in DOMAIN tags \ {"latest"}}
  <2>1. DOMAIN shown.tags \ {"latest"} = DOMAIN tags \ {"latest"}
    BY <1>4, <1>5
  <2>2. \A t \in DOMAIN tags \ {"latest"} : shown.tags[t] = tags[t]
    BY <1>4, <1>5
  <2> QED
    BY <2>1, <2>2
<1> HIDE DEF V, tags, m1, m2, dates, distFiles, stable, latest
<1>11. /\ \A t \in DOMAIN offered.tags :
              offered.tags[t] \in V
                  => t \in DOMAIN shown.tags /\ shown.tags[t] = offered.tags[t]
       /\ \A t \in DOMAIN shown.tags :
              /\ shown.tags[t] \in V
              /\ t = "latest" \/ t \in DOMAIN offered.tags
  BY <1>3, <1>4, <1>5, <1>8
<1>12. LET timed == (V \ {shown.tags[t] : t \in DOMAIN shown.tags \ {"latest"}})
                       \cap DOMAIN offered.time
       IN  /\ timed # {} => "latest" \in DOMAIN shown.tags
           /\ "latest" \in DOMAIN shown.tags =>
                LET l == shown.tags["latest"]
                IN  \/ "latest" \in DOMAIN offered.tags /\ offered.tags["latest"] = l
                    \/ \A v \in timed : \/ v \in Prerelease /\ l \notin Prerelease
                                        \/ (v \in Prerelease <=> l \in Prerelease)
                                           /\ offered.time[v] <= offered.time[l]
  <2>1. CASE "latest" \in DOMAIN tags
    <3>1. "latest" \in DOMAIN shown.tags /\ shown.tags["latest"] = offered.tags["latest"]
      BY <1>3, <1>4, <1>5, <2>1
    <3> QED
      BY <1>3, <2>1, <3>1
  <2>2. CASE "latest" \notin DOMAIN tags
    <3>1. V \ {tags[t] : t \in DOMAIN tags \ {"latest"}} = untagged
      BY <2>2 DEF ValuesOf
    <3>2. "latest" \in DOMAIN shown.tags
            => latest # Nothing /\ shown.tags["latest"] = latest
      BY <1>4, <1>5, <2>2
    <3>3. latest # Nothing => "latest" \in DOMAIN shown.tags
      BY <1>4, <1>5, <2>2
    <3> HIDE DEF untagged
    <3> QED
      BY <1>8, <1>9, <1>10, <3>1, <3>2, <3>3
  <2> QED
    BY <2>1, <2>2
<1>13. /\ DOMAIN shown.time = DOMAIN offered.time \cap V
       /\ shown.files = offered.files \cap ValuesOf(content)
  BY <1>5, <1>6 DEF distFiles
<1> QED
  BY <1>5, <1>7, <1>11, <1>12, <1>13 DEF CleanupIsRight, VersionsOf, V

\* What is shown once the filters ran.
FilterInv ==
    /\ settings \in Configs /\ offered \in Offers
    /\ outcome \in {"offered", "filtered", "failed"}
    /\ outcome = "offered" => shown = offered
    /\ outcome = "filtered" =>
          /\ ~(HasDate /\ TimeIsMissing(Undeprecated, Exempt))
          /\ shown = IF Filtered = offered.content THEN offered
                     ELSE Cleanup([offered EXCEPT !.content = Filtered])

\* What the filters leave is what the rules allow.
LEMMA FilteredIsShown ==
    ASSUME FilterInv
    PROVE  ShownIsAllowed
<1> SUFFICES ASSUME outcome = "filtered"
             PROVE  /\ \A v \in VersionsOf(shown) : ContentIsAllowed(v)
                    /\ NothingElseGoes /\ (shown # offered => CleanupIsRight)
  BY DEF ShownIsAllowed
<1>0. /\ settings \in Configs /\ offered \in Offers
      /\ ~(HasDate /\ TimeIsMissing(Undeprecated, Exempt))
  BY DEF FilterInv
<1>1. /\ DOMAIN offered.content \subseteq Nat /\ DOMAIN offered.time \subseteq Nat
      /\ Nothing \notin Nat /\ RulesThatParse(settings.block)
      /\ HasDate => settings.before \in Nat
      /\ \A v \in DOMAIN offered.time : offered.time[v] \in Nat
  <2>1. AManifest(offered) /\ RulesThatParse(settings.block) /\ Nothing \notin Nat
    BY <1>0, FilterAssumption
  <2> QED
    BY <1>0, <2>1, TimesAreNumbers DEF AManifest
<1>2. /\ DOMAIN Filtered
           = {v \in DOMAIN Unblocked : v \in Exempt \/ (~Deprecated(Unblocked[v]) /\ ~Young(v))}
      /\ \A v \in DOMAIN Filtered : Filtered[v] = Unblocked[v]
      /\ HasDate => \A v \in DOMAIN Filtered \ Exempt : v \in DOMAIN offered.time
  BY <1>0, FilteredIsAllowed
<1>3. /\ DOMAIN Unblocked \subseteq VersionsOf(offered)
      /\ \A v \in VersionsOf(offered) :
            ~Blocked(v) => v \in DOMAIN Unblocked /\ Unblocked[v] = v
  BY <1>0, UnblockedIsAllowed
<1>4. DOMAIN Filtered \subseteq Nat
  BY <1>1, <1>2, <1>3 DEF VersionsOf
<1>5. shown.content = Filtered /\ (shown # offered => CleanupIsRight)
  <2>1. CASE Filtered = offered.content
    BY <2>1 DEF FilterInv
  <2>2. CASE Filtered # offered.content
    BY <1>0, <1>4, <2>2, CleanupHangsTogether DEF FilterInv
  <2> QED
    BY <2>1, <2>2
<1>6. \A v \in VersionsOf(offered) :
         /\ Blocked(v) => MaySay(settings.block, v) /\ ~MustSay(settings.allow, v)
         /\ MustSay(settings.block, v) /\ ~MaySay(settings.allow, v) => Blocked(v)
         /\ MustSay(settings.allow, v) => v \in Exempt
         /\ v \in Exempt => MaySay(settings.allow, v)
  BY <1>0, <1>1, ExemptIsAllowed, MatchRulesSays DEF Blocked
<1>7. ASSUME NEW v \in DOMAIN Filtered
      PROVE  ContentIsAllowed(v)
  <2> DEFINE c == Filtered[v]
             one == \A i, j \in AboutUs(settings.block) : i = j
  <2>1. /\ shown.content[v] = c /\ c = Unblocked[v] /\ v \in DOMAIN Unblocked
        /\ v \in VersionsOf(offered) /\ v \in Nat
    BY <1>2, <1>3, <1>4, <1>5, <1>7
  <2>2. c # v => Blocked(v)
    BY <1>3, <2>1
  <2>3. Blocked(v) =>
          /\ \E i \in AboutUs(settings.block) : settings.block[i].strategy = "replace"
          /\ c # v
          /\ c # Nothing => c \in VersionsOf(offered) /\ c < v
          /\ one => /\ c # Nothing /\ ~Blocked(c)
                    /\ \A u \in VersionsOf(offered) : c < u /\ u < v => Blocked(u)
    BY <1>0, <2>1, UnblockedIsAllowed
  <2>4. ASSUME ~MaySay(settings.allow, v)
        PROVE  /\ ~Deprecated(c) /\ ~Young(v)
               /\ TimesInOrder => ~Young(c)
    <3>1. v \notin Exempt
      BY <1>6, <2>1, <2>4
    <3>2. ~Deprecated(c) /\ ~Young(v) /\ (HasDate => v \in DOMAIN offered.time)
      BY <1>2, <1>7, <2>1, <3>1
    <3>3. ASSUME TimesInOrder, Young(c) PROVE FALSE
      <4>1. HasDate /\ c \in DOMAIN offered.time /\ offered.time[c] > settings.before
        BY <3>3 DEF Young
      <4>2. c # Nothing /\ c # v
        BY <1>1, <3>2, <3>3, <4>1
      <4>3. c < v
        BY <2>2, <2>3, <4>2
      <4>4. offered.time[c] <= offered.time[v] /\ offered.time[v] <= settings.before
        BY <1>1, <3>2, <3>3, <4>1, <4>3 DEF TimesInOrder, Young
      <4> QED
        BY <1>1, <3>2, <4>1, <4>4
    <3> QED
      BY <3>2, <3>3
  <2>5. ASSUME c # v
        PROVE  /\ \E i \in AboutUs(settings.block) :
                       settings.block[i].strategy = "replace"
               /\ c # Nothing => c \in VersionsOf(offered) /\ c < v
               /\ one => /\ c # Nothing /\ ~Blocked(c)
                         /\ \A u \in VersionsOf(offered) : c < u /\ u < v => Blocked(u)
    BY <2>2, <2>3, <2>5
  <2> HIDE DEF c
  <2> QED
    BY <1>6, <2>1, <2>2, <2>3, <2>4, <2>5 DEF ContentIsAllowed
<1>8. NothingElseGoes
  <2> SUFFICES ASSUME NEW v \in VersionsOf(offered),
                      \/ MustSay(settings.allow, v)
                      \/ ~MaySay(settings.block, v) /\ ~Deprecated(v) /\ ~Young(v)
               PROVE  v \in DOMAIN Filtered /\ Filtered[v] = v
    BY <1>5 DEF NothingElseGoes, VersionsOf
  <2>1. ~Blocked(v)
    BY <1>6
  <2>2. v \in DOMAIN Unblocked /\ Unblocked[v] = v
    BY <1>3, <2>1
  <2>3. v \in DOMAIN Filtered
    BY <1>2, <1>6, <2>2
  <2> QED
    BY <1>2, <2>2, <2>3
<1> QED
  BY <1>5, <1>7, <1>8 DEF VersionsOf

\* What a client sees of a package is what the rules allow, whichever ranges,
\* patterns, exceptions and dates meet, and is a manifest that hangs together:
\* for any versions, rules and dates.
THEOREM ShownAlwaysAllowed == FilterSpec => []ShownIsAllowed
<1>1. FilterInit => FilterInv
  BY DEF FilterInit, FilterInv
<1>2. FilterInv /\ [FilterNext]_filterVars => FilterInv'
  <2> SUFFICES ASSUME FilterInv, [FilterNext]_filterVars
               PROVE  FilterInv'
    OBVIOUS
  <2>1. settings' = settings /\ offered' = offered
    BY DEF FilterNext, FilterMetadata, FilterThrows, filterVars
  <2>2. /\ Exempt' = Exempt /\ Undeprecated' = Undeprecated /\ Filtered' = Filtered
        /\ HasDate' = HasDate
        /\ TimeIsMissing(Undeprecated, Exempt)' = TimeIsMissing(Undeprecated, Exempt)
    BY <2>1 DEF Exempt, Unblocked, Undeprecated, Filtered, HasDate, TimeIsMissing, VersionsOf,
       FilterDeprecatedVersions, FilterVersionsByPublishDate
  <2> QED
    BY <2>1, <2>2 DEF FilterInv, FilterNext, FilterMetadata, FilterThrows, filterVars
<1> QED
  BY <1>1, <1>2, FilteredIsShown, PTL DEF FilterSpec

=============================================================================
