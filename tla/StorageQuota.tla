---------------------------- MODULE StorageQuota ----------------------------
(***************************************************************************)
(* retention.max_storage_mb: assertStorageQuota of                         *)
(* packages/store/src/storage.ts, which every publish passes before it     *)
(* writes anything, and the measurement of the storage it caches           *)
(* (storageSizeCache, measureStorageBytes of lib/retention.ts).            *)
(*                                                                         *)
(* Bytes are those of tarballs; manifests are too small to count.  The     *)
(* publish itself is in PackageStore: here its tarball is stored, stays or *)
(* is taken back.  Three things change the storage without asking the      *)
(* quota or dropping its measurement: reads that cache a tarball of an     *)
(* uplink, the staging of a version (the approval is a publish), and       *)
(* removals.                                                               *)
(***************************************************************************)
EXTENDS Integers

CONSTANTS
    Upload,        \* publishes
    Sizes,         \* bytes a publish may bring
    Quota,         \* quotaBytes
    CacheTtl,      \* 60_000
    NoMeasure,     \* null
    QuotaEnd,      \* the clock stops there
    MaxUntold      \* bound on reads that cache, stagings and removals

ASSUME QuotaAssumption ==
    /\ Sizes \subseteq Nat /\ Quota \in Nat /\ CacheTtl \in Nat
    /\ QuotaEnd \in Nat /\ MaxUntold \in Nat
    /\ NoMeasure \notin [bytes : Int, measuredAt : Nat]

VARIABLES
    used,       \* bytes in the storage
    sizeCache,  \* storageSizeCache
    minute,     \* Date.now()
    brings,     \* bytes of each publish
    gate,       \* where it is
    arrived,    \* its `now`
    least, most,\* what its walk through the storage may count
    disturbed,  \* last time two publishes met or a tarball came untold
    untold

quotaVars == <<used, sizeCache, minute, brings, gate, arrived, least, most,
               disturbed, untold>>

QuotaInit ==
    /\ used \in 0..Quota /\ sizeCache = NoMeasure /\ minute = 0
    /\ brings \in [Upload -> Sizes]
    /\ gate = [u \in Upload |-> "new"]
    /\ arrived = [u \in Upload |-> 0]
    /\ least = arrived /\ most = arrived
    /\ disturbed = -1 - CacheTtl /\ untold = 0

Enters(u, from, to) == gate[u] = from /\ gate' = [gate EXCEPT ![u] = to]
Publishing(u) == gate[u] \in {"walk", "accepted", "stored"}
Verdict(u, bytes) == IF bytes + brings[u] > Quota THEN "refused" ELSE "accepted"

Usable == sizeCache # NoMeasure /\ minute - sizeCache.measuredAt <= CacheTtl

\* a measurement that is recent enough decides at once
AssertStorageQuota(u) ==
    /\ \/ /\ Usable /\ Enters(u, "new", Verdict(u, sizeCache.bytes))
          /\ UNCHANGED <<least, most>>
       \/ /\ ~Usable /\ Enters(u, "new", "walk")
          /\ least' = [least EXCEPT ![u] = used]
          /\ most' = [most EXCEPT ![u] = used]
    /\ arrived' = [arrived EXCEPT ![u] = minute]
    /\ disturbed' = IF \E v \in Upload : Publishing(v) THEN minute ELSE disturbed
    /\ UNCHANGED <<used, sizeCache, minute, brings, untold>>

\* measureStorageBytes: files that come or go meanwhile may be counted or not;
\* the measurement is dated when the walk began, and replaces any other
Measured(u) ==
    /\ \E bytes \in least[u]..most[u] :
          /\ sizeCache' = [bytes |-> bytes, measuredAt |-> arrived[u]]
          /\ Enters(u, "walk", Verdict(u, bytes))
    /\ least' = [least EXCEPT ![u] = 0] /\ most' = [most EXCEPT ![u] = 0]
    /\ UNCHANGED <<used, minute, brings, arrived, disturbed, untold>>

Grows(n) ==
    /\ used' = used + n
    /\ most' = [u \in Upload |-> IF gate[u] = "walk" THEN most[u] + n ELSE most[u]]
    /\ UNCHANGED least

Shrinks(n) ==
    /\ used' = used - n
    /\ least' = [u \in Upload |-> IF gate[u] = "walk" THEN least[u] - n ELSE least[u]]
    /\ UNCHANGED most

StoreTarball(u) ==
    /\ Enters(u, "accepted", "stored") /\ Grows(brings[u])
    /\ UNCHANGED <<sizeCache, minute, brings, arrived, disturbed, untold>>

\* refused later on, by the scan or a conflict
PublishFails(u) ==
    /\ Enters(u, "accepted", "failed")
    /\ UNCHANGED <<used, sizeCache, minute, brings, arrived, least, most, disturbed,
                   untold>>

\* the rollback of the publish
TakeBack(u) ==
    /\ Enters(u, "stored", "failed") /\ Shrinks(brings[u])
    /\ UNCHANGED <<sizeCache, minute, brings, arrived, disturbed, untold>>

FaultyPublished(u) ==
    /\ Enters(u, "stored", "published")
    /\ UNCHANGED <<used, sizeCache, minute, brings, arrived, least, most, disturbed,
                   untold>>

\* "drop the cached storage size so the quota accounts for this tarball"
Published(u) ==
    /\ Enters(u, "stored", "published")
    /\ sizeCache' = NoMeasure
    /\ UNCHANGED <<used, minute, brings, arrived, least, most, disturbed, untold>>

UntoldGrowth ==
    /\ untold < MaxUntold /\ untold' = untold + 1
    /\ \E n \in Sizes : Grows(n)
    /\ disturbed' = minute
    /\ UNCHANGED <<sizeCache, minute, brings, gate, arrived>>

\* a read caches a tarball of an uplink
CacheTarball == UntoldGrowth

\* npm stage publish stores its tarball beside the packages, where the
\* measurement finds it, until it is approved or rejected
StageTarball == UntoldGrowth

\* an unpublish, the retention sweep, or the end of a staged version; not of
\* a tarball that is being published
RemoveTarball ==
    /\ untold < MaxUntold /\ untold' = untold + 1
    /\ \E n \in Sizes : n <= used /\ Shrinks(n)
    /\ UNCHANGED <<sizeCache, minute, brings, gate, arrived, disturbed>>

MinutePasses ==
    /\ minute < QuotaEnd /\ minute' = minute + 1
    /\ UNCHANGED <<used, sizeCache, brings, gate, arrived, least, most, disturbed,
                   untold>>

QuotaNext ==
    \/ \E u \in Upload :
          \/ AssertStorageQuota(u) \/ Measured(u) \/ StoreTarball(u)
          \/ PublishFails(u) \/ TakeBack(u) \/ Published(u)
    \/ CacheTarball \/ StageTarball \/ RemoveTarball \/ MinutePasses

QuotaSpec == QuotaInit /\ [][QuotaNext]_quotaVars

-----------------------------------------------------------------------------
\* A publish leaves the storage within the quota if, from one lifetime of the
\* cached measurement before it came, no two publishes met, no read cached a
\* tarball and no version was staged: an older measurement never lets it in,
\* and one that was taken before another publish was stored is dropped.
QuotaIsKept ==
    \A u \in Upload :
        gate[u] = "stored" /\ disturbed + CacheTtl < arrived[u] => used <= Quota
=============================================================================
