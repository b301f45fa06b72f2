--------------------------- MODULE DownloadStats ----------------------------
(***************************************************************************)
(* The download counters of the local storage plugin:                      *)
(* recordPackageDownload, flushDownloads, getPackageDownloads and          *)
(* deletePackageStats of packages/plugins/local-storage/src/               *)
(* local-database.ts.  Downloads are counted in memory and moved to the    *)
(* statistics database by a timer and by reads.  The days of a package are *)
(* one counter here.                                                       *)
(*                                                                         *)
(* A visit is one call: the flush of a timer, a read or a deletion; it     *)
(* awaits getStatsDb and the writing of the file.  lowdb is external (see  *)
(* TokenDatabase); its writer keeps the newest snapshot, so a write is one *)
(* step here.                                                              *)
(***************************************************************************)
EXTENDS Naturals

CONSTANTS
    Visit,             \* calls that come to the statistics database
    Counted,           \* packages
    NoVisit,
    VisitOps,          \* what the visits may be
    FirstVisitsOverlap,\* a second visit may come while the file is first read
    MaxDownloads, MaxStatsStops

\* "timer" visits come from the timer, the others from requests
VisitOp == [kind : {"timer", "read", "delete"}, package : Counted]

ASSUME StatsAssumption ==
    /\ VisitOps \subseteq VisitOp /\ NoVisit \notin Visit
    /\ MaxDownloads \in Nat /\ MaxStatsStops \in Nat

VARIABLES
    pending,    \* pendingDownloads
    timer,      \* statsFlushTimer is set
    statsDb,    \* "none", "loading" or "ready"
    loader,     \* the visit that reads the file, NoVisit if none does
    stats,      \* statsDb.data.packages
    statsFile,  \* .stats-db.json
    visit,      \* what each visit is
    step,       \* where it is
    downloads,  \* recorded since the counters of the package were deleted
    floor,      \* of each read: downloads of its package when it came
    result,     \* what each read answered
    statsStops

statsVars == <<pending, timer, statsDb, loader, stats, statsFile, visit, step,
               downloads, floor, result, statsStops>>

NoCount == [p \in Counted |-> 0]
Plus(f, g) == [p \in Counted |-> f[p] + g[p]]

StatsInit ==
    /\ pending = NoCount /\ timer = FALSE
    /\ statsDb = "none" /\ loader = NoVisit /\ stats = NoCount
    /\ statsFile \in [Counted -> {0, 1}]
    /\ visit \in [Visit -> VisitOps]
    /\ step = [i \in Visit |-> "new"]
    /\ downloads = statsFile
    /\ floor = [i \in Visit |-> 0] /\ result = [i \in Visit |-> 0]
    /\ statsStops = 0

Goes(i, from, to) == step[i] = from /\ step' = [step EXCEPT ![i] = to]

\* a tarball was downloaded; the timer is set unless it is
RecordPackageDownload(p) ==
    /\ downloads[p] < MaxDownloads
    /\ downloads' = [downloads EXCEPT ![p] = @ + 1]
    /\ pending' = [pending EXCEPT ![p] = @ + 1]
    /\ timer' = TRUE
    /\ UNCHANGED <<statsDb, loader, stats, statsFile, visit, step, floor,
                   result, statsStops>>

\* the timer, or a read; without downloads there is nothing to flush
FlushBegins(i) ==
    /\ visit[i].kind # "delete"
    /\ IF visit[i].kind = "timer" THEN timer /\ timer' = FALSE
                                  ELSE UNCHANGED timer
    /\ Goes(i, "new", IF pending # NoCount THEN "flush"
                      ELSE IF visit[i].kind = "read" THEN "look" ELSE "ended")
    /\ floor' = [floor EXCEPT ![i] = downloads[visit[i].package]]
    /\ UNCHANGED <<pending, statsDb, loader, stats, statsFile, visit, downloads,
                   result, statsStops>>

\* what is deleted is nobody's download any more
Forget(p, n) ==
    /\ downloads' = [downloads EXCEPT ![p] = @ - n]
    /\ floor' = [i \in Visit |-> IF visit[i].package = p THEN 0 ELSE floor[i]]

\* deletePackageStats: the pending counters go at once
DeleteBegins(i) ==
    /\ visit[i].kind = "delete" /\ Goes(i, "new", "drop")
    /\ pending' = [pending EXCEPT ![visit[i].package] = 0]
    /\ Forget(visit[i].package, pending[visit[i].package])
    /\ UNCHANGED <<timer, statsDb, loader, stats, statsFile, visit, result,
                   statsStops>>

\* getStatsDb: the first visit makes the database, empty, and reads the file
OpenStatsDb(i) ==
    /\ step[i] \in {"flush", "look", "drop"} /\ statsDb = "none"
    /\ statsDb' = "loading" /\ loader' = i /\ stats' = NoCount
    /\ UNCHANGED <<pending, timer, statsFile, visit, step, downloads, floor,
                   result, statsStops>>

LoadStats(i) ==
    /\ loader = i
    /\ statsDb' = "ready" /\ loader' = NoVisit /\ stats' = statsFile
    /\ UNCHANGED <<pending, timer, statsFile, visit, step, downloads, floor,
                   result, statsStops>>

\* getStatsDb returned; the others get the database as it is
HasStatsDb(i) ==
    /\ statsDb # "none" /\ loader # i
    /\ FirstVisitsOverlap \/ statsDb = "ready"

\* one stretch without an await: merge, forget the pending ones, write
FaultyFlush(i) ==
    /\ HasStatsDb(i)
    /\ Goes(i, "flush", IF visit[i].kind = "read" THEN "look" ELSE "ended")
    /\ stats' = Plus(stats, pending) /\ statsFile' = stats'
    /\ UNCHANGED <<pending, timer, statsDb, loader, visit, downloads, floor,
                   result, statsStops>>

Flush(i) ==
    /\ HasStatsDb(i)
    /\ Goes(i, "flush", IF visit[i].kind = "read" THEN "look" ELSE "ended")
    /\ stats' = Plus(stats, pending) /\ statsFile' = stats'
    /\ pending' = NoCount
    /\ UNCHANGED <<timer, statsDb, loader, visit, downloads, floor, result,
                   statsStops>>

GetPackageDownloads(i) ==
    /\ HasStatsDb(i) /\ Goes(i, "look", "ended")
    /\ result' = [result EXCEPT ![i] = stats[visit[i].package]]
    /\ UNCHANGED <<pending, timer, statsDb, loader, stats, statsFile, visit,
                   downloads, floor, statsStops>>

DeletePackageStats(i) ==
    /\ HasStatsDb(i) /\ Goes(i, "drop", "ended")
    /\ stats' = [stats EXCEPT ![visit[i].package] = 0] /\ statsFile' = stats'
    /\ Forget(visit[i].package, stats[visit[i].package])
    /\ UNCHANGED <<pending, timer, statsDb, loader, visit, result, statsStops>>

\* the process ends and starts again; what was not flushed is not counted
StatsRestart ==
    /\ statsStops < MaxStatsStops /\ statsStops' = statsStops + 1
    /\ pending' = NoCount /\ timer' = FALSE
    /\ statsDb' = "none" /\ loader' = NoVisit /\ stats' = NoCount
    /\ step' = [i \in Visit |-> IF step[i] = "new" THEN "new" ELSE "ended"]
    /\ result' = [i \in Visit |-> 0] /\ floor' = result'
    /\ downloads' = statsFile
    /\ UNCHANGED <<statsFile, visit>>

StatsStep(i) ==
    \/ FlushBegins(i) \/ DeleteBegins(i) \/ OpenStatsDb(i) \/ LoadStats(i)
    \/ Flush(i) \/ GetPackageDownloads(i) \/ DeletePackageStats(i)

StatsNext ==
    \/ \E p \in Counted : RecordPackageDownload(p)
    \/ \E i \in Visit : StatsStep(i)
    \/ StatsRestart

StatsSpec == StatsInit /\ [][StatsNext]_statsVars

-----------------------------------------------------------------------------
\* Every download is counted exactly once, in the pending counters or in the
\* statistics, while flushes, reads and deletions overlap: the merge and the
\* dropping of the pending counters are one stretch after the await.
CountedOnce ==
    \A p \in Counted :
        downloads[p] =
            pending[p] + (IF statsDb = "ready" THEN stats ELSE statsFile)[p]

\* Downloads that wait have a timer or a flush to come, so they reach the
\* file without another download or a read.
PendingIsScheduled ==
    pending # NoCount => timer \/ \E i \in Visit : step[i] = "flush"

\* A read answers at least what was downloaded before it came: it flushes, or
\* waits for the statistics another flush has merged into.
ReadsAreCurrent ==
    \A i \in Visit :
        visit[i].kind = "read" /\ step[i] = "ended" => result[i] >= floor[i]

\* No download is lost, counted twice, forgotten in memory or left out of a
\* read.
DownloadsAreKept == CountedOnce /\ PendingIsScheduled /\ ReadsAreCurrent
=============================================================================
