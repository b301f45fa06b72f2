-------------------------- MODULE TarballDownload --------------------------
(***************************************************************************)
(* Clients download one tarball: getTarball, getTarballFromUpstream and    *)
(* fetchTarballFromDistFile of packages/store/src/storage.ts, the route of *)
(* packages/api/src/package.ts, writeTarball and readTarball of            *)
(* packages/plugins/local-storage/src/local-fs.ts.                         *)
(*                                                                         *)
(* Each client has its own request, download and temporary file; they      *)
(* share the file under its final name.  A file or a body is the number of *)
(* its chunks.                                                             *)
(***************************************************************************)
EXTENDS Integers

CONSTANTS
    Client,
    Size,          \* of the tarball
    Absent,
    Caching,       \* `cache` of the uplink may be
    Framing,       \* how an uplink may end a body: "length" is announced,
                   \* "chunked" shows a cut, "close" does not
    MaxDiskFaults, \* bounds on disk errors,
    MaxRemovals,   \* removals of the tarball
    MaxDeaths      \* and ends of the process

ASSUME DownloadAssumption ==
    Size \in Nat \ {0} /\ Absent \notin Nat /\ Caching \subseteq BOOLEAN

VARIABLES
    caching,    \* proxy.config.cache
    tarball,    \* the file under its final name
    client,     \* what the client sees of its request
    received,   \* chunks the client has been sent
    opened,     \* chunks of the local file it reads
    framing,    \* how its uplink ends the body; "none" yet, or "over"
    writer,     \* where its writeTarball is
    failed,     \* its flag
    temp,       \* its temporary file
    diskFaults, removals, deaths

downloadVars == <<caching, tarball, client, received, opened, framing, writer, failed,
                  temp, diskFaults, removals, deaths>>
input == <<opened, framing>>
counters == <<diskFaults, removals, deaths>>

DownloadInit ==
    /\ caching \in Caching /\ tarball \in {Absent, Size}
    /\ client = [c \in Client |-> "new"]
    /\ received = [c \in Client |-> 0]
    /\ opened = [c \in Client |-> Absent]
    /\ framing = [c \in Client |-> "none"]
    /\ writer = [c \in Client |-> "none"]
    /\ failed = [c \in Client |-> FALSE]
    /\ temp = [c \in Client |-> Absent]
    /\ diskFaults = 0 /\ removals = 0 /\ deaths = 0

ClientGoes(c, from, to) == client[c] = from /\ client' = [client EXCEPT ![c] = to]
WriterGoes(c, from, to) == writer[c] = from /\ writer' = [writer EXCEPT ![c] = to]
DiskFault == diskFaults < MaxDiskFaults /\ diskFaults' = diskFaults + 1

Waiting == {"new", "local", "asking", "fetching", "streaming", "draining"}
\* states of a writer that has a stream to destroy, and that goes on to 'close'
Writing == {"opening", "open", "finishing"}
IfWaiting(c, to) == IF client[c] \in Waiting THEN to ELSE client[c]

-----------------------------------------------------------------------------
(* The local file *)

\* readTarball; ENOENT turns to the uplinks
OpenLocal(c) ==
    /\ ClientGoes(c, "new", IF tarball = Absent THEN "asking" ELSE "local")
    /\ opened' = [opened EXCEPT ![c] = tarball]
    /\ UNCHANGED <<caching, tarball, received, framing, writer, failed, temp, counters>>

\* the descriptor is of the file that was opened, whatever has its name now
ServeLocal(c) ==
    /\ ClientGoes(c, "local", "ok")
    /\ received' = [received EXCEPT ![c] = opened[c]]
    /\ UNCHANGED <<caching, tarball, input, writer, failed, temp, counters>>

\* an error of the stream is logged, and destroys the response
LocalBreaks(c) ==
    /\ DiskFault
    /\ ClientGoes(c, "local", "error")
    /\ UNCHANGED <<caching, tarball, received, input, writer, failed, temp, removals,
                   deaths>>

-----------------------------------------------------------------------------
(* The uplink; what goes on here goes on when the client has left *)

\* the url of the tarball, and an uplink that serves it: found, or the error
FindUplink(c) ==
    /\ \/ ClientGoes(c, "asking", "fetching") \/ ClientGoes(c, "asking", "error")
    /\ UNCHANGED <<caching, tarball, received, input, writer, failed, temp, counters>>

BadStatus(c) ==
    /\ ClientGoes(c, "fetching", "error")
    /\ UNCHANGED <<caching, tarball, received, input, writer, failed, temp, counters>>

\* 'response': a client that left while it waited has its download begin and
\* end when its pipeline starts
Response(c) ==
    /\ \/ ClientGoes(c, "fetching", "streaming")
       \/ client[c] = "left" /\ framing[c] = "none" /\ UNCHANGED client
    /\ WriterGoes(c, "none", IF caching THEN "folder" ELSE "none")
    /\ \E f \in Framing : framing' = [framing EXCEPT ![c] = f]
    /\ UNCHANGED <<caching, tarball, received, opened, failed, temp, counters>>

\* checkCreateFolder; the listener of 'abort' is added after it, but the
\* pipeline looks at the signal itself
FolderReady(c) ==
    /\ WriterGoes(c, "folder", "opening")
    /\ failed' = [failed EXCEPT ![c] = @ \/ client[c] = "left"]
    /\ UNCHANGED <<caching, tarball, client, received, input, temp, counters>>

FolderFails(c) ==
    /\ DiskFault
    /\ WriterGoes(c, "folder", "done")
    /\ client' = [client EXCEPT ![c] = IfWaiting(c, "error")]
    /\ UNCHANGED <<caching, tarball, received, input, failed, temp, removals, deaths>>

\* a stream that is destroyed before it is open is opened, then closed
TempOpened(c) ==
    /\ WriterGoes(c, "opening", IF failed[c] THEN "finishing" ELSE "open")
    /\ temp' = [temp EXCEPT ![c] = 0]
    /\ UNCHANGED <<caching, tarball, client, received, input, failed, counters>>

OpenFails(c) ==
    /\ DiskFault
    /\ WriterGoes(c, "opening", "done")
    /\ failed' = [failed EXCEPT ![c] = TRUE]
    /\ client' = [client EXCEPT ![c] = IfWaiting(c, "error")]
    /\ UNCHANGED <<caching, tarball, received, input, temp, removals, deaths>>

Flows(c) ==
    /\ client[c] = "streaming" /\ ~failed[c]
    /\ writer[c] = IF caching THEN "open" ELSE "none"

Chunk(c) ==
    /\ Flows(c) /\ received[c] < Size
    /\ received' = [received EXCEPT ![c] = @ + 1]
    /\ temp' = IF caching THEN [temp EXCEPT ![c] = @ + 1] ELSE temp
    /\ UNCHANGED <<caching, tarball, client, input, writer, failed, counters>>

\* the pipelines destroy every stream with the error; the response is destroyed
Breaks(c) ==
    /\ client' = [client EXCEPT ![c] = IfWaiting(c, "error")]
    /\ failed' = [failed EXCEPT ![c] = TRUE]
    /\ writer' = [writer EXCEPT ![c] = IF @ = "open" THEN "finishing" ELSE @]
    /\ UNCHANGED <<caching, tarball, received, input, temp>>

\* the connection breaks: an error of the remote stream
ConnectionBreaks(c) ==
    client[c] = "streaming" /\ ~failed[c] /\ Breaks(c) /\ UNCHANGED counters

\* 'end'; a body shorter than what was announced is an error
BodyEnds(c) ==
    /\ Flows(c) /\ UNCHANGED counters
    /\ IF received[c] < Size /\ framing[c] # "close"
       THEN framing[c] = "length" /\ Breaks(c)
       ELSE /\ ClientGoes(c, "streaming", "draining")
            /\ writer' = [writer EXCEPT ![c] = IF caching THEN "finishing" ELSE @]
            /\ UNCHANGED <<caching, tarball, received, input, failed, temp>>

\* a write fails
WriteToDiskFails(c) ==
    /\ writer[c] = "open" /\ ~failed[c]
    /\ DiskFault /\ Breaks(c) /\ UNCHANGED <<removals, deaths>>

\* or the last one, when the client may have got everything
LastWriteFails(c) ==
    /\ writer[c] = "finishing" /\ ~failed[c]
    /\ DiskFault
    /\ failed' = [failed EXCEPT ![c] = TRUE]
    /\ client' \in {client, [client EXCEPT ![c] = IfWaiting(c, "error")]}
    /\ UNCHANGED <<caching, tarball, received, input, writer, temp, removals, deaths>>

-----------------------------------------------------------------------------
(* The client's end, and the file's *)

\* the response has ended: a 'close' after that aborts nothing
ResponseEnds(c) ==
    /\ ClientGoes(c, "draining", "ok")
    /\ UNCHANGED <<caching, tarball, received, input, writer, failed, temp, counters>>

\* the signal: the flag is set wherever a stream listens
Disconnects(c) ==
    /\ client[c] \in Waiting \ {"new"}
    /\ client' = [client EXCEPT ![c] = "left"]
    /\ failed' = [failed EXCEPT ![c] = @ \/ writer[c] \in Writing]
    /\ writer' = [writer EXCEPT ![c] = IF @ = "open" THEN "finishing" ELSE @]
    \* a local stream is destroyed; a request that waits for the uplink goes on
    /\ framing' = [framing EXCEPT ![c] = IF client[c] = "local" THEN "over" ELSE @]
    /\ UNCHANGED <<caching, tarball, received, opened, temp, counters>>

FaultyStreamClosed(c) ==
    /\ WriterGoes(c, "finishing", "closed")
    /\ UNCHANGED <<caching, tarball, client, received, input, failed, temp, counters>>

\* 'close': a failed download never gets its final name
StreamClosed(c) ==
    /\ WriterGoes(c, "finishing", IF failed[c] THEN "done" ELSE "closed")
    /\ temp' = IF failed[c] THEN [temp EXCEPT ![c] = Absent] ELSE temp
    /\ UNCHANGED <<caching, tarball, client, received, input, failed, counters>>

Renamed(c) ==
    /\ WriterGoes(c, "closed", "done")
    /\ tarball' = temp[c] /\ temp' = [temp EXCEPT ![c] = Absent]
    /\ UNCHANGED <<caching, client, received, input, failed, counters>>

\* renameTmp drops the temporary file
RenameFails(c) ==
    /\ DiskFault
    /\ WriterGoes(c, "closed", "done") /\ temp' = [temp EXCEPT ![c] = Absent]
    /\ UNCHANGED <<caching, tarball, client, received, input, failed, removals, deaths>>

\* an unpublish, or the retention sweep
TarballRemoved ==
    /\ removals < MaxRemovals /\ removals' = removals + 1
    /\ tarball # Absent /\ tarball' = Absent
    /\ UNCHANGED <<caching, client, received, input, writer, failed, temp, diskFaults, deaths>>

\* what a download had written stays under its temporary name
ProcessDies ==
    /\ deaths < MaxDeaths /\ deaths' = deaths + 1
    /\ client' = [c \in Client |-> IF client[c] \in Waiting \ {"new"} THEN "lost"
                                   ELSE client[c]]
    /\ framing' = [c \in Client |-> IF client[c] = "left" THEN "over" ELSE framing[c]]
    /\ writer' = [c \in Client |-> IF writer[c] \in {"none", "done"} THEN writer[c]
                                   ELSE "dead"]
    /\ UNCHANGED <<caching, tarball, received, opened, failed, temp, diskFaults, removals>>

DownloadNext ==
    \/ \E c \in Client :
          \/ OpenLocal(c) \/ ServeLocal(c) \/ LocalBreaks(c)
          \/ FindUplink(c) \/ BadStatus(c) \/ Response(c)
          \/ FolderReady(c) \/ FolderFails(c) \/ TempOpened(c) \/ OpenFails(c)
          \/ Chunk(c) \/ ConnectionBreaks(c) \/ BodyEnds(c)
          \/ WriteToDiskFails(c) \/ LastWriteFails(c) \/ ResponseEnds(c) \/ Disconnects(c)
          \/ StreamClosed(c) \/ Renamed(c) \/ RenameFails(c)
    \/ TarballRemoved \/ ProcessDies

DownloadSpec == DownloadInit /\ [][DownloadNext]_downloadVars

-----------------------------------------------------------------------------
\* Whatever breaks, leaves or overlaps, the file under the tarball's name is
\* whole and so is what a client takes for the tarball; no writer leaves its
\* temporary file behind unless the process dies; and a client that has got
\* everything does not undo the copy when it closes the connection.
TarballIsWhole ==
    /\ tarball \in {Absent, Size}
    /\ \A c \in Client :
          /\ client[c] = "ok" => received[c] = Size
          /\ writer[c] = "done" => temp[c] = Absent
          /\ client[c] = "ok" /\ failed[c] => diskFaults > 0
=============================================================================
