--------------------------- MODULE TokenDatabase ----------------------------
(***************************************************************************)
(* The token database of the local storage plugin: getTokenDb, saveToken,  *)
(* deleteToken and readTokens of packages/plugins/local-storage/src/       *)
(* local-database.ts.  The rows of the users (access tokens, login         *)
(* sessions, two-factor records) are kept in memory once the file was read *)
(* and the whole file is written after every change.                       *)
(*                                                                         *)
(* The database is there, empty, before its file is read: calls that come  *)
(* while it is read work on the empty database, and a reading that throws  *)
(* leaves it to all that follow.  What may be lost then is recorded call   *)
(* by call in the history variable exposed.                                *)
(*                                                                         *)
(* lowdb is external: its writer replaces the file by a rename, writes one *)
(* snapshot at a time and keeps only the newest of those that wait.        *)
(*                                                                         *)
(* Operators named Faulty... are wrong variants of the operator that       *)
(* follows them; no action uses them.                                      *)
(***************************************************************************)
EXTENDS Naturals, FiniteSets

CONSTANTS
    TokenCall,   \* calls of saveToken, deleteToken and readTokens
    TokenUser, RowKey,
    NoSnapshot,
    CallOps,     \* what the calls may ask for
    MaxRestarts, MaxWriteErrors, MaxReadErrors

CallOp == [kind : {"save", "delete", "read"}, user : TokenUser, key : RowKey]

\* a row remembers the call that saved it; TokenCall \cup {NoSnapshot}: saved long ago
TokenRow == [user : TokenUser, key : RowKey, by : TokenCall \cup {NoSnapshot}]
\* the users that have an array of rows, if only an empty one
Snapshot == [users : SUBSET TokenUser, rows : SUBSET TokenRow]
NoRows == [users |-> {}, rows |-> {}]

ASSUME TokenAssumption ==
    /\ CallOps \subseteq CallOp
    /\ NoSnapshot \notin TokenCall /\ NoSnapshot \notin Snapshot
    /\ \A S \in SUBSET TokenRow : S # NoSnapshot
    /\ MaxRestarts \in Nat /\ MaxWriteErrors \in Nat /\ MaxReadErrors \in Nat

VARIABLES
    tokenDb,     \* "none", "loading" or "ready": this.tokenDb and its read()
    mem,         \* tokenDb.data
    file,        \* .token-db.json; a missing file is one without rows
    fileRead,    \* what the reading found in it, NoSnapshot before it found anything
    writing,     \* the snapshot lowdb writes now, NoSnapshot if it writes nothing
    waiting,     \* the snapshot it writes next, NoSnapshot if there is none
    call,        \* what each call asks for
    at,          \* where each call is
    gone,        \* rows each delete took out
    restarts, writeErrors, readErrors,
    early,       \* history: a row was changed before the file was read, since the start
    exposed      \* history: calls whose rows may be lost with an empty database

tokenVars == <<tokenDb, mem, file, fileRead, writing, waiting, call, at, gone,
               restarts, writeErrors, readErrors, early, exposed>>

CallPlace == {"new", "loading", "got", "written", "queued", "stored",
              "answered", "failed", "dropped"}

TokenInit ==
    /\ tokenDb = "none"
    /\ mem = NoRows
    /\ file \in Snapshot
    /\ \A x \in file.rows : x.by = NoSnapshot /\ x.user \in file.users
    /\ fileRead = NoSnapshot /\ writing = NoSnapshot /\ waiting = NoSnapshot
    /\ call \in [TokenCall -> CallOps]
    /\ at = [c \in TokenCall |-> "new"]
    /\ gone = [c \in TokenCall |-> {}]
    /\ restarts = 0 /\ writeErrors = 0 /\ readErrors = 0
    /\ early = FALSE /\ exposed = {}

RowOf(c) == [user |-> call[c].user, key |-> call[c].key, by |-> c]
Matches(x, c) == x.user = call[c].user /\ x.key = call[c].key
With(data, c) == [users |-> data.users \cup {call[c].user},
                  rows |-> data.rows \cup {RowOf(c)}]
Without(data, c) == [data EXCEPT !.rows = {x \in @ : ~Matches(x, c)}]
Moved(c, from, to) == at[c] = from /\ at' = [at EXCEPT ![c] = to]

-----------------------------------------------------------------------------
(* getTokenDb: the first call makes the database, empty, and reads the     *)
(* file into it; the others get the database as it is                      *)

\* saves that are in memory or in the file, or on their way there
Promised == {d \in TokenCall : call[d].kind = "save"
                 /\ at[d] \in {"written", "queued", "stored", "answered"}}

GetTokenDb(c) ==
    /\ IF tokenDb = "none"
       THEN tokenDb' = "loading" /\ mem' = NoRows /\ Moved(c, "new", "loading")
       ELSE UNCHANGED <<tokenDb, mem>> /\ Moved(c, "new", "got")
    /\ UNCHANGED <<file, fileRead, writing, waiting, call, gone, restarts, writeErrors,
                   readErrors, early, exposed>>

ReadTokenFile(c) ==
    /\ at[c] = "loading" /\ fileRead = NoSnapshot /\ fileRead' = file
    /\ UNCHANGED <<tokenDb, mem, file, writing, waiting, call, at, gone, restarts,
                   writeErrors, readErrors, early, exposed>>

FaultyLoadTokens(c) ==
    /\ fileRead # NoSnapshot /\ fileRead' = NoSnapshot
    /\ Moved(c, "loading", "got") /\ tokenDb' = "ready"
    /\ UNCHANGED <<mem, file, writing, waiting, call, gone, restarts, writeErrors,
                   readErrors, early, exposed>>

\* read() sets the data, but for a missing file
LoadTokens(c) ==
    /\ fileRead # NoSnapshot /\ fileRead' = NoSnapshot
    /\ Moved(c, "loading", "got") /\ tokenDb' = "ready"
    /\ mem' = fileRead \/ (fileRead = NoRows /\ mem' = mem)
    /\ UNCHANGED <<file, writing, waiting, call, gone, restarts, writeErrors,
                   readErrors, early, exposed>>

\* read() throws: this call rejects, the empty database stays for the others
LoadFails(c) ==
    /\ readErrors < MaxReadErrors /\ readErrors' = readErrors + 1
    /\ fileRead = NoSnapshot
    /\ Moved(c, "loading", "failed") /\ tokenDb' = "ready"
    /\ exposed' = exposed \cup Promised
    /\ UNCHANGED <<mem, file, fileRead, writing, waiting, call, gone, restarts,
                   writeErrors, early>>

\* db.write() of call c: written at once, or instead of what waits
FaultyWrite(c, data) ==
    IF writing = NoSnapshot
    THEN writing' = data /\ UNCHANGED waiting /\ Moved(c, "got", "written")
    ELSE /\ waiting' = IF waiting = NoSnapshot THEN data ELSE waiting
         /\ UNCHANGED writing /\ Moved(c, "got", "queued")

Write(c, data) ==
    IF writing = NoSnapshot
    THEN writing' = data /\ UNCHANGED waiting /\ Moved(c, "got", "written")
    ELSE waiting' = data /\ UNCHANGED writing /\ Moved(c, "got", "queued")

\* history: a change of a database whose file is not read yet may lose, with
\* what it writes, the rows of the file, and its own with what is then read
Noted(c) ==
    IF tokenDb = "loading"
    THEN early' = TRUE /\ exposed' = exposed \cup Promised \cup {c}
    ELSE UNCHANGED <<early, exposed>>

SaveToken(c) ==
    /\ call[c].kind = "save"
    /\ mem' = With(mem, c) /\ Write(c, mem') /\ Noted(c)
    /\ UNCHANGED <<tokenDb, file, fileRead, call, gone, restarts, writeErrors, readErrors>>

\* every row of that user and key; rejects for a user without an array
DeleteToken(c) ==
    /\ call[c].kind = "delete"
    /\ IF call[c].user \notin mem.users
       THEN /\ Moved(c, "got", "failed")
            /\ UNCHANGED <<mem, gone, writing, waiting, early, exposed>>
       ELSE /\ mem' = Without(mem, c)
            /\ gone' = [gone EXCEPT ![c] = mem.rows \ mem'.rows]
            /\ Write(c, mem') /\ Noted(c)
    /\ UNCHANGED <<tokenDb, file, fileRead, call, restarts, writeErrors, readErrors>>

ReadTokens(c) ==
    /\ call[c].kind = "read" /\ Moved(c, "got", "answered")
    /\ UNCHANGED <<tokenDb, mem, file, fileRead, writing, waiting, call, gone, restarts,
                   writeErrors, readErrors, early, exposed>>

\* a write ended: its calls go on, and the snapshot that waits is next
Settled(outcome) ==
    /\ writing # NoSnapshot
    /\ writing' = waiting /\ waiting' = NoSnapshot
    /\ at' = [c \in TokenCall |-> IF at[c] = "written" THEN outcome
                             ELSE IF at[c] = "queued" THEN "written" ELSE at[c]]

WriteDone ==
    /\ file' = writing /\ Settled("stored")
    /\ UNCHANGED <<tokenDb, mem, fileRead, call, gone, restarts, writeErrors, readErrors,
                   early, exposed>>

\* the file cannot be written: memory keeps what the call changed
WriteFails ==
    /\ writeErrors < MaxWriteErrors /\ writeErrors' = writeErrors + 1
    /\ Settled("failed")
    /\ UNCHANGED <<tokenDb, mem, file, fileRead, call, gone, restarts, readErrors, early,
                   exposed>>

TokenAnswer(c) ==
    /\ Moved(c, "stored", "answered")
    /\ UNCHANGED <<tokenDb, mem, file, fileRead, writing, waiting, call, gone, restarts,
                   writeErrors, readErrors, early, exposed>>

InFlight(c) == at[c] \notin {"new", "answered", "failed", "dropped"}

\* the process dies and starts again: only the file is left
TokenRestart ==
    /\ restarts < MaxRestarts /\ restarts' = restarts + 1
    /\ tokenDb' = "none" /\ mem' = NoRows /\ early' = FALSE
    /\ fileRead' = NoSnapshot /\ writing' = NoSnapshot /\ waiting' = NoSnapshot
    /\ at' = [c \in TokenCall |-> IF InFlight(c) THEN "dropped" ELSE at[c]]
    /\ UNCHANGED <<file, call, gone, writeErrors, readErrors, exposed>>

TokenStep(c) ==
    \/ GetTokenDb(c) \/ ReadTokenFile(c) \/ LoadTokens(c) \/ LoadFails(c)
    \/ SaveToken(c) \/ DeleteToken(c) \/ ReadTokens(c) \/ TokenAnswer(c)

TokenNext ==
    \/ \E c \in TokenCall : TokenStep(c)
    \/ WriteDone \/ WriteFails \/ TokenRestart

TokenSpec == TokenInit /\ [][TokenNext]_tokenVars

-----------------------------------------------------------------------------
TokenTypeOK ==
    /\ tokenDb \in {"none", "loading", "ready"}
    /\ mem \in Snapshot /\ file \in Snapshot /\ fileRead \in Snapshot \cup {NoSnapshot}
    /\ writing \in Snapshot \cup {NoSnapshot} /\ waiting \in Snapshot \cup {NoSnapshot}
    /\ call \in [TokenCall -> CallOp] /\ at \in [TokenCall -> CallPlace]
    /\ gone \in [TokenCall -> SUBSET TokenRow]
    /\ restarts \in 0..MaxRestarts /\ writeErrors \in 0..MaxWriteErrors
    /\ readErrors \in 0..MaxReadErrors
    /\ early \in BOOLEAN /\ exposed \subseteq TokenCall

Answered(kind) == {c \in TokenCall : at[c] = "answered" /\ call[c].kind = kind}
Deleted == UNION {gone[c] : c \in TokenCall}

\* A row whose saving was answered stays, over crashes too, unless a delete
\* took it out: saveToken answers once a file with the row is written.  Only
\* the rows saved before a reading that throws, or before a change of a
\* database whose file was not read yet, are without this promise.
SavedTokensStay ==
    \A c \in Answered("save") \ exposed :
        RowOf(c) \in Deleted \/
            /\ RowOf(c) \in file.rows
            /\ tokenDb = "ready" => RowOf(c) \in mem.rows

\* A row whose deletion was answered does not come back, neither with a
\* snapshot that was waiting to be written, nor after a crash, nor after a
\* reading that throws; a deletion made before the file was read may be undone.
DeletedTokensStayAway ==
    \A c \in Answered("delete") \ exposed :
        gone[c] \cap (mem.rows \cup file.rows) = {}

\* The rows of the file follow the answers.
TokensAreKept == SavedTokensStay /\ DeletedTokensStayAway

\* What readers see is memory once there is one to see, and the file before.
Seen == IF tokenDb = "ready" \/ early THEN mem.rows ELSE file.rows
OnItsWay == IF writing = NoSnapshot THEN NoSnapshot ELSE writing.rows

\* The database keeps the promise of DurableRows.
Durable == INSTANCE DurableRows WITH
    Rows <- TokenRow, Idle <- NoSnapshot,
    rows <- Seen, flight <- OnItsWay, safe <- file.rows, kept <- ~early
KeepsRows == Durable!Spec
=============================================================================
