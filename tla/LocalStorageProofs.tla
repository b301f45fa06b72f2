------------------------- MODULE LocalStorageProofs -------------------------
(***************************************************************************)
(* Theorems about the databases of the local storage plugin.               *)
(*                                                                         *)
(* TokenDatabase: the rows of the file follow the answers for any calls,   *)
(* users, keys, restarts, read and write errors, and the database          *)
(* implements DurableRows.  What makes TokensAreKept inductive is where    *)
(* the row of a call that is not exposed has to be: in memory, in what was *)
(* read of the file, in the snapshot that waits, in the one that is        *)
(* written and in the file, each from one place of the call on.            *)
(*                                                                         *)
(* DownloadStats: no download is lost, counted twice, forgotten in memory  *)
(* or left out of a read, for any packages, visits, downloads and          *)
(* restarts, when no second visit comes while the statistics are first     *)
(* read.  The invariant adds that the statistics in memory are those of    *)
(* the file, and that a read on its way has its downloads before it.       *)
(*                                                                         *)
(* PackageList: the file keeps the list, for any packages, updates,        *)
(* failing writings and crashes.                                           *)
(***************************************************************************)
EXTENDS TokenDatabase, DownloadStats, PackageList, TLAPS

-----------------------------------------------------------------------------
(* The token database *)


Early == {"new", "loading", "got"}
Later == {"written", "queued", "stored", "answered"}

OneLoader ==
    /\ tokenDb # "loading" =>
          fileRead = NoSnapshot /\ \A c \in TokenCall : at[c] # "loading"
    /\ \A c, d \in TokenCall : at[c] = "loading" /\ at[d] = "loading" => c = d
    /\ tokenDb = "none" =>
          ~early /\ \A c \in TokenCall : at[c] \notin {"got", "written", "queued", "stored"}
    /\ tokenDb # "ready" /\ ~early => mem = NoRows /\ writing = NoSnapshot
    /\ fileRead # NoSnapshot /\ ~early => fileRead = file
    /\ tokenDb = "loading" =>
          \A c \in TokenCall : at[c] \in {"written", "queued", "stored"} => c \in exposed

NewestWaits ==
    /\ waiting # NoSnapshot => writing # NoSnapshot
    /\ ~early /\ waiting # NoSnapshot => waiting = mem
    /\ ~early /\ writing # NoSnapshot /\ waiting = NoSnapshot => writing = mem

Known(x) == x.by # NoSnapshot => at[x.by] \notin Early

RowsAreKnown ==
    /\ \A x \in mem.rows : Known(x)
    /\ \A x \in file.rows : Known(x)
    /\ fileRead # NoSnapshot => \A x \in fileRead.rows : Known(x)
    /\ writing # NoSnapshot => \A x \in writing.rows : Known(x)
    /\ waiting # NoSnapshot => \A x \in waiting.rows : Known(x)
    /\ \A d \in TokenCall : \A x \in gone[d] : Known(x)

NothingGoneYet == \A d \in TokenCall : at[d] \in Early => gone[d] = {}

SavedOnTheWay ==
    \A c \in TokenCall :
        call[c].kind = "save" /\ c \notin exposed /\ RowOf(c) \notin Deleted =>
            /\ at[c] \in Later /\ tokenDb = "ready" => RowOf(c) \in mem.rows
            /\ at[c] \in Later /\ fileRead # NoSnapshot => RowOf(c) \in fileRead.rows
            /\ at[c] \in Later /\ waiting # NoSnapshot => RowOf(c) \in waiting.rows
            /\ at[c] \in {"written", "stored", "answered"} /\ writing # NoSnapshot =>
                  RowOf(c) \in writing.rows
            /\ at[c] \in {"stored", "answered"} => RowOf(c) \in file.rows

DeletedOnTheWay ==
    \A c \in TokenCall : call[c].kind = "delete" /\ c \notin exposed =>
        /\ at[c] \in Later => gone[c] \cap mem.rows = {}
        /\ at[c] \in Later /\ fileRead # NoSnapshot => gone[c] \cap fileRead.rows = {}
        /\ at[c] \in Later /\ waiting # NoSnapshot => gone[c] \cap waiting.rows = {}
        /\ at[c] \in {"written", "stored", "answered"} /\ writing # NoSnapshot =>
              gone[c] \cap writing.rows = {}
        /\ at[c] \in {"stored", "answered"} => gone[c] \cap file.rows = {}

TokenInv ==
    /\ TokenTypeOK /\ OneLoader /\ NewestWaits /\ RowsAreKnown /\ NothingGoneYet
    /\ SavedOnTheWay /\ DeletedOnTheWay

-----------------------------------------------------------------------------
\* The initial state: nothing is in memory, every row of the file is an old one.
LEMMA TokenInitInv == TokenInit => TokenInv
<1> SUFFICES ASSUME TokenInit PROVE TokenInv
    OBVIOUS
<1> USE DEF TokenInit
<1>1. TokenTypeOK
  <2>1. /\ mem \in Snapshot /\ file \in Snapshot
        /\ call \in [TokenCall -> CallOp] /\ at \in [TokenCall -> CallPlace]
        /\ gone \in [TokenCall -> SUBSET TokenRow]
    BY TokenAssumption DEF Snapshot, NoRows, CallPlace
  <2>2. /\ restarts \in 0..MaxRestarts /\ writeErrors \in 0..MaxWriteErrors
        /\ readErrors \in 0..MaxReadErrors
    BY TokenAssumption
  <2> QED
    BY <2>1, <2>2 DEF TokenTypeOK
<1>2. OneLoader /\ NewestWaits /\ NothingGoneYet
    BY DEF OneLoader, NewestWaits, NothingGoneYet
<1>3. RowsAreKnown
    BY DEF RowsAreKnown, Known, NoRows
<1>4. SavedOnTheWay /\ DeletedOnTheWay
    BY DEF SavedOnTheWay, DeletedOnTheWay, Later
<1> QED
    BY <1>1, <1>2, <1>3, <1>4 DEF TokenInv

\* The rows of a snapshot are rows, and the row of a call is one.
LEMMA RowTypes ==
    ASSUME TokenTypeOK, NEW c \in TokenCall
    PROVE  /\ mem.rows \subseteq TokenRow /\ file.rows \subseteq TokenRow
           /\ fileRead # NoSnapshot => fileRead \in Snapshot /\ fileRead.rows \subseteq TokenRow
           /\ writing # NoSnapshot => writing.rows \subseteq TokenRow
           /\ waiting # NoSnapshot => waiting.rows \subseteq TokenRow
           /\ RowOf(c) \in TokenRow /\ RowOf(c).by = c
           /\ With(mem, c) \in Snapshot /\ Without(mem, c) \in Snapshot
           /\ \A d \in TokenCall : gone[d] \subseteq TokenRow
<1>1. call[c] \in CallOp /\ call[c].user \in TokenUser /\ call[c].key \in RowKey
    BY DEF TokenTypeOK, CallOp
<1>2. RowOf(c) \in TokenRow /\ RowOf(c).by = c
    BY <1>1 DEF RowOf, TokenRow
<1>3. With(mem, c) \in Snapshot /\ Without(mem, c) \in Snapshot
    BY <1>1, <1>2 DEF TokenTypeOK, With, Without, Snapshot
<1> QED
    BY <1>2, <1>3 DEF TokenTypeOK, Snapshot

\* Saves that are under way or answered: what an empty database can lose.
LEMMA PromisedSaves ==
    ASSUME NEW c \in TokenCall, call[c].kind = "save", at[c] \in Later
    PROVE  c \in Promised
    BY DEF Promised, Later

-----------------------------------------------------------------------------
\* A step that moves one call among the early places, or to failed, and changes
\* no row keeps what is on its way.
LEMMA MovingKeepsRows ==
    ASSUME TokenInv, NEW c \in TokenCall, at[c] \in Early,
           at' = [at EXCEPT ![c] = at'[c]], at'[c] \notin Later,
           at[c] = "new" \/ at'[c] # "new",
           UNCHANGED <<mem, file, writing, waiting, call, gone>>,
           fileRead' \in {fileRead, NoSnapshot}, exposed \subseteq exposed',
           tokenDb' # "ready" \/ tokenDb = "ready" \/ Promised \subseteq exposed'
    PROVE  RowsAreKnown' /\ SavedOnTheWay' /\ DeletedOnTheWay'
<1> USE DEF TokenInv
<1>1. \A d \in TokenCall : d # c => at'[d] = at[d]
    BY DEF TokenTypeOK
<1>2. RowsAreKnown'
  <2>1. \A x \in TokenRow : Known(x) /\ (at'[c] \in Early => x.by # c) => Known(x)'
    BY <1>1 DEF Known, TokenRow
  <2>2. \A x : Known(x) /\ x.by = c => FALSE
    BY TokenAssumption DEF Known
  <2>3. \A x \in TokenRow : Known(x) => Known(x)'
    BY <2>1, <2>2
  <2> QED
    BY <2>3, RowTypes DEF RowsAreKnown
<1>3. SavedOnTheWay'
  <2> SUFFICES ASSUME NEW d \in TokenCall, call[d].kind = "save", d \notin exposed',
                      RowOf(d) \notin Deleted, at'[d] \in Later
               PROVE  /\ tokenDb' = "ready" => RowOf(d) \in mem.rows
                      /\ fileRead' # NoSnapshot => RowOf(d) \in fileRead'.rows
                      /\ waiting # NoSnapshot => RowOf(d) \in waiting.rows
                      /\ at'[d] \in {"written", "stored", "answered"} /\ writing # NoSnapshot =>
                            RowOf(d) \in writing.rows
                      /\ at'[d] \in {"stored", "answered"} => RowOf(d) \in file.rows
    BY DEF SavedOnTheWay, Later, Deleted, RowOf
  <2>1. d # c /\ at'[d] = at[d]
    BY <1>1
  <2>2. tokenDb' = "ready" => tokenDb = "ready"
    BY <2>1, PromisedSaves
  <2> QED
    BY <2>1, <2>2 DEF SavedOnTheWay
<1>4. DeletedOnTheWay'
  <2> SUFFICES ASSUME NEW d \in TokenCall, call[d].kind = "delete", d \notin exposed',
                      at'[d] \in Later
               PROVE  /\ gone[d] \cap mem.rows = {}
                      /\ fileRead' # NoSnapshot => gone[d] \cap fileRead'.rows = {}
                      /\ waiting # NoSnapshot => gone[d] \cap waiting.rows = {}
                      /\ at'[d] \in {"written", "stored", "answered"} /\ writing # NoSnapshot =>
                            gone[d] \cap writing.rows = {}
                      /\ at'[d] \in {"stored", "answered"} => gone[d] \cap file.rows = {}
    BY DEF DeletedOnTheWay, Later
  <2>1. d # c /\ at'[d] = at[d]
    BY <1>1
  <2> QED
    BY <2>1 DEF DeletedOnTheWay
<1> QED
    BY <1>2, <1>3, <1>4

\* The first call makes the database, the others get it as it is: its rows
\* are the same but for a memory that starts empty.
LEMMA OpeningKeepsInv ==
    ASSUME TokenInv, NEW c \in TokenCall, GetTokenDb(c)
    PROVE  TokenInv'
<1> USE DEF TokenInv
<1>0. /\ at[c] = "new" /\ at' = [at EXCEPT ![c] = at'[c]] /\ at'[c] \in {"loading", "got"}
      /\ UNCHANGED <<file, fileRead, writing, waiting, call, gone, restarts, writeErrors,
                     readErrors, early, exposed>>
      /\ tokenDb' = "ready" => tokenDb = "ready"
      /\ mem' = mem
      /\ \A d \in TokenCall : d # c => at'[d] = at[d]
    BY DEF GetTokenDb, Moved, OneLoader, TokenTypeOK
<1>1. TokenTypeOK'
    BY DEF TokenTypeOK, GetTokenDb, Moved, Snapshot, NoRows, CallPlace
<1>2. OneLoader'
    BY <1>0 DEF GetTokenDb, Moved, TokenTypeOK, OneLoader
<1>3. NewestWaits' /\ NothingGoneYet'
    BY <1>0 DEF NewestWaits, NothingGoneYet, Early
<1>4. RowsAreKnown' /\ SavedOnTheWay' /\ DeletedOnTheWay'
    BY <1>0, MovingKeepsRows DEF Early, Later
<1> QED
    BY <1>1, <1>2, <1>3, <1>4

\* The reading finds every row that is promised and not exposed: those of calls
\* that were answered, since the others changed a database that was not read.
LEMMA ReadingKeepsInv ==
    ASSUME TokenInv, NEW c \in TokenCall, ReadTokenFile(c)
    PROVE  TokenInv'
<1> USE DEF TokenInv
<1>0. /\ fileRead' = file /\ file # NoSnapshot /\ tokenDb = "loading"
      /\ UNCHANGED <<tokenDb, mem, file, writing, waiting, call, at, gone, restarts,
                     writeErrors, readErrors, early, exposed>>
    BY TokenAssumption DEF ReadTokenFile, OneLoader, TokenTypeOK
<1>1. TokenTypeOK'
    BY <1>0 DEF TokenTypeOK
<1>2. OneLoader' /\ NewestWaits' /\ NothingGoneYet'
    BY <1>0 DEF OneLoader, NewestWaits, NothingGoneYet
<1>3. RowsAreKnown'
    BY <1>0 DEF RowsAreKnown, Known
<1>4. SavedOnTheWay' /\ DeletedOnTheWay'
    BY <1>0 DEF SavedOnTheWay, DeletedOnTheWay, OneLoader, Later, Deleted, RowOf
<1> QED
    BY <1>1, <1>2, <1>3, <1>4

\* What was read takes the place of memory; a missing file leaves memory, and
\* then no row is promised that is not exposed.
LEMMA ReplacingKeepsInv ==
    ASSUME TokenInv, NEW c \in TokenCall, LoadTokens(c)
    PROVE  TokenInv'
<1> USE DEF TokenInv
<1>0. /\ at[c] = "loading" /\ tokenDb = "loading" /\ tokenDb' = "ready"
      /\ at' = [at EXCEPT ![c] = "got"]
      /\ fileRead # NoSnapshot /\ fileRead' = NoSnapshot
      /\ mem' = fileRead \/ (fileRead = NoRows /\ mem' = mem)
      /\ UNCHANGED <<file, writing, waiting, call, gone, restarts, writeErrors,
                     readErrors, early, exposed>>
    BY DEF LoadTokens, Moved, OneLoader
<1>1. /\ at'[c] = "got" /\ \A d \in TokenCall : d # c => at'[d] = at[d]
      /\ at' \in [TokenCall -> CallPlace]
    BY <1>0 DEF TokenTypeOK, CallPlace
<1>2. TokenTypeOK'
    BY <1>0, <1>1 DEF TokenTypeOK
<1>3. OneLoader' /\ NewestWaits' /\ NothingGoneYet'
    BY <1>0, <1>1 DEF OneLoader, NewestWaits, NothingGoneYet, Early
<1>4. RowsAreKnown'
  <2>1. \A x \in TokenRow : Known(x) => Known(x)'
    BY <1>0, <1>1 DEF Known, Early, TokenRow
  <2> QED
    BY <1>0, <2>1, RowTypes DEF RowsAreKnown
<1>5. SavedOnTheWay'
  <2> SUFFICES ASSUME NEW d \in TokenCall, call[d].kind = "save", d \notin exposed,
                      RowOf(d) \notin Deleted, at'[d] \in Later
               PROVE  /\ RowOf(d) \in mem'.rows
                      /\ waiting # NoSnapshot => RowOf(d) \in waiting.rows
                      /\ at'[d] \in {"written", "stored", "answered"} /\ writing # NoSnapshot =>
                            RowOf(d) \in writing.rows
                      /\ at'[d] \in {"stored", "answered"} => RowOf(d) \in file.rows
    BY <1>0 DEF SavedOnTheWay, Later, Deleted, RowOf
  <2>1. at[d] \in Later /\ at'[d] = at[d]
    BY <1>1 DEF Later
  <2>2. RowOf(d) \in fileRead.rows
    BY <1>0, <2>1 DEF SavedOnTheWay
  <2> QED
    BY <1>0, <2>1, <2>2 DEF SavedOnTheWay, NoRows
<1>6. DeletedOnTheWay'
  <2> SUFFICES ASSUME NEW d \in TokenCall, call[d].kind = "delete", d \notin exposed,
                      at'[d] \in Later
               PROVE  /\ gone[d] \cap mem'.rows = {}
                      /\ waiting # NoSnapshot => gone[d] \cap waiting.rows = {}
                      /\ at'[d] \in {"written", "stored", "answered"} /\ writing # NoSnapshot =>
                            gone[d] \cap writing.rows = {}
                      /\ at'[d] \in {"stored", "answered"} => gone[d] \cap file.rows = {}
    BY <1>0 DEF DeletedOnTheWay, Later
  <2>1. at[d] \in Later /\ at'[d] = at[d]
    BY <1>1 DEF Later
  <2> QED
    BY <1>0, <2>1 DEF DeletedOnTheWay
<1> QED
    BY <1>2, <1>3, <1>4, <1>5, <1>6

\* A reading that throws leaves memory as it is and exposes what is promised.
LEMMA FailingKeepsInv ==
    ASSUME TokenInv, NEW c \in TokenCall, LoadFails(c)
    PROVE  TokenInv'
<1> USE DEF TokenInv
<1>0. /\ at[c] = "loading" /\ tokenDb = "loading" /\ tokenDb' = "ready"
      /\ at' = [at EXCEPT ![c] = "failed"] /\ at'[c] = "failed"
      /\ \A d \in TokenCall : d # c => at'[d] = at[d]
      /\ exposed' = exposed \cup Promised /\ fileRead = NoSnapshot
      /\ UNCHANGED <<mem, file, fileRead, writing, waiting, call, gone, restarts,
                     writeErrors, early>>
      /\ readErrors' \in 0..MaxReadErrors
    BY TokenAssumption DEF LoadFails, Moved, OneLoader, TokenTypeOK
<1>1. TokenTypeOK'
    BY <1>0 DEF TokenTypeOK, CallPlace, Promised
<1>2. OneLoader' /\ NewestWaits' /\ NothingGoneYet'
    BY <1>0 DEF OneLoader, NewestWaits, NothingGoneYet, Early
<1>3. RowsAreKnown' /\ SavedOnTheWay' /\ DeletedOnTheWay'
    BY <1>0, MovingKeepsRows DEF Early, Later
<1> QED
    BY <1>1, <1>2, <1>3

\* A change exposes nothing once the file was read, and before that itself and
\* every row that is promised.
LEMMA NotedExposes ==
    ASSUME TokenTypeOK, NEW c \in TokenCall, Noted(c)
    PROVE  /\ early' \in BOOLEAN /\ exposed' \subseteq TokenCall /\ exposed \subseteq exposed'
           /\ tokenDb = "loading" => early' /\ c \in exposed' /\ Promised \subseteq exposed'
           /\ tokenDb # "loading" => early' = early /\ exposed' = exposed
    BY DEF Noted, TokenTypeOK, Promised

\* What db.write() of a call does to the snapshots and to the calls.
LEMMA WritesAreNewest ==
    ASSUME TokenInv, NEW c \in TokenCall, Write(c, mem'), mem' \in Snapshot,
           UNCHANGED <<tokenDb, file, fileRead, call, restarts, writeErrors, readErrors>>,
           Noted(c), gone' \in [TokenCall -> SUBSET TokenRow],
           \A d \in TokenCall : at'[d] \in Early => gone'[d] = {}
    PROVE  /\ at[c] = "got" /\ at'[c] \in {"written", "queued"}
           /\ \A d \in TokenCall : d # c => at'[d] = at[d]
           /\ \/ writing = NoSnapshot /\ waiting = NoSnapshot
                 /\ writing' = mem' /\ waiting' = NoSnapshot /\ at'[c] = "written"
              \/ writing # NoSnapshot /\ writing' = writing /\ waiting' = mem' /\ at'[c] = "queued"
           /\ mem' # NoSnapshot /\ tokenDb # "none"
           /\ TokenTypeOK' /\ OneLoader' /\ NewestWaits' /\ NothingGoneYet'
<1> USE DEF TokenInv
<1>1. /\ at[c] = "got" /\ at'[c] \in {"written", "queued"}
      /\ \A d \in TokenCall : d # c => at'[d] = at[d]
      /\ at' \in [TokenCall -> CallPlace]
    BY DEF Write, Moved, TokenTypeOK, CallPlace
<1>2. /\ \/ writing = NoSnapshot /\ waiting = NoSnapshot
            /\ writing' = mem' /\ waiting' = NoSnapshot /\ at'[c] = "written"
         \/ writing # NoSnapshot /\ writing' = writing /\ waiting' = mem' /\ at'[c] = "queued"
      /\ mem' # NoSnapshot
    BY TokenAssumption DEF Write, Moved, TokenTypeOK, NewestWaits
<1>3. tokenDb # "none"
    BY <1>1 DEF OneLoader
<1>4. TokenTypeOK'
    BY <1>1, <1>2, NotedExposes DEF TokenTypeOK
<1>5. OneLoader'
    BY <1>1, <1>2, <1>3, NotedExposes DEF OneLoader, TokenTypeOK
<1>6. NewestWaits'
    BY <1>1, <1>2, <1>3, NotedExposes DEF NewestWaits, OneLoader, TokenTypeOK
<1> QED
    BY <1>1, <1>2, <1>3, <1>4, <1>5, <1>6 DEF NothingGoneYet

\* saveToken: the new row is in memory and in every snapshot written from now on.
LEMMA SaveKeepsInv ==
    ASSUME TokenInv, NEW c \in TokenCall, SaveToken(c)
    PROVE  TokenInv'
<1> USE DEF TokenInv
<1>0. /\ call[c].kind = "save" /\ Write(c, mem') /\ Noted(c)
      /\ mem'.rows = mem.rows \cup {RowOf(c)} /\ mem' \in Snapshot
      /\ RowOf(c).by = c /\ c # NoSnapshot
      /\ UNCHANGED <<tokenDb, file, fileRead, call, gone, restarts, writeErrors, readErrors>>
    BY RowTypes, TokenAssumption DEF SaveToken, With, TokenTypeOK
<1>a. /\ gone' \in [TokenCall -> SUBSET TokenRow]
      /\ \A d \in TokenCall : at'[d] \in Early => gone'[d] = {}
    BY <1>0 DEF TokenTypeOK, NothingGoneYet, Early, Write, Moved
<1>1. /\ at[c] = "got" /\ at'[c] \in {"written", "queued"}
      /\ \A d \in TokenCall : d # c => at'[d] = at[d]
      /\ \/ writing = NoSnapshot /\ waiting = NoSnapshot
            /\ writing' = mem' /\ waiting' = NoSnapshot /\ at'[c] = "written"
         \/ writing # NoSnapshot /\ writing' = writing /\ waiting' = mem' /\ at'[c] = "queued"
      /\ mem' # NoSnapshot /\ tokenDb # "none"
      /\ TokenTypeOK' /\ OneLoader' /\ NewestWaits' /\ NothingGoneYet'
    BY <1>0, <1>a, WritesAreNewest
<1>2. \A x \in TokenRow : Known(x) => Known(x)'
    BY <1>1 DEF Known, Early, TokenRow
<1>3. RowsAreKnown'
  <2>1. \A x : x.by = c => Known(x)'
    BY <1>1 DEF Known, Early
  <2>2. \A x \in mem'.rows : Known(x)'
    BY <1>0, <1>2, <2>1, RowTypes DEF RowsAreKnown
  <2>3. /\ writing' # NoSnapshot => \A x \in writing'.rows : Known(x)'
        /\ waiting' # NoSnapshot => \A x \in waiting'.rows : Known(x)'
    BY <1>1, <1>2, <2>2, RowTypes DEF RowsAreKnown
  <2>4. /\ \A x \in file'.rows : Known(x)'
        /\ fileRead' # NoSnapshot => \A x \in fileRead'.rows : Known(x)'
        /\ \A d \in TokenCall : \A x \in gone'[d] : Known(x)'
    BY <1>0, <1>2, RowTypes DEF RowsAreKnown
  <2> QED
    BY <2>2, <2>3, <2>4 DEF RowsAreKnown
<1>4. SavedOnTheWay'
  <2> SUFFICES ASSUME NEW d \in TokenCall, call[d].kind = "save", d \notin exposed',
                      RowOf(d) \notin Deleted, at'[d] \in Later
               PROVE  /\ tokenDb = "ready" => RowOf(d) \in mem'.rows
                      /\ fileRead # NoSnapshot => RowOf(d) \in fileRead.rows
                      /\ waiting' # NoSnapshot => RowOf(d) \in waiting'.rows
                      /\ at'[d] \in {"written", "stored", "answered"} /\ writing' # NoSnapshot =>
                            RowOf(d) \in writing'.rows
                      /\ at'[d] \in {"stored", "answered"} => RowOf(d) \in file.rows
    BY <1>0 DEF SavedOnTheWay, Later, Deleted, RowOf
  <2>1. tokenDb = "ready" /\ fileRead = NoSnapshot /\ d \notin exposed
    <3>1. d # c => at[d] \in Later
      BY <1>1
    <3>2. tokenDb # "loading"
      BY <1>0, <3>1, NotedExposes, PromisedSaves
    <3> QED
      BY <1>0, <1>1, <3>2, NotedExposes DEF OneLoader, TokenTypeOK
  <2>2. CASE d = c
    BY <1>0, <1>1, <2>1, <2>2
  <2>3. CASE d # c
    BY <1>0, <1>1, <2>1, <2>3 DEF SavedOnTheWay
  <2> QED
    BY <2>2, <2>3
<1>5. DeletedOnTheWay'
  <2> SUFFICES ASSUME NEW d \in TokenCall, call[d].kind = "delete", d \notin exposed',
                      at'[d] \in Later
               PROVE  /\ gone[d] \cap mem'.rows = {}
                      /\ fileRead # NoSnapshot => gone[d] \cap fileRead.rows = {}
                      /\ waiting' # NoSnapshot => gone[d] \cap waiting'.rows = {}
                      /\ at'[d] \in {"written", "stored", "answered"} /\ writing' # NoSnapshot =>
                            gone[d] \cap writing'.rows = {}
                      /\ at'[d] \in {"stored", "answered"} => gone[d] \cap file.rows = {}
    BY <1>0 DEF DeletedOnTheWay, Later
  <2>1. d # c /\ at'[d] = at[d] /\ d \notin exposed
    BY <1>0, <1>1, NotedExposes
  <2>2. RowOf(c) \notin gone[d]
    BY <1>0, <1>1 DEF RowsAreKnown, Known, Early
  <2>3. gone[d] \cap mem'.rows = {}
    BY <1>0, <2>1, <2>2 DEF DeletedOnTheWay
  <2> QED
    BY <1>1, <2>1, <2>3 DEF DeletedOnTheWay
<1> QED
    BY <1>1, <1>3, <1>4, <1>5

\* deleteToken: what it takes out is in no snapshot written from now on.
LEMMA DeleteKeepsInv ==
    ASSUME TokenInv, NEW c \in TokenCall, DeleteToken(c)
    PROVE  TokenInv'
<1> USE DEF TokenInv
<1>1. CASE call[c].user \notin mem.users
  <2>0. /\ at[c] = "got" /\ at' = [at EXCEPT ![c] = "failed"] /\ at'[c] = "failed"
        /\ \A d \in TokenCall : d # c => at'[d] = at[d]
        /\ UNCHANGED <<mem, gone, writing, waiting, tokenDb, file, fileRead, call, restarts,
                       writeErrors, readErrors, early, exposed>>
    BY <1>1 DEF DeleteToken, Moved, TokenTypeOK
  <2>1. TokenTypeOK'
    BY <2>0 DEF TokenTypeOK, CallPlace
  <2>2. OneLoader' /\ NewestWaits' /\ NothingGoneYet'
    BY <2>0 DEF OneLoader, NewestWaits, NothingGoneYet, Early
  <2>3. RowsAreKnown' /\ SavedOnTheWay' /\ DeletedOnTheWay'
    BY <2>0, MovingKeepsRows DEF Early, Later
  <2> QED
    BY <2>1, <2>2, <2>3
<1>2. CASE call[c].user \in mem.users
  <2>0. /\ call[c].kind = "delete" /\ mem' = Without(mem, c) /\ Write(c, mem') /\ Noted(c)
        /\ gone' = [gone EXCEPT ![c] = mem.rows \ mem'.rows]
        /\ UNCHANGED <<tokenDb, file, fileRead, call, restarts, writeErrors, readErrors>>
    BY <1>2 DEF DeleteToken, Write
  <2>1. mem' \in Snapshot /\ mem'.rows \subseteq mem.rows
    <3>1. mem \in Snapshot
        BY DEF TokenTypeOK
    <3>2. mem'.rows \subseteq mem.rows
        BY <2>0, <3>1 DEF Without, Snapshot
    <3> QED
        BY <2>0, <3>2, RowTypes
  <2>2. /\ gone'[c] = mem.rows \ mem'.rows
        /\ gone' \in [TokenCall -> SUBSET TokenRow]
        /\ \A d \in TokenCall : d # c => gone'[d] = gone[d]
    BY <2>0, RowTypes DEF TokenTypeOK
  <2>a. \A d \in TokenCall : at'[d] \in Early => gone'[d] = {}
    <3>1. at'[c] \in {"written", "queued"} /\ \A d \in TokenCall : d # c => at'[d] = at[d]
      BY <2>0 DEF Write, Moved, TokenTypeOK
    <3> QED
      BY <2>2, <3>1 DEF NothingGoneYet, Early
  <2>3. /\ at[c] = "got" /\ at'[c] \in {"written", "queued"}
        /\ \A d \in TokenCall : d # c => at'[d] = at[d]
        /\ \/ writing = NoSnapshot /\ waiting = NoSnapshot
              /\ writing' = mem' /\ waiting' = NoSnapshot /\ at'[c] = "written"
           \/ writing # NoSnapshot /\ writing' = writing /\ waiting' = mem' /\ at'[c] = "queued"
        /\ mem' # NoSnapshot /\ tokenDb # "none"
        /\ TokenTypeOK' /\ OneLoader' /\ NewestWaits' /\ NothingGoneYet'
    BY <2>0, <2>1, <2>2, <2>a, WritesAreNewest
  <2>4. gone[c] = {}
    BY <2>3 DEF NothingGoneYet, Early
  <2>5. RowsAreKnown'
    <3>1. \A x \in TokenRow : Known(x) => Known(x)'
        BY <2>3 DEF Known, Early, TokenRow
    <3>2. \A d \in TokenCall : \A x \in gone'[d] : Known(x)'
        BY <2>2, <3>1, RowTypes DEF RowsAreKnown, TokenTypeOK
    <3>3. \A x \in mem'.rows : Known(x)'
        BY <2>1, <3>1, RowTypes DEF RowsAreKnown
    <3>4. /\ writing' # NoSnapshot => \A x \in writing'.rows : Known(x)'
          /\ waiting' # NoSnapshot => \A x \in waiting'.rows : Known(x)'
        BY <2>3, <3>1, <3>3, RowTypes DEF RowsAreKnown
    <3> QED
        BY <2>0, <3>1, <3>2, <3>3, <3>4, RowTypes DEF RowsAreKnown
  <2>6. Deleted' = Deleted \cup gone'[c]
    BY <2>2, <2>4 DEF Deleted
  <2>7. SavedOnTheWay'
    <3> SUFFICES ASSUME NEW d \in TokenCall, call[d].kind = "save", d \notin exposed',
                        RowOf(d) \notin Deleted', at'[d] \in Later
                 PROVE  /\ tokenDb = "ready" => RowOf(d) \in mem'.rows
                        /\ fileRead # NoSnapshot => RowOf(d) \in fileRead.rows
                        /\ waiting' # NoSnapshot => RowOf(d) \in waiting'.rows
                        /\ at'[d] \in {"written", "stored", "answered"} /\ writing' # NoSnapshot =>
                              RowOf(d) \in writing'.rows
                        /\ at'[d] \in {"stored", "answered"} => RowOf(d) \in file.rows
        BY <2>0 DEF SavedOnTheWay, RowOf, Later
    <3>1. d # c /\ at'[d] = at[d] /\ RowOf(d) \notin Deleted /\ RowOf(d) \notin gone'[c]
        BY <2>0, <2>3, <2>6
    <3>2. tokenDb = "ready" /\ fileRead = NoSnapshot /\ d \notin exposed
      <4>1. tokenDb # "loading"
        BY <2>0, <3>1, NotedExposes, PromisedSaves
      <4> QED
        BY <2>0, <2>3, <4>1, NotedExposes DEF OneLoader, TokenTypeOK
    <3>3. RowOf(d) \in mem'.rows
        BY <3>1, <3>2, <2>2 DEF SavedOnTheWay
    <3> QED
        BY <3>1, <3>2, <3>3, <2>3 DEF SavedOnTheWay
  <2>8. DeletedOnTheWay'
    <3> SUFFICES ASSUME NEW d \in TokenCall, call[d].kind = "delete", d \notin exposed',
                        at'[d] \in Later
                 PROVE  /\ gone'[d] \cap mem'.rows = {}
                        /\ fileRead # NoSnapshot => gone'[d] \cap fileRead.rows = {}
                        /\ waiting' # NoSnapshot => gone'[d] \cap waiting'.rows = {}
                        /\ at'[d] \in {"written", "stored", "answered"} /\ writing' # NoSnapshot =>
                              gone'[d] \cap writing'.rows = {}
                        /\ at'[d] \in {"stored", "answered"} => gone'[d] \cap file.rows = {}
        BY <2>0 DEF DeletedOnTheWay, Later
    <3>1. d \notin exposed
        BY <2>0, NotedExposes
    <3>2. CASE d = c
      <4>1. fileRead = NoSnapshot
        BY <2>0, <2>3, <3>2, NotedExposes DEF OneLoader, TokenTypeOK
      <4> QED
        BY <3>2, <4>1, <2>2, <2>3
    <3>3. CASE d # c
      <4>1. gone'[d] = gone[d] /\ at'[d] = at[d] /\ gone[d] \cap mem'.rows = {}
        BY <3>1, <3>3, <2>1, <2>2, <2>3 DEF DeletedOnTheWay
      <4> QED
        BY <3>1, <4>1, <2>3 DEF DeletedOnTheWay
    <3> QED
        BY <3>2, <3>3
  <2> QED
    BY <2>3, <2>5, <2>7, <2>8
<1> QED
    BY <1>1, <1>2

\* readTokens and the answers move a call only.
LEMMA AnsweringKeepsInv ==
    ASSUME TokenInv, NEW c \in TokenCall, ReadTokens(c) \/ TokenAnswer(c)
    PROVE  TokenInv'
<1> USE DEF TokenInv, Moved
<1>0. /\ at' = [at EXCEPT ![c] = "answered"]
      /\ at[c] = "stored" \/ (at[c] = "got" /\ call[c].kind = "read")
      /\ UNCHANGED <<tokenDb, mem, file, fileRead, writing, waiting, call, gone, restarts,
                     writeErrors, readErrors, early, exposed>>
    BY DEF ReadTokens, TokenAnswer
<1>1. TokenTypeOK'
    BY <1>0 DEF TokenTypeOK, CallPlace
<1>2. OneLoader' /\ NewestWaits' /\ NothingGoneYet'
    BY <1>0 DEF OneLoader, NewestWaits, NothingGoneYet, Early, TokenTypeOK
<1>3. RowsAreKnown'
  <2>1. \A x \in TokenRow : Known(x) => Known(x)'
    BY <1>0 DEF Known, Early, TokenTypeOK, TokenRow
  <2> QED
    BY <1>0, <2>1, RowTypes DEF RowsAreKnown
<1>4. SavedOnTheWay'
    BY <1>0 DEF SavedOnTheWay, Later, Deleted, RowOf, TokenTypeOK
<1>5. DeletedOnTheWay'
    BY <1>0 DEF DeletedOnTheWay, Later, TokenTypeOK
<1> QED
    BY <1>1, <1>2, <1>3, <1>4, <1>5

\* A write ends: the file is the snapshot, or what it was, and what waits is
\* next.  While the file is read only exposed calls are in the queue.
LEMMA SettlingKeepsInv ==
    ASSUME TokenInv, WriteDone \/ WriteFails
    PROVE  TokenInv'
<1> USE DEF TokenInv
<1>0. /\ writing # NoSnapshot /\ writing' = waiting /\ waiting' = NoSnapshot
      /\ UNCHANGED <<tokenDb, mem, fileRead, call, gone, restarts, readErrors, early, exposed>>
    BY DEF WriteDone, WriteFails, Settled
<1>1. \A c \in TokenCall :
        /\ at[c] = "written" => at'[c] \in {"stored", "failed"}
        /\ at[c] = "queued" => at'[c] = "written"
        /\ at[c] \notin {"written", "queued"} => at'[c] = at[c]
        /\ at'[c] = "stored" /\ at[c] = "written" => file' = writing
    BY DEF WriteDone, WriteFails, Settled
<1>2. file' = writing \/ file' = file
    BY DEF WriteDone, WriteFails
<1>3. TokenTypeOK'
  <2>1. at' \in [TokenCall -> CallPlace]
    BY DEF WriteDone, WriteFails, Settled, TokenTypeOK, CallPlace
  <2>2. writeErrors' \in 0..MaxWriteErrors
    BY TokenAssumption DEF WriteDone, WriteFails, TokenTypeOK
  <2> QED
    BY <1>0, <1>2, <2>1, <2>2 DEF TokenTypeOK
<1>4. OneLoader' /\ NewestWaits' /\ NothingGoneYet'
    BY <1>0, <1>1 DEF OneLoader, NewestWaits, NothingGoneYet, Early
<1>5. RowsAreKnown'
  <2>1. \A x \in TokenRow : Known(x) => Known(x)'
    BY <1>1 DEF Known, Early, TokenRow
  <2>2. \A d \in TokenCall : gone[d] \subseteq TokenRow
    BY DEF TokenTypeOK
  <2>3. /\ mem.rows \subseteq TokenRow /\ file.rows \subseteq TokenRow
        /\ writing.rows \subseteq TokenRow
        /\ waiting # NoSnapshot => waiting.rows \subseteq TokenRow
        /\ fileRead # NoSnapshot => fileRead.rows \subseteq TokenRow
    BY <1>0 DEF TokenTypeOK, Snapshot
  <2> QED
    BY <1>0, <1>2, <2>1, <2>2, <2>3 DEF RowsAreKnown
<1>6. \A d \in TokenCall :
        /\ at'[d] \in Later => at[d] \in Later
        /\ at'[d] \in {"stored", "answered"} =>
            \/ at[d] = "written" /\ file' = writing
            \/ at[d] \in {"stored", "answered"}
    BY <1>1 DEF Later
<1>7. SavedOnTheWay'
  <2> SUFFICES ASSUME NEW d \in TokenCall, call[d].kind = "save", d \notin exposed,
                      RowOf(d) \notin Deleted, at'[d] \in Later
               PROVE  /\ tokenDb = "ready" => RowOf(d) \in mem.rows
                      /\ fileRead # NoSnapshot => RowOf(d) \in fileRead.rows
                      /\ waiting # NoSnapshot => RowOf(d) \in waiting.rows
                      /\ at'[d] \in {"stored", "answered"} => RowOf(d) \in file'.rows
    BY <1>0 DEF SavedOnTheWay, Deleted, RowOf, Later
  <2> QED
    BY <1>0, <1>2, <1>6 DEF SavedOnTheWay
<1>8. DeletedOnTheWay'
  <2> SUFFICES ASSUME NEW d \in TokenCall, call[d].kind = "delete", d \notin exposed,
                      at'[d] \in Later
               PROVE  /\ gone[d] \cap mem.rows = {}
                      /\ fileRead # NoSnapshot => gone[d] \cap fileRead.rows = {}
                      /\ waiting # NoSnapshot => gone[d] \cap waiting.rows = {}
                      /\ at'[d] \in {"stored", "answered"} => gone[d] \cap file'.rows = {}
    BY <1>0 DEF DeletedOnTheWay, Later
  <2> QED
    BY <1>0, <1>2, <1>6 DEF DeletedOnTheWay
<1> QED
    BY <1>3, <1>4, <1>5, <1>7, <1>8

\* A restart leaves the file; the calls that were under way are over.
LEMMA RestartKeepsInv ==
    ASSUME TokenInv, TokenRestart
    PROVE  TokenInv'
<1> USE DEF TokenInv
<1>0. /\ tokenDb' = "none" /\ mem' = NoRows /\ early' = FALSE
      /\ fileRead' = NoSnapshot /\ writing' = NoSnapshot /\ waiting' = NoSnapshot
      /\ UNCHANGED <<file, call, gone, writeErrors, readErrors, exposed>>
      /\ restarts' \in 0..MaxRestarts
      /\ at' \in [TokenCall -> CallPlace]
    BY TokenAssumption DEF TokenRestart, TokenTypeOK, CallPlace
<1>1. \A c \in TokenCall :
        \/ at'[c] = "dropped"
        \/ at'[c] = at[c] /\ at[c] \in {"new", "answered", "failed", "dropped"}
    BY DEF TokenRestart, InFlight
<1>2. TokenTypeOK'
    BY <1>0 DEF TokenTypeOK, Snapshot, NoRows
<1>3. OneLoader' /\ NewestWaits' /\ NothingGoneYet'
    BY <1>0, <1>1 DEF OneLoader, NewestWaits, NothingGoneYet, Early
<1>4. RowsAreKnown'
  <2>1. \A x \in TokenRow : Known(x) => Known(x)'
    BY <1>1 DEF Known, Early, TokenRow
  <2>2. file.rows \subseteq TokenRow /\ \A d \in TokenCall : gone[d] \subseteq TokenRow
    BY DEF TokenTypeOK, Snapshot
  <2> QED
    BY <1>0, <2>1, <2>2 DEF RowsAreKnown, NoRows
<1>5. SavedOnTheWay'
    BY <1>0, <1>1 DEF SavedOnTheWay, Deleted, RowOf
<1>6. DeletedOnTheWay'
    BY <1>0, <1>1 DEF DeletedOnTheWay, NoRows
<1> QED
    BY <1>2, <1>3, <1>4, <1>5, <1>6

\* Every step keeps the invariant.
LEMMA TokenNextInv ==
    ASSUME TokenInv, [TokenNext]_tokenVars
    PROVE  TokenInv'
<1>1. CASE TokenNext
    BY <1>1, OpeningKeepsInv, ReadingKeepsInv, ReplacingKeepsInv, FailingKeepsInv,
       SaveKeepsInv, DeleteKeepsInv, AnsweringKeepsInv,
       SettlingKeepsInv, RestartKeepsInv DEF TokenNext, TokenStep
<1>2. CASE UNCHANGED tokenVars
    BY <1>2 DEF tokenVars, TokenInv, TokenTypeOK, OneLoader, NewestWaits, RowsAreKnown,
                Known, NothingGoneYet, SavedOnTheWay, DeletedOnTheWay, Deleted, RowOf
<1> QED
    BY <1>1, <1>2

\* The inductive invariant holds in every run.
LEMMA TokenInvHolds == TokenSpec => []TokenInv
<1>1. TokenInit => TokenInv
    BY TokenInitInv
<1>2. TokenInv /\ [TokenNext]_tokenVars => TokenInv'
    BY TokenNextInv
<1> QED
    BY <1>1, <1>2, PTL DEF TokenSpec

-----------------------------------------------------------------------------
\* The rows of the file follow the answers: a row whose saving was answered
\* stays, a row whose deletion was answered does not come back, over restarts
\* and write errors; only the calls that a failing reading, or a change before
\* the file was read, exposed are without this (saveToken, deleteToken and
\* getTokenDb of local-database.ts).
THEOREM TokensAlwaysKept == TokenSpec => []TokensAreKept
<1>1. TokenInv => TokensAreKept
  <2> SUFFICES ASSUME TokenInv PROVE TokensAreKept
    OBVIOUS
  <2>1. SavedTokensStay
    BY DEF TokenInv, SavedTokensStay, SavedOnTheWay, Answered, Later
  <2>2. DeletedTokensStayAway
    BY DEF TokenInv, DeletedTokensStayAway, DeletedOnTheWay, Answered, Later
  <2> QED
    BY <2>1, <2>2 DEF TokensAreKept
<1> QED
    BY <1>1, TokenInvHolds, PTL

\* The abstract database starts where this one does.
LEMMA DurableInit == TokenInit => Durable!Init
    BY DEF TokenInit, Durable!Init, Snapshot, Seen, OnItsWay

\* A call that adds its row or takes rows out is a change, whose snapshot is
\* written at once if nothing is.
LEMMA WriteIsChange ==
    ASSUME TokenInv, NEW c \in TokenCall, Write(c, mem'),
           tokenDb = "ready" \/ early, UNCHANGED <<tokenDb, file, early>>,
           mem' \in Snapshot,
           mem'.rows \subseteq mem.rows \/ \E x \in TokenRow : mem'.rows = mem.rows \cup {x}
    PROVE  Durable!Change
<1>1. mem'.rows \in SUBSET TokenRow /\ mem' # NoSnapshot
    BY TokenAssumption DEF Snapshot
<1>2. Seen = mem.rows /\ Seen' = mem'.rows
    BY DEF Seen
<1>3. writing # NoSnapshot => writing.rows \in SUBSET TokenRow /\ writing.rows # NoSnapshot
    BY TokenAssumption DEF TokenInv, TokenTypeOK, Snapshot
<1>4. OnItsWay' = IF OnItsWay = NoSnapshot THEN Seen' ELSE OnItsWay
    BY <1>1, <1>2, <1>3 DEF OnItsWay, Write
<1> QED
    BY <1>1, <1>2, <1>4 DEF Durable!Change

\* Every step is one of the abstract database, or none.
LEMMA DurableStep ==
    ASSUME TokenInv, [TokenNext]_tokenVars
    PROVE  [Durable!Next]_<<Seen, OnItsWay, file.rows, ~early>>
<1> USE DEF TokenInv
<1>0. mem \in Snapshot /\ mem # NoSnapshot /\ early \in BOOLEAN
    BY TokenAssumption DEF TokenTypeOK
<1>1. ASSUME NEW c \in TokenCall, GetTokenDb(c) \/ ReadTokenFile(c)
      PROVE  UNCHANGED <<Seen, OnItsWay, file.rows, ~early>>
    BY <1>1 DEF GetTokenDb, ReadTokenFile, Seen, OnItsWay, OneLoader
<1>2. ASSUME NEW c \in TokenCall, LoadTokens(c)
      PROVE  [Durable!Next]_<<Seen, OnItsWay, file.rows, ~early>>
  <2>1. /\ UNCHANGED <<file, writing, early>> /\ tokenDb = "loading" /\ tokenDb' = "ready"
        /\ mem' = fileRead \/ (fileRead = NoRows /\ mem' = mem)
        /\ fileRead \in Snapshot /\ mem' \in Snapshot
    BY <1>2 DEF LoadTokens, Moved, OneLoader, TokenTypeOK
  <2>2. Seen' = mem'.rows /\ mem'.rows \in SUBSET TokenRow /\ OnItsWay' = OnItsWay
    BY <2>1 DEF Seen, OnItsWay, Snapshot
  <2>3. CASE early
    BY <2>1, <2>2, <2>3, <1>0 DEF Durable!Reload, Durable!Next
  <2>4. CASE ~early
    <3>1. Seen = file.rows /\ mem'.rows = file.rows
      BY <1>2, <2>1, <2>4 DEF Seen, OneLoader, LoadTokens
    <3> QED
      BY <2>1, <2>2, <3>1
  <2> QED
    BY <2>3, <2>4
<1>3. ASSUME NEW c \in TokenCall, LoadFails(c)
      PROVE  [Durable!Next]_<<Seen, OnItsWay, file.rows, ~early>>
  <2>1. UNCHANGED <<mem, file, writing, early>> /\ tokenDb = "loading" /\ tokenDb' = "ready"
    BY <1>3 DEF LoadFails, Moved, OneLoader
  <2>2. CASE early
    BY <2>1, <2>2 DEF Seen, OnItsWay
  <2>3. CASE ~early
    BY <2>1, <2>3, <1>0 DEF Seen, OnItsWay, OneLoader, NoRows, Durable!Forget, Durable!Next
  <2> QED
    BY <2>2, <2>3, <1>0
<1>4. ASSUME NEW c \in TokenCall, SaveToken(c)
      PROVE  Durable!Change \/ Durable!Overtake
  <2>1. /\ mem' = With(mem, c) /\ mem' \in Snapshot /\ RowOf(c) \in TokenRow
        /\ Write(c, mem') /\ Noted(c) /\ UNCHANGED <<tokenDb, file>>
    BY <1>4, RowTypes DEF SaveToken
  <2>2. mem'.rows = mem.rows \cup {RowOf(c)} /\ tokenDb # "none"
    BY <2>1 DEF With, OneLoader, Write, Moved
  <2>3. CASE tokenDb = "ready" \/ early
    <3>1. early' = early
      BY <2>1, <2>3, <1>0 DEF Noted
    <3> QED
      BY <2>1, <2>2, <2>3, <3>1, WriteIsChange
  <2>4. CASE tokenDb # "ready" /\ ~early
    <3>1. tokenDb = "loading" /\ mem = NoRows /\ writing = NoSnapshot
      BY <2>2, <2>4 DEF OneLoader, TokenTypeOK
    <3>2. early' /\ writing' = mem' /\ mem'.rows = {RowOf(c)} /\ mem' # NoSnapshot
      BY <2>1, <2>2, <3>1, TokenAssumption DEF Noted, Write, NoRows
    <3> QED
      BY <2>1, <2>4, <3>1, <3>2 DEF Durable!Overtake, Seen, OnItsWay
  <2> QED
    BY <2>3, <2>4
<1>5. ASSUME NEW c \in TokenCall, DeleteToken(c)
      PROVE  Durable!Change \/ UNCHANGED <<Seen, OnItsWay, file.rows, ~early>>
  <2>1. CASE call[c].user \notin mem.users
    BY <1>5, <2>1 DEF DeleteToken, Seen, OnItsWay
  <2>2. CASE call[c].user \in mem.users
    <3>1. tokenDb = "ready" \/ early
      BY <1>5, <2>2 DEF DeleteToken, OneLoader, NoRows
    <3>2. mem' = Without(mem, c) /\ mem' \in Snapshot /\ early' = early
      BY <1>5, <2>2, <3>1, <1>0, RowTypes DEF DeleteToken, Noted
    <3>3. mem'.rows \subseteq mem.rows
      BY <3>2 DEF Without, TokenTypeOK, Snapshot
    <3> QED
      BY <1>5, <2>2, <3>1, <3>2, <3>3, WriteIsChange DEF DeleteToken
  <2> QED
    BY <2>1, <2>2
<1>6. ASSUME NEW c \in TokenCall, ReadTokens(c) \/ TokenAnswer(c)
      PROVE  UNCHANGED <<Seen, OnItsWay, file.rows, ~early>>
    BY <1>6 DEF ReadTokens, TokenAnswer, Seen, OnItsWay
<1>7. ASSUME WriteDone \/ WriteFails
      PROVE  Durable!Written \/ Durable!Lost
  <2>1. /\ writing # NoSnapshot /\ writing' = waiting
        /\ UNCHANGED <<tokenDb, mem, early>>
        /\ early \/ tokenDb = "ready"
        /\ ~early => waiting = mem \/ (waiting = NoSnapshot /\ writing = mem)
    BY <1>7 DEF WriteDone, WriteFails, Settled, OneLoader, NewestWaits
  <2>2. Seen = mem.rows /\ Seen' = mem.rows /\ mem # NoSnapshot
    BY <2>1, <1>0 DEF Seen
  <2>3. OnItsWay = writing.rows /\ OnItsWay # NoSnapshot
    BY <2>1, TokenAssumption DEF OnItsWay, TokenTypeOK, Snapshot
  <2>4. OnItsWay' \in (SUBSET TokenRow) \cup {NoSnapshot}
    <3>1. waiting # NoSnapshot => waiting.rows \in SUBSET TokenRow
      BY DEF TokenTypeOK, Snapshot
    <3> QED
      BY <2>1, <3>1 DEF OnItsWay
  <2>5. Durable!Onward
    <3>1. CASE early
      BY <2>4, <3>1 DEF Durable!Onward
    <3>2. CASE ~early
      BY <2>1, <2>2, <2>3, <3>2 DEF Durable!Onward, OnItsWay
    <3> QED
      BY <3>1, <3>2, <1>0
  <2>6. file' = writing \/ file' = file
    BY <1>7 DEF WriteDone, WriteFails
  <2> QED
    BY <2>1, <2>2, <2>3, <2>5, <2>6 DEF Durable!Written, Durable!Lost
<1>8. ASSUME TokenRestart
      PROVE  Durable!Crash
    BY <1>8 DEF TokenRestart, Durable!Crash, Seen, OnItsWay
<1>9. CASE UNCHANGED tokenVars
    BY <1>9 DEF tokenVars, Seen, OnItsWay
<1> QED
    BY <1>1, <1>2, <1>3, <1>4, <1>5, <1>6, <1>7, <1>8, <1>9
    DEF TokenNext, TokenStep, Durable!Next

\* The database implements DurableRows: readers see a change at once, one
\* snapshot at a time is written, the newest goes last, and a crash falls back
\* to the file; a failing reading forgets, and a change before the file was read
\* overtakes it, in no other way than DurableRows says (getTokenDb and the
\* calls of lowdb's write in local-database.ts).
THEOREM RowsAlwaysDurable == TokenSpec => KeepsRows
<1>1. TokenInit => Durable!Init
    BY DurableInit
<1>2. TokenInv /\ [TokenNext]_tokenVars
        => [Durable!Next]_<<Seen, OnItsWay, file.rows, ~early>>
    BY DurableStep
<1> QED
    BY <1>1, <1>2, TokenInvHolds, PTL DEF TokenSpec, KeepsRows, Durable!Spec

-----------------------------------------------------------------------------
(* The download statistics *)


StatsTypeOK ==
    /\ pending \in [Counted -> Nat] /\ timer \in BOOLEAN
    /\ statsDb \in {"none", "loading", "ready"} /\ loader \in Visit \cup {NoVisit}
    /\ stats \in [Counted -> Nat] /\ statsFile \in [Counted -> Nat]
    /\ visit \in [Visit -> VisitOp]
    /\ step \in [Visit -> {"new", "flush", "look", "drop", "ended"}]
    /\ downloads \in [Counted -> Nat]
    /\ floor \in [Visit -> Nat] /\ result \in [Visit -> Nat]
    /\ \A i \in Visit : step[i] = "drop" => visit[i].kind = "delete"

FileIsMemory ==
    /\ loader # NoVisit => statsDb = "loading"
    /\ statsDb = "ready" => stats = statsFile

AllCounted == \A p \in Counted : downloads[p] = pending[p] + statsFile[p]

ReadsAreSafe ==
    \A i \in Visit : visit[i].kind = "read" =>
        /\ step[i] = "flush" => floor[i] <= downloads[visit[i].package]
        /\ step[i] = "look" => floor[i] <= statsFile[visit[i].package]
        /\ step[i] = "ended" => floor[i] <= result[i]

StatsInv ==
    /\ StatsTypeOK /\ FileIsMemory /\ AllCounted /\ PendingIsScheduled /\ ReadsAreSafe

-----------------------------------------------------------------------------
\* Nothing is pending and nobody reads at first.
LEMMA StatsInitInv == StatsInit => StatsInv
<1> SUFFICES ASSUME StatsInit PROVE StatsInv
    OBVIOUS
<1> USE DEF StatsInit, NoCount
<1>1. StatsTypeOK
  <2>1. statsFile \in [Counted -> Nat] /\ visit \in [Visit -> VisitOp]
    BY StatsAssumption
  <2> QED
    BY <2>1 DEF StatsTypeOK
<1>2. FileIsMemory /\ PendingIsScheduled
    BY DEF FileIsMemory, PendingIsScheduled
<1>3. AllCounted
    BY DEF AllCounted
<1>4. ReadsAreSafe
    BY DEF ReadsAreSafe
<1> QED
    BY <1>1, <1>2, <1>3, <1>4 DEF StatsInv

\* The package of a visit is one, and forgetting changes only its counters.
LEMMA VisitTypes ==
    ASSUME StatsTypeOK, NEW i \in Visit
    PROVE  visit[i] \in VisitOp /\ visit[i].package \in Counted
    BY DEF StatsTypeOK, VisitOp

\* A download is pending and has a timer.
LEMMA RecordKeepsInv ==
    ASSUME StatsInv, NEW p \in Counted, RecordPackageDownload(p)
    PROVE  StatsInv'
<1> USE DEF StatsInv, RecordPackageDownload
<1>1. StatsTypeOK'
    BY DEF StatsTypeOK
<1>2. FileIsMemory' /\ PendingIsScheduled'
    BY DEF FileIsMemory, PendingIsScheduled
<1>3. AllCounted'
    BY DEF AllCounted, StatsTypeOK
<1>4. ReadsAreSafe'
  <2>1. \A q \in Counted : downloads[q] <= downloads'[q]
    BY DEF StatsTypeOK
  <2>2. \A i \in Visit : /\ downloads[visit[i].package] <= downloads'[visit[i].package]
                         /\ downloads[visit[i].package] \in Nat
                         /\ downloads'[visit[i].package] \in Nat
                         /\ floor[i] \in Nat
    BY <1>1, <2>1, VisitTypes DEF StatsTypeOK
  <2> QED
    BY <2>2 DEF ReadsAreSafe
<1> QED
    BY <1>1, <1>2, <1>3, <1>4

\* A flush that begins has what is pending before it; a read that finds
\* nothing pending finds everything in the file.
LEMMA FlushBeginsKeepsInv ==
    ASSUME StatsInv, NEW i \in Visit, FlushBegins(i)
    PROVE  StatsInv'
<1> USE DEF StatsInv, FlushBegins, Goes
<1>1. StatsTypeOK'
    BY VisitTypes DEF StatsTypeOK
<1>2. FileIsMemory' /\ AllCounted'
    BY DEF FileIsMemory, AllCounted
<1>3. PendingIsScheduled'
    BY DEF PendingIsScheduled, StatsTypeOK
<1>4. ReadsAreSafe'
  <2> SUFFICES ASSUME NEW j \in Visit, visit[j].kind = "read"
               PROVE  /\ step'[j] = "flush" => floor'[j] <= downloads[visit[j].package]
                      /\ step'[j] = "look" => floor'[j] <= statsFile[visit[j].package]
                      /\ step'[j] = "ended" => floor'[j] <= result[j]
    BY DEF ReadsAreSafe
  <2>1. CASE j # i
    BY <2>1 DEF ReadsAreSafe, StatsTypeOK
  <2>2. CASE j = i
    <3>1. /\ floor'[i] = downloads[visit[i].package]
          /\ step'[i] = IF pending # NoCount THEN "flush" ELSE "look"
      BY <2>2 DEF StatsTypeOK
    <3>2. visit[i].package \in Counted /\ downloads[visit[i].package] \in Nat
      BY VisitTypes DEF StatsTypeOK
    <3>3. pending = NoCount => downloads[visit[i].package] = statsFile[visit[i].package]
      BY <3>2 DEF AllCounted, NoCount, StatsTypeOK
    <3> QED
      BY <2>2, <3>1, <3>2, <3>3
  <2> QED
    BY <2>1, <2>2
<1> QED
    BY <1>1, <1>2, <1>3, <1>4

\* What is forgotten is no longer owed to a read of its package.
LEMMA ForgettingIsSafe ==
    ASSUME StatsInv, StatsTypeOK', NEW p \in Counted, NEW n, Forget(p, n),
           UNCHANGED <<visit, result>>,
           \A q \in Counted : q # p => statsFile'[q] = statsFile[q],
           \A j \in Visit : step'[j] = step[j] \/ visit[j].kind # "read"
    PROVE  ReadsAreSafe'
<1> SUFFICES ASSUME NEW j \in Visit, visit[j].kind = "read"
             PROVE  /\ step[j] = "flush" => floor'[j] <= downloads'[visit[j].package]
                    /\ step[j] = "look" => floor'[j] <= statsFile'[visit[j].package]
                    /\ step[j] = "ended" => floor'[j] <= result[j]
    BY DEF ReadsAreSafe
<1>1. /\ visit[j].package \in Counted
      /\ downloads'[visit[j].package] \in Nat /\ statsFile'[visit[j].package] \in Nat
      /\ result[j] \in Nat
    BY VisitTypes DEF StatsInv, StatsTypeOK
<1>2. CASE visit[j].package = p
    BY <1>1, <1>2 DEF Forget
<1>3. CASE visit[j].package # p
    BY <1>1, <1>3 DEF Forget, StatsInv, ReadsAreSafe, StatsTypeOK
<1> QED
    BY <1>2, <1>3

\* A deletion drops what is pending of its package.
LEMMA DeleteBeginsKeepsInv ==
    ASSUME StatsInv, NEW i \in Visit, DeleteBegins(i)
    PROVE  StatsInv'
<1> USE DEF StatsInv, DeleteBegins, Goes
<1> DEFINE p == visit[i].package
<1>0. /\ p \in Counted /\ pending[p] \in Nat /\ statsFile[p] \in Nat
      /\ downloads[p] - pending[p] = statsFile[p]
    BY VisitTypes DEF StatsTypeOK, AllCounted
<1>1. StatsTypeOK'
  <2>1. downloads' \in [Counted -> Nat]
    BY <1>0 DEF Forget, StatsTypeOK
  <2>2. floor' \in [Visit -> Nat]
    BY DEF Forget, StatsTypeOK
  <2> QED
    BY <2>1, <2>2 DEF StatsTypeOK
<1>2. FileIsMemory'
    BY DEF FileIsMemory
<1>3. AllCounted'
    BY <1>0 DEF AllCounted, Forget, StatsTypeOK
<1>4. PendingIsScheduled'
  <2>1. pending = NoCount => pending' = NoCount
    BY <1>0 DEF NoCount
  <2>2. \A j \in Visit : step[j] = "flush" => step'[j] = "flush"
    BY DEF StatsTypeOK
  <2> QED
    BY <2>1, <2>2 DEF PendingIsScheduled
<1>5. ReadsAreSafe'
  <2>1. \A j \in Visit : step'[j] = step[j] \/ visit[j].kind # "read"
    BY DEF StatsTypeOK
  <2> QED
    BY <1>0, <1>1, <2>1, ForgettingIsSafe
<1> QED
    BY <1>1, <1>2, <1>3, <1>4, <1>5

\* Opening and reading the database changes what memory has only.
LEMMA LoadingKeepsInv ==
    ASSUME StatsInv, NEW i \in Visit, OpenStatsDb(i) \/ LoadStats(i)
    PROVE  StatsInv'
<1> USE DEF StatsInv, OpenStatsDb, LoadStats
<1>1. StatsTypeOK'
    BY DEF StatsTypeOK, NoCount
<1>2. FileIsMemory'
    BY StatsAssumption DEF FileIsMemory
<1>3. AllCounted' /\ PendingIsScheduled'
    BY DEF AllCounted, PendingIsScheduled
<1>4. ReadsAreSafe'
    BY DEF ReadsAreSafe
<1> QED
    BY <1>1, <1>2, <1>3, <1>4

\* A flush moves all that is pending to the file.
LEMMA FlushKeepsInv ==
    ASSUME StatsInv, FirstVisitsOverlap = FALSE, NEW i \in Visit, Flush(i)
    PROVE  StatsInv'
<1> USE DEF StatsInv, Flush, HasStatsDb, Goes
<1>0. stats = statsFile /\ statsDb = "ready"
    BY DEF FileIsMemory
<1>1. StatsTypeOK'
    BY DEF StatsTypeOK, NoCount, Plus
<1>2. FileIsMemory' /\ PendingIsScheduled'
    BY DEF FileIsMemory, PendingIsScheduled
<1>3. \A p \in Counted :
        /\ statsFile'[p] = downloads[p] /\ pending'[p] = 0
        /\ statsFile[p] <= downloads[p] /\ statsFile[p] \in Nat /\ downloads[p] \in Nat
    BY <1>0 DEF AllCounted, NoCount, Plus, StatsTypeOK
<1>4. AllCounted'
    BY <1>3 DEF AllCounted
<1>5. ReadsAreSafe'
  <2> SUFFICES ASSUME NEW j \in Visit, visit[j].kind = "read"
               PROVE  /\ step'[j] = "flush" => floor[j] <= downloads[visit[j].package]
                      /\ step'[j] = "look" => floor[j] <= statsFile'[visit[j].package]
                      /\ step'[j] = "ended" => floor[j] <= result[j]
    BY DEF ReadsAreSafe
  <2>1. floor[j] \in Nat /\ visit[j].package \in Counted
    BY VisitTypes DEF StatsTypeOK
  <2>2. CASE j # i
    BY <1>3, <2>1, <2>2 DEF ReadsAreSafe, StatsTypeOK
  <2>3. CASE j = i
    BY <1>3, <2>1, <2>3 DEF ReadsAreSafe, StatsTypeOK
  <2> QED
    BY <2>2, <2>3
<1> QED
    BY <1>1, <1>2, <1>4, <1>5

\* A read answers what the file has.
LEMMA GetKeepsInv ==
    ASSUME StatsInv, FirstVisitsOverlap = FALSE, NEW i \in Visit, GetPackageDownloads(i)
    PROVE  StatsInv'
<1> USE DEF StatsInv, GetPackageDownloads, HasStatsDb, Goes
<1>0. stats = statsFile
    BY DEF FileIsMemory
<1>1. StatsTypeOK'
    BY VisitTypes DEF StatsTypeOK
<1>2. FileIsMemory' /\ AllCounted'
    BY DEF FileIsMemory, AllCounted
<1>3. PendingIsScheduled'
    BY DEF PendingIsScheduled, StatsTypeOK
<1>4. ReadsAreSafe'
    BY <1>0 DEF ReadsAreSafe, StatsTypeOK
<1> QED
    BY <1>1, <1>2, <1>3, <1>4

\* A deletion takes the counters of its package out of the file.
LEMMA DeleteStatsKeepsInv ==
    ASSUME StatsInv, FirstVisitsOverlap = FALSE, NEW i \in Visit, DeletePackageStats(i)
    PROVE  StatsInv'
<1> USE DEF StatsInv, DeletePackageStats, HasStatsDb, Goes
<1> DEFINE p == visit[i].package
<1>0. /\ p \in Counted /\ stats = statsFile
      /\ pending[p] \in Nat /\ downloads[p] - stats[p] = pending[p]
    BY VisitTypes DEF FileIsMemory, StatsTypeOK, AllCounted
<1>1. StatsTypeOK'
  <2>1. downloads' \in [Counted -> Nat]
    BY <1>0 DEF Forget, StatsTypeOK
  <2>2. floor' \in [Visit -> Nat]
    BY DEF Forget, StatsTypeOK
  <2> QED
    BY <2>1, <2>2 DEF StatsTypeOK
<1>2. FileIsMemory'
    BY DEF FileIsMemory
<1>3. AllCounted'
    BY <1>0 DEF AllCounted, Forget, StatsTypeOK
<1>4. PendingIsScheduled'
    BY DEF PendingIsScheduled, StatsTypeOK
<1>5. ReadsAreSafe'
  <2>1. \A j \in Visit : step'[j] = step[j] \/ visit[j].kind # "read"
    BY DEF StatsTypeOK
  <2>2. \A q \in Counted : q # p => statsFile'[q] = statsFile[q]
    BY <1>0 DEF StatsTypeOK
  <2> QED
    BY <1>0, <1>1, <2>1, <2>2, ForgettingIsSafe
<1> QED
    BY <1>1, <1>2, <1>3, <1>4, <1>5

\* A restart leaves the file; nobody waits for an answer any more.
LEMMA StatsRestartKeepsInv ==
    ASSUME StatsInv, StatsRestart
    PROVE  StatsInv'
<1> USE DEF StatsInv, StatsRestart, NoCount
<1>1. StatsTypeOK'
  <2>1. step' \in [Visit -> {"new", "flush", "look", "drop", "ended"}]
    BY DEF StatsTypeOK
  <2> QED
    BY <2>1 DEF StatsTypeOK
<1>2. FileIsMemory' /\ PendingIsScheduled'
    BY DEF FileIsMemory, PendingIsScheduled
<1>3. AllCounted'
    BY DEF AllCounted, StatsTypeOK
<1>4. ReadsAreSafe'
  <2>1. \A i \in Visit : floor'[i] = 0 /\ result'[i] = 0 /\ step'[i] \in {"new", "ended"}
    OBVIOUS
  <2> QED
    BY <2>1 DEF ReadsAreSafe
<1> QED
    BY <1>1, <1>2, <1>3, <1>4

\* The inductive invariant holds in every run with one first visit.
LEMMA StatsInvHolds ==
    ASSUME FirstVisitsOverlap = FALSE
    PROVE  StatsSpec => []StatsInv
<1>1. StatsInit => StatsInv
    BY StatsInitInv
<1>2. StatsInv /\ [StatsNext]_statsVars => StatsInv'
  <2> SUFFICES ASSUME StatsInv, [StatsNext]_statsVars PROVE StatsInv'
    OBVIOUS
  <2>1. CASE StatsNext
    BY <2>1, RecordKeepsInv, FlushBeginsKeepsInv, DeleteBeginsKeepsInv, LoadingKeepsInv,
       FlushKeepsInv, GetKeepsInv, DeleteStatsKeepsInv, StatsRestartKeepsInv
    DEF StatsNext, StatsStep
  <2>2. CASE UNCHANGED statsVars
    BY <2>2 DEF statsVars, StatsInv, StatsTypeOK, FileIsMemory, AllCounted,
                PendingIsScheduled, ReadsAreSafe
  <2> QED
    BY <2>1, <2>2
<1> QED
    BY <1>1, <1>2, PTL DEF StatsSpec

-----------------------------------------------------------------------------
\* Every download is counted once, has a timer or a flush before it, and is in
\* what a read that came later answers (flushDownloads, getPackageDownloads and
\* deletePackageStats of local-database.ts).
THEOREM DownloadsAlwaysKept ==
    ASSUME FirstVisitsOverlap = FALSE
    PROVE  StatsSpec => []DownloadsAreKept
<1>1. StatsInv => DownloadsAreKept
  <2> SUFFICES ASSUME StatsInv PROVE DownloadsAreKept
    OBVIOUS
  <2>1. CountedOnce
    BY DEF StatsInv, CountedOnce, AllCounted, FileIsMemory
  <2>2. ReadsAreCurrent
    BY DEF StatsInv, ReadsAreCurrent, ReadsAreSafe, StatsTypeOK
  <2> QED
    BY <2>1, <2>2 DEF DownloadsAreKept, StatsInv
<1> QED
    BY <1>1, StatsInvHolds, PTL

-----------------------------------------------------------------------------
(* The list of the private packages *)

ListTypeOK ==
    /\ list \subseteq PackageName /\ listFile \in Content
    /\ serving \in BOOLEAN /\ update \in [Update -> UpdateOp]
    /\ turn \in [Writer -> Turn] /\ snapshot \in [Writer -> SUBSET PackageName]

\* nothing serves before the _sync of init is through, which has begun on a
\* file that could be read and that nobody else writes
BootComesFirst ==
    /\ serving => turn[Boot] = "answered"
    /\ ~serving => \A u \in Update : turn[u] \notin {"folder", "open"}
    /\ turn[Boot] = "folder" => listFile # Unreadable

\* whoever changed the list is on the way to the file, or the writer that
\* opened it last took the list as it is now
LastTakesAll ==
    (\A w \in Writer : turn[w] # "folder") =>
        /\ \A w \in Opened : w \notin mixed => snapshot[w] = list
        /\ serving /\ clean /\ Opened = {} => listFile = list

AloneUnlessMixed == \A w, x \in Opened : w # x => w \in mixed

ListInv == ListTypeOK /\ BootComesFirst /\ LastTakesAll /\ AloneUnlessMixed

LEMMA ListInitInv == PackageListInit => ListInv
BY ListAssumption
   DEF PackageListInit, ListInv, ListTypeOK, BootComesFirst, LastTakesAll, AloneUnlessMixed,
       Opened, Content, Turn, Writer

\* A change of the list sends its writer to the file.
LEMMA ChangeKeepsList ==
    ASSUME ListInv, NEW u \in Update, Add(u) \/ Remove(u)
    PROVE  ListInv'
<1> USE ListAssumption DEF ListInv, ListTypeOK, Writer, Turn, Turns
<1>0. u \in Writer /\ u # Boot /\ update[u].name \in PackageName /\ turn[u] = "new"
  BY DEF Add, Remove, UpdateOp
<1>1. CASE turn' = [turn EXCEPT ![u] = "folder"] /\ list' \subseteq PackageName
  <2>1. UNCHANGED <<listFile, serving, update, snapshot, mixed, clean>> /\ serving
    BY DEF Add, Remove
  <2>2. Opened' = Opened
    BY <1>0, <1>1 DEF Opened
  <2> QED
    BY <1>0, <1>1, <2>1, <2>2 DEF BootComesFirst, LastTakesAll, AloneUnlessMixed
<1>2. CASE turn' = [turn EXCEPT ![u] = "answered"] /\ list' = list
  <2>1. UNCHANGED <<listFile, serving, update, snapshot, mixed, clean>> /\ serving
    BY DEF Add, Remove
  <2>2. Opened' = Opened /\ \A w \in Writer : (turn'[w] = "folder") = (turn[w] = "folder")
    BY <1>0, <1>2 DEF Opened
  <2> QED
    BY <1>0, <1>2, <2>1, <2>2 DEF BootComesFirst, LastTakesAll, AloneUnlessMixed
<1>3. CASE Add(u) /\ update[u].name \in list
  <2>1. list' = list
    BY <1>3 DEF Add
  <2> QED
    BY <1>2, <1>3, <2>1 DEF Add
<1>4. CASE Add(u) /\ update[u].name \notin list
  BY <1>0, <1>1, <1>4 DEF Add
<1>5. CASE Remove(u)
  BY <1>0, <1>1, <1>5 DEF Remove
<1> QED
  BY <1>3, <1>4, <1>5

LEMMA OpenKeepsList ==
    ASSUME ListInv, NEW w \in Writer, OpenFile(w)
    PROVE  ListInv'
<1>0. ListTypeOK /\ BootComesFirst /\ LastTakesAll /\ AloneUnlessMixed
  BY DEF ListInv
<1>1. /\ turn[w] = "folder" /\ turn' = [turn EXCEPT ![w] = "open"]
      /\ snapshot' = [snapshot EXCEPT ![w] = list] /\ listFile' = Unreadable
      /\ UNCHANGED <<list, serving, update, clean>>
  BY DEF OpenFile, Turns
<1>2. Opened' = Opened \cup {w}
  BY <1>0, <1>1 DEF Opened, ListTypeOK
<1>3. mixed' = IF Opened = {} THEN mixed \ {w} ELSE mixed \cup Opened \cup {w}
  BY DEF OpenFile
<1>4. ListTypeOK'
  <2>1. listFile' \in Content /\ snapshot' \in [Writer -> SUBSET PackageName]
        /\ turn' \in [Writer -> Turn]
    BY <1>0, <1>1 DEF ListTypeOK, Content, Turn
  <2> QED
    BY <1>0, <1>1, <2>1 DEF ListTypeOK
<1>5. BootComesFirst'
  BY <1>0, <1>1, ListAssumption DEF BootComesFirst, ListTypeOK, Writer
<1>6. AloneUnlessMixed'
  BY <1>0, <1>2, <1>3 DEF AloneUnlessMixed
<1>7. LastTakesAll'
  <2>1. \A x \in Writer \ {w} : snapshot'[x] = snapshot[x]
    BY <1>0, <1>1 DEF ListTypeOK
  <2>2. snapshot'[w] = list
    BY <1>0, <1>1 DEF ListTypeOK
  <2>3. ASSUME NEW x \in Opened', x \notin mixed' PROVE x = w
    BY <1>2, <1>3, <2>3
  <2> QED
    BY <1>1, <1>2, <2>2, <2>3 DEF LastTakesAll
<1> QED
  BY <1>4, <1>5, <1>6, <1>7 DEF ListInv

LEMMA WriteKeepsList ==
    ASSUME ListInv, NEW w \in Writer, WriteFile(w)
    PROVE  ListInv'
<1>0. ListTypeOK /\ BootComesFirst /\ LastTakesAll /\ AloneUnlessMixed
  BY DEF ListInv
<1>1. /\ turn[w] = "open" /\ turn' = [turn EXCEPT ![w] = "answered"]
      /\ UNCHANGED <<list, snapshot, mixed, update>>
      /\ serving' = (serving \/ w = Boot) /\ clean' = (w \notin mixed)
  BY DEF WriteFile, Turns
<1>2. Opened' = Opened \ {w} /\ w \in Opened
  BY <1>0, <1>1 DEF Opened, ListTypeOK
<1>3. listFile' = snapshot[w] \/ (w \in mixed /\ listFile' = Unreadable)
  BY DEF WriteFile
<1>4. ListTypeOK'
  <2>1. listFile' \in Content /\ turn' \in [Writer -> Turn]
    BY <1>0, <1>1, <1>3 DEF ListTypeOK, Content, Turn
  <2>2. serving' \in BOOLEAN
    BY <1>1
  <2> QED
    BY <1>0, <1>1, <2>1, <2>2 DEF ListTypeOK
<1>5. BootComesFirst'
  <2>1. serving' => turn'[Boot] = "answered"
    BY <1>0, <1>1 DEF BootComesFirst, ListTypeOK, Writer
  <2>2. turn'[Boot] # "folder" \/ UNCHANGED listFile
    <3>1. turn[Boot] = "folder" => FALSE
      BY <1>0, <1>1, ListAssumption DEF BootComesFirst, ListTypeOK, Writer
    <3> QED
      BY <1>0, <1>1, <3>1 DEF ListTypeOK, Writer
  <2>3. ~serving' => \A u \in Update : turn'[u] \notin {"folder", "open"}
    BY <1>0, <1>1 DEF BootComesFirst, ListTypeOK, Writer
  <2> QED
    BY <1>0, <1>1, <2>1, <2>2, <2>3 DEF BootComesFirst, ListTypeOK, Writer
<1>6. AloneUnlessMixed'
  BY <1>0, <1>1, <1>2 DEF AloneUnlessMixed
<1>7. LastTakesAll'
  <2>1. \A x \in Writer : turn'[x] # "folder" => turn[x] # "folder"
    BY <1>0, <1>1 DEF ListTypeOK
  <2> QED
    BY <1>0, <1>1, <1>2, <1>3, <2>1 DEF LastTakesAll
<1> QED
  BY <1>4, <1>5, <1>6, <1>7 DEF ListInv

\* A writing that fails leaves no writer that misses a change without a mark.
LEMMA FailureKeepsList ==
    ASSUME ListInv, NEW w \in Writer, SyncFails(w)
    PROVE  ListInv'
<1>0. ListTypeOK /\ BootComesFirst /\ LastTakesAll /\ AloneUnlessMixed
  BY DEF ListInv
<1>1. /\ turn[w] \in {"folder", "open"} /\ turn' = [turn EXCEPT ![w] = "failed"]
      /\ listFile' \in {listFile, Unreadable} /\ (turn[w] = "folder" => listFile' = listFile)
      /\ mixed' = mixed \cup {x \in Opened : snapshot[x] # list} /\ clean' = FALSE
      /\ UNCHANGED <<list, serving, update, snapshot>>
  BY DEF SyncFails, Turns
<1>2. /\ turn'[w] = "failed" /\ \A x \in Writer : x # w => turn'[x] = turn[x]
      /\ turn' \in [Writer -> Turn]
  BY <1>0, <1>1 DEF ListTypeOK, Turn
<1>3. Opened' = Opened \ {w}
  BY <1>2 DEF Opened
<1>4. ListTypeOK'
  BY <1>0, <1>1, <1>2 DEF ListTypeOK, Content
<1>5. BootComesFirst'
  <2>1. serving => w # Boot
    BY <1>0, <1>1 DEF BootComesFirst
  <2>2. turn'[Boot] = "folder" => turn[Boot] = "folder" /\ w # Boot
    BY <1>2 DEF Writer
  <2>3. turn[Boot] = "folder" => ~serving /\ w = Boot
    BY <1>0, <1>1 DEF BootComesFirst, Writer
  <2>4. \A u \in Update : turn'[u] \in {"folder", "open"} => turn[u] \in {"folder", "open"}
    BY <1>2 DEF Writer
  <2> QED
    BY <1>0, <1>1, <1>2, <2>1, <2>2, <2>3, <2>4 DEF BootComesFirst, Writer
<1>6. AloneUnlessMixed'
  BY <1>0, <1>1, <1>3 DEF AloneUnlessMixed
<1>7. LastTakesAll'
  BY <1>1, <1>3 DEF LastTakesAll
<1> QED
  BY <1>4, <1>5, <1>6, <1>7 DEF ListInv

LEMMA ListNextInv == ListInv /\ [PackageListNext]_listVars => ListInv'
<1> SUFFICES ASSUME ListInv, [PackageListNext]_listVars PROVE ListInv'
  OBVIOUS
<1> USE ListAssumption DEF ListInv, ListTypeOK, Writer, Turn
<1>1. CASE StartUp
  <2>1. /\ ~serving /\ serving' = serving /\ UNCHANGED <<listFile, update, snapshot, mixed, clean>>
        /\ list' = IF listFile \in {Unreadable, NoFile} THEN {} ELSE listFile
        /\ turn[Boot] = "new" /\ turn' = [turn EXCEPT ![Boot] = IF listFile = Unreadable
                                           THEN "failed" ELSE "folder"]
    BY <1>1 DEF StartUp, Fetch
  <2>2. Opened = {} /\ Opened' = {}
    BY <2>1 DEF Opened, BootComesFirst
  <2>3. ListTypeOK'
    <3>1. list' \subseteq PackageName
      BY <2>1 DEF Content
    <3> QED
      BY <2>1, <3>1
  <2> QED
    BY <2>1, <2>2, <2>3 DEF BootComesFirst, LastTakesAll, AloneUnlessMixed
<1>2. CASE PackageListCrash
  <2>1. ListTypeOK'
    BY <1>2 DEF PackageListCrash
  <2>2. ~serving' /\ Opened' = {} /\ \A w \in Writer : turn'[w] \in {"new", "failed"}
    BY <1>2 DEF PackageListCrash, Opened
  <2> QED
    BY <2>1, <2>2 DEF BootComesFirst, LastTakesAll, AloneUnlessMixed
<1>3. ASSUME NEW u \in Update, Add(u) \/ Remove(u) PROVE ListInv'
  BY <1>3, ChangeKeepsList
<1>4. ASSUME NEW w \in Writer, OpenFile(w) \/ WriteFile(w) \/ SyncFails(w) PROVE ListInv'
  BY <1>4, OpenKeepsList, WriteKeepsList, FailureKeepsList
<1>5. CASE UNCHANGED listVars
  BY <1>5 DEF listVars, BootComesFirst, LastTakesAll, AloneUnlessMixed, Opened
<1> QED
  BY <1>1, <1>2, <1>3, <1>4, <1>5 DEF PackageListNext

\* The list survives updates, crashes and restarts (local-database.ts, _sync and
\* init), for any packages, updates, failing writings and crashes: each update
\* that succeeds on its own leaves the file with the list as it is, also with
\* what failing ones left undone, and a list that cannot be read is not written
\* over.
THEOREM ListAlwaysKept == PackageListSpec => ListIsKept
<1>1. ListInv => ListIsOnDisk
  BY DEF ListInv, LastTakesAll, ListIsOnDisk, Opened
<1>2. ListInv /\ [PackageListNext]_listVars
      => [/\ ListIsOnDisk'
          /\ listFile = Unreadable /\ ~serving /\ Opened = {} => listFile' = listFile]_listVars
  <2> SUFFICES ASSUME ListInv, PackageListNext, listFile = Unreadable, ~serving, Opened = {}
               PROVE  listFile' = listFile
    BY <1>1, ListNextInv DEF ListInv, BootComesFirst, LastTakesAll, ListIsOnDisk, Opened
  <2>1. \A w \in Writer : turn[w] \notin {"folder", "open"}
    BY DEF ListInv, BootComesFirst, Writer, Opened
  <2> QED
    BY <2>1 DEF PackageListNext, StartUp, PackageListCrash, Add, Remove, OpenFile, WriteFile,
       SyncFails, Turns
<1> QED
  BY <1>2, ListInitInv, ListNextInv, PTL DEF PackageListSpec, ListIsKept
=============================================================================
