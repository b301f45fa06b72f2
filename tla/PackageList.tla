---------------------------- MODULE PackageList -----------------------------
(***************************************************************************)
(* The list of the private packages: init, add, remove and _sync of        *)
(* packages/plugins/local-storage/src/local-database.ts, with              *)
(* loadPrivatePackages of pkg-utils.ts.  The list is changed in memory at  *)
(* once; _sync awaits the folder, takes the JSON of the list and writes    *)
(* the file in place; either may throw, and memory keeps the change.       *)
(* writeFile is external: it truncates the file when it opens it, then     *)
(* writes from its start.                                                  *)
(***************************************************************************)
EXTENDS Naturals, FiniteSets

CONSTANTS
    Update,      \* calls of add and remove, and the _sync of init
    PackageName,
    UpdateOps,
    Boot,        \* the _sync of init, not in Update
    Unreadable,  \* a file that does not parse: empty, or cut off
    NoFile,
    MaxCrashes, MaxListErrors

UpdateOp == [kind : {"add", "remove"}, name : PackageName]
Writer == Update \cup {Boot}
Content == (SUBSET PackageName) \cup {Unreadable, NoFile}

ASSUME ListAssumption == UpdateOps \subseteq UpdateOp /\ Boot \notin Update
                         /\ MaxListErrors \in Nat

VARIABLES
    list,      \* this.data.list
    listFile,  \* .verdaccio-db.json
    locked,    \* this.locked
    serving,   \* init is done
    update,    \* what each call asks for
    turn,      \* where it is
    snapshot,  \* the JSON it writes
    mixed,     \* writers whose writing overlaps another's, or misses a change
               \* whose own writing failed
    clean,     \* the last writing that ended succeeded and is not one of those
    crashes, listErrors

listVars == <<list, listFile, locked, serving, update, turn, snapshot, mixed,
              clean, crashes, listErrors>>

Turn == {"new", "folder", "open", "answered", "failed"}

\* fetchLocalPackages: a missing file is an empty list, an unreadable one
\* locks the database, so that the _sync of init throws and nothing starts
Fetch(content) ==
    /\ list' = IF content \in {Unreadable, NoFile} THEN {} ELSE content
    /\ locked' = (content = Unreadable)

PackageListInit ==
    /\ listFile \in (SUBSET PackageName) \cup {NoFile}
    /\ list = {} /\ locked = FALSE /\ serving = FALSE
    /\ update \in [Update -> UpdateOps]
    /\ turn = [w \in Writer |-> "new"]
    /\ snapshot = [w \in Writer |-> {}]
    /\ mixed = {} /\ clean = TRUE /\ crashes = 0 /\ listErrors = 0

Opened == {w \in Writer : turn[w] = "open"}
Turns(w, from, to) == turn[w] = from /\ turn' = [turn EXCEPT ![w] = to]

StartUp ==
    /\ ~serving /\ turn[Boot] = "new"
    /\ Fetch(listFile)
    /\ turn' = [turn EXCEPT ![Boot] = IF locked' THEN "failed" ELSE "folder"]
    /\ UNCHANGED <<listFile, serving, update, snapshot, mixed, clean, crashes,
                   listErrors>>

Add(u) ==
    /\ serving /\ update[u].kind = "add"
    /\ Turns(u, "new", IF update[u].name \in list THEN "answered" ELSE "folder")
    /\ list' = list \cup {update[u].name}
    /\ UNCHANGED <<listFile, locked, serving, update, snapshot, mixed, clean,
                   crashes, listErrors>>

Remove(u) ==
    /\ serving /\ update[u].kind = "remove" /\ Turns(u, "new", "folder")
    /\ list' = list \ {update[u].name}
    /\ UNCHANGED <<listFile, locked, serving, update, snapshot, mixed, clean,
                   crashes, listErrors>>

FaultyOpenFile(w) ==
    IF Opened # {}
    THEN /\ Turns(w, "folder", "answered")
         /\ UNCHANGED <<list, listFile, locked, serving, update, snapshot, mixed,
                        clean, crashes, listErrors>>
    ELSE /\ Turns(w, "folder", "open")
         /\ snapshot' = [snapshot EXCEPT ![w] = list]
         /\ listFile' = Unreadable /\ mixed' = mixed \ {w}
         /\ UNCHANGED <<list, locked, serving, update, clean, crashes, listErrors>>

\* the folder is there: the JSON of the list as it is now, and the file is
\* truncated
OpenFile(w) ==
    /\ Turns(w, "folder", "open")
    /\ snapshot' = [snapshot EXCEPT ![w] = list]
    /\ listFile' = Unreadable
    /\ mixed' = IF Opened = {} THEN mixed \ {w} ELSE mixed \cup Opened \cup {w}
    /\ UNCHANGED <<list, locked, serving, update, clean, crashes, listErrors>>

\* _sync throws: mkdir or the opening of the file failed, or the writing after
\* it was cut off; the call rejects and memory keeps what it changed
SyncFails(w) ==
    /\ listErrors < MaxListErrors /\ listErrors' = listErrors + 1
    /\ \/ Turns(w, "folder", "failed") /\ UNCHANGED listFile
       \/ Turns(w, "open", "failed") /\ listFile' \in {listFile, Unreadable}
    /\ mixed' = mixed \cup {x \in Opened : snapshot[x] # list}
    /\ clean' = FALSE
    /\ UNCHANGED <<list, locked, serving, update, snapshot, crashes>>

\* over a longer text that another writer left, the end of that text stays
WriteFile(w) ==
    /\ Turns(w, "open", "answered")
    /\ listFile' = snapshot[w] \/ (w \in mixed /\ listFile' = Unreadable)
    /\ clean' = (w \notin mixed)
    /\ serving' = (serving \/ w = Boot)
    /\ UNCHANGED <<list, locked, update, snapshot, mixed, crashes, listErrors>>

\* a file that is being written stays cut off
PackageListCrash ==
    /\ crashes < MaxCrashes /\ crashes' = crashes + 1
    /\ turn' = [w \in Writer |-> IF w = Boot THEN "new"
                                 ELSE IF turn[w] = "new" THEN "new" ELSE "failed"]
    /\ serving' = FALSE /\ locked' = FALSE /\ list' = {}
    /\ mixed' = {} /\ clean' = TRUE
    /\ UNCHANGED <<listFile, update, snapshot, listErrors>>

PackageListNext ==
    \/ StartUp \/ PackageListCrash
    \/ \E u \in Update : Add(u) \/ Remove(u)
    \/ \E w \in Writer : OpenFile(w) \/ WriteFile(w) \/ SyncFails(w)

PackageListSpec == PackageListInit /\ [][PackageListNext]_listVars

-----------------------------------------------------------------------------
\* Once no update is under way the file has the list that is in memory, unless
\* the last two writings ran into each other or the last one failed: each
\* update writes the list as it is when its file is opened, not as it was when
\* the update was made, so the first writing that succeeds on its own also
\* writes what those before it left undone.
ListIsOnDisk ==
    serving /\ clean /\ (\A w \in Writer : turn[w] \notin {"folder", "open"})
        => listFile = list

\* The list of the packages survives updates, crashes and restarts: no step
\* leaves the file without the list, and a list that cannot be read is never
\* written over, because the process does not start on it ("only recreate if
\* file not found to prevent data loss").
ListIsKept ==
    [][/\ ListIsOnDisk'
       /\ listFile = Unreadable /\ ~serving /\ Opened = {} => listFile' = listFile]_listVars
=============================================================================
