------------------------------ MODULE Htpasswd ------------------------------
(***************************************************************************)
(* The accounts of the htpasswd plugin (packages/plugins/htpasswd/src/     *)
(* htpasswd.ts with utils.ts, admins.ts and setup-link.ts): registration,  *)
(* the setup link that makes the first administrator (web/src/api/         *)
(* setup.ts), passwords, deletion, admin flags and logins, callback by     *)
(* callback.  A mutation takes the lock file, reads, edits and writes the  *)
(* user file in place; logins read it without the lock.  Without a user    *)
(* file there is nothing to lock.                                          *)
(*                                                                         *)
(* A password is its number; hashes are external.  fs.writeFile is         *)
(* external: it truncates the file when it opens it and writes it then.    *)
(*                                                                         *)
(* Operators named Faulty... are wrong variants of the operator that       *)
(* follows them; no action uses them.                                      *)
(***************************************************************************)
EXTENDS Naturals, FiniteSets

CONSTANTS
    Visitor,      \* requests
    Account,      \* user names
    Password,     \* positive numbers
    Missing,      \* no user file
    Nobody,
    Visits,       \* what the requests may be
    FirstFiles,   \* user files there may be at first
    Limits,       \* max_users there may be
    Closed,       \* a negative max_users
    MaxLinks,     \* setup links that may be issued
    MaxDiskErrors, MaxKills

\* register: adduser by the API; setup: the form behind the setup link;
\* change, reset, delete: of a password, by an admin, of an account;
\* grant and revoke: setAdminFlag; login: authenticate
Visiting == [kind : {"register", "setup", "change", "reset", "delete", "grant",
                     "revoke", "login"},
             account : Account, old : Password, new : Password, token : 1..MaxLinks]

\* the accounts of a file with their passwords; 0: no such account
Accounts == [Account -> Password \cup {0}]
NoAccounts == [a \in Account |-> 0]
Parsed(file) == IF file = Missing THEN NoAccounts ELSE file
Names(accounts) == {a \in Account : accounts[a] # 0}
HasUsers(file) == Names(Parsed(file)) # {}      \* htpasswdHasUsers

\* a max_users of 0 means none (constructor)
ASSUME AccountAssumption ==
    /\ IsFiniteSet(Account) /\ Password \subseteq Nat \ {0} /\ Visits \subseteq Visiting
    /\ FirstFiles \subseteq Accounts \cup {Missing} /\ Missing \notin Accounts
    /\ Limits \subseteq Nat \ {0} /\ MaxLinks \in Nat
    /\ Missing # Nobody /\ Visitor \cap {Missing, Nobody} = {}

VARIABLES
    userFile,    \* the htpasswd file
    admins,      \* the .admins file
    users,       \* this.users
    maxUsers,    \* this.maxUsers
    lockFile,    \* who holds the lock file; Missing: someone who died
    link,        \* the token in the .setup file, 0 if there is none
    links,       \* links issued so far
    visits,      \* what each request is
    place,       \* where it is
    text,        \* the accounts in the file as it read it
    bootstrap,   \* adduser was called by bootstrapAdmin
    ok,          \* what it will answer
    settled,     \* the accounts after all the writings that ended
    bare,        \* requests that went on without a lock
    torn,        \* the process died within a writing
    diskErrors, kills

accountGhosts == <<settled, bare, torn>>
files == <<userFile, admins>>
setup == <<link, links>>
faults == <<diskErrors, kills>>
hpVars == <<files, users, maxUsers, lockFile, setup, visits,
            place, text, bootstrap, ok, accountGhosts, faults>>

HtpasswdInit ==
    /\ userFile \in FirstFiles
    /\ admins = {} /\ users = NoAccounts
    /\ maxUsers \in Limits
    /\ lockFile = Nobody
    /\ links = 1 /\ link = IF HasUsers(userFile) THEN 0 ELSE 1
    /\ visits \in [Visitor -> Visits]
    /\ place = [v \in Visitor |-> "new"]
    /\ text = [v \in Visitor |-> NoAccounts]
    /\ bootstrap = [v \in Visitor |-> FALSE] /\ ok = bootstrap
    /\ settled = Parsed(userFile)
    /\ bare = {} /\ torn = FALSE
    /\ diskErrors = 0 /\ kills = 0

Kind(v) == visits[v].kind
Target(v) == visits[v].account
Moves(v, from, to) == place[v] = from /\ place' = [place EXCEPT ![v] = to]

-----------------------------------------------------------------------------
(* adduser and bootstrapAdmin up to the lock *)

\* sanityCheck of a new account against the known ones
Sane(v, known) ==
    IF bootstrap'[v] THEN known = {}
    ELSE /\ maxUsers # Closed
         /\ Target(v) \notin known
         /\ Cardinality(known) < maxUsers

\* bootstrapAdmin sets bootstrapRequest and adduser takes it, in one stretch
AddUser(v, bootstrapRequest) ==
    /\ bootstrap' = [bootstrap EXCEPT ![v] = bootstrapRequest]
    /\ Moves(v, "new", IF Sane(v, Names(users)) THEN "lock" ELSE "refused")

Register(v) ==
    /\ Kind(v) = "register"
    /\ AddUser(v, FALSE)
    /\ UNCHANGED <<files, users, maxUsers, lockFile, setup, visits, text, ok,
                   accountGhosts, faults>>

\* consumeSetup, synchronous; then bootstrapAdmin
Setup(v) ==
    /\ Kind(v) = "setup"
    /\ link' = IF link = visits[v].token THEN 0 ELSE link
    /\ IF link = visits[v].token /\ ~HasUsers(userFile)
       THEN AddUser(v, TRUE)
       ELSE Moves(v, "new", "refused") /\ UNCHANGED bootstrap
    /\ UNCHANGED <<files, users, maxUsers, lockFile, links, visits, text, ok,
                   accountGhosts, faults>>

Manage(v) ==
    /\ Kind(v) \in {"change", "reset", "delete"} /\ Moves(v, "new", "lock")
    /\ UNCHANGED <<files, users, maxUsers, lockFile, setup,
                   visits, text, bootstrap, ok, accountGhosts, faults>>

-----------------------------------------------------------------------------
(* Mutations of the user file *)

\* lockAndRead: without a file the request goes on, unlocked, with no text;
\* after ten seconds it gives up
Lock(v) ==
    /\ \/ userFile = Missing /\ Moves(v, "lock", "locked")
          /\ bare' = bare \cup {v} /\ UNCHANGED <<lockFile, ok>>
       \/ userFile # Missing /\ lockFile = Nobody /\ Moves(v, "lock", "locked")
          /\ lockFile' = v /\ UNCHANGED <<bare, ok>>
       \/ userFile # Missing /\ lockFile # Nobody /\ Moves(v, "lock", "answer")
          /\ UNCHANGED <<lockFile, bare, ok>>
    /\ UNCHANGED <<files, users, maxUsers, setup, visits, text,
                   bootstrap, settled, torn, faults>>

\* what the request makes of the accounts it read
Edited(v) ==
    [text[v] EXCEPT ![Target(v)] = IF Kind(v) = "delete" THEN 0 ELSE visits[v].new]

\* the checks on the text: the sanityCheck again, the old password, the account
Allowed(v, known) ==
    CASE Kind(v) \in {"register", "setup"} -> Sane(v, Names(known))
      [] Kind(v) = "change" -> known[Target(v)] = visits[v].old
      [] OTHER -> known[Target(v)] # 0

FaultyRead(v) ==
    /\ text' = [text EXCEPT ![v] = users]
    /\ UNCHANGED users

\* adduser and changePassword keep what they read
Read(v) ==
    /\ text' = [text EXCEPT ![v] = IF v \in bare THEN NoAccounts ELSE Parsed(userFile)]
    /\ users' = IF Kind(v) \in {"register", "setup", "change"} THEN text'[v] ELSE users

\* a deletion drops the admin flag when it starts to write
ReadAndEdit(v) ==
    /\ Read(v)
    /\ UNCHANGED bootstrap
    /\ IF Allowed(v, text'[v])
       THEN /\ Moves(v, "locked", "open")
            /\ admins' = IF Kind(v) = "delete" THEN admins \ {Target(v)} ELSE admins
       ELSE Moves(v, "locked", "unlock") /\ UNCHANGED admins
    /\ UNCHANGED <<userFile, maxUsers, lockFile, setup, visits,
                   ok, accountGhosts, faults>>

\* writeFile opens the file, or cannot
OpenUserFile(v) ==
    /\ \/ Moves(v, "open", "writing") /\ userFile' = NoAccounts
          /\ UNCHANGED diskErrors
       \/ Moves(v, "open", "unlock") /\ UNCHANGED userFile
          /\ diskErrors < MaxDiskErrors /\ diskErrors' = diskErrors + 1
    /\ UNCHANGED <<admins, users, maxUsers, lockFile, setup,
                   visits, text, bootstrap, ok, accountGhosts, kills>>

WriteText(v) ==
    /\ Moves(v, "writing", "written")
    /\ userFile' = Edited(v)
    /\ settled' = [settled EXCEPT ![Target(v)] = Edited(v)[Target(v)]]
    /\ UNCHANGED <<admins, users, maxUsers, lockFile, setup,
                   visits, text, bootstrap, ok, bare, torn, faults>>

\* the cache is what was written, then what the file has
Written(v) ==
    /\ Moves(v, "written", "unlock")
    /\ users' = Parsed(userFile)
    /\ ok' = [ok EXCEPT ![v] = TRUE]
    /\ UNCHANGED <<files, maxUsers, lockFile, setup, visits,
                   text, bootstrap, accountGhosts, faults>>

Unlock(v) ==
    /\ Moves(v, "unlock", "answer")
    /\ lockFile' = IF v \in bare THEN lockFile ELSE Nobody
    /\ UNCHANGED <<files, users, maxUsers, setup, visits, text,
                   bootstrap, ok, accountGhosts, faults>>

\* bootstrapAdmin records the first administrator once adduser answered
Answer(v) ==
    /\ Moves(v, "answer", IF ok[v] THEN "ok" ELSE "refused")
    /\ admins' = IF ok[v] /\ bootstrap[v] THEN admins \cup {Target(v)} ELSE admins
    /\ UNCHANGED <<userFile, users, maxUsers, lockFile, setup,
                   visits, text, bootstrap, ok, accountGhosts, faults>>

-----------------------------------------------------------------------------
(* Requests that read the file without the lock: the callback of reload *)
(* comes after the file was read                                          *)

Reload(v) ==
    /\ Kind(v) \in {"login", "grant", "revoke"}
    /\ Moves(v, "new", IF userFile # Missing THEN "seen"
                       ELSE IF Kind(v) = "login" THEN "refused" ELSE "known")
    /\ text' = [text EXCEPT ![v] = Parsed(userFile)]
    /\ UNCHANGED <<files, users, maxUsers, lockFile, setup,
                   visits, bootstrap, ok, accountGhosts, faults>>

Authenticate(v) ==
    /\ Kind(v) = "login"
    /\ users' = text[v]
    /\ Moves(v, "seen", IF text[v][Target(v)] = visits[v].old THEN "ok" ELSE "refused")
    /\ UNCHANGED <<files, maxUsers, lockFile, setup, visits,
                   text, bootstrap, ok, accountGhosts, faults>>

SetAdminFlag(v) ==
    /\ Kind(v) \in {"grant", "revoke"} /\ place[v] \in {"seen", "known"}
    /\ users' = IF place[v] = "seen" THEN text[v] ELSE users
    /\ LET known == Target(v) \in Names(users')
       IN  /\ Moves(v, place[v], IF known THEN "ok" ELSE "refused")
           /\ admins' = IF ~known THEN admins
                        ELSE IF Kind(v) = "grant" THEN admins \cup {Target(v)}
                        ELSE admins \ {Target(v)}
    /\ UNCHANGED <<userFile, maxUsers, lockFile, setup, visits,
                   text, bootstrap, ok, accountGhosts, faults>>

-----------------------------------------------------------------------------
(* Setup links, and the process *)

\* issueSetupLink: at start, and by the command line beside the server
NewLink ==
    /\ links < MaxLinks
    /\ IF HasUsers(userFile) THEN link' = 0 /\ UNCHANGED links
                             ELSE link' = links + 1 /\ links' = link'

IssueLink ==
    /\ NewLink
    /\ UNCHANGED <<files, users, maxUsers, lockFile, visits,
                   place, text, bootstrap, ok, accountGhosts, faults>>

LinkExpires ==
    /\ link # 0 /\ link' = 0
    /\ UNCHANGED <<files, users, maxUsers, lockFile, links,
                   visits, place, text, bootstrap, ok, accountGhosts, faults>>

\* a lock file nobody holds any more is taken after five minutes
LockIsStale ==
    /\ lockFile = Missing /\ lockFile' = Nobody
    /\ UNCHANGED <<files, users, maxUsers, setup, visits, place,
                   text, bootstrap, ok, accountGhosts, faults>>

Over(v) == place[v] \in {"ok", "refused", "dropped"}

Kill ==
    /\ kills < MaxKills /\ kills' = kills + 1
    /\ NewLink
    /\ users' = NoAccounts
    /\ lockFile' = IF lockFile = Nobody THEN Nobody ELSE Missing
    /\ torn' = (torn \/ \E v \in Visitor : place[v] = "writing")
    /\ place' = [v \in Visitor |-> IF place[v] = "new" \/ Over(v) THEN place[v]
                                   ELSE "dropped"]
    /\ UNCHANGED <<files, maxUsers, visits, text, bootstrap, ok, settled, bare,
                   diskErrors>>

VisitorStep(v) ==
    \/ Register(v) \/ Setup(v) \/ Manage(v)
    \/ Lock(v) \/ ReadAndEdit(v) \/ OpenUserFile(v) \/ WriteText(v) \/ Written(v)
    \/ Unlock(v) \/ Answer(v)
    \/ Reload(v) \/ Authenticate(v) \/ SetAdminFlag(v)

HtpasswdNext ==
    \/ \E v \in Visitor : VisitorStep(v)
    \/ IssueLink \/ LinkExpires \/ LockIsStale \/ Kill

HtpasswdSpec == HtpasswdInit /\ [][HtpasswdNext]_hpVars

-----------------------------------------------------------------------------
\* Between two writings the file has every account that was added and every
\* password that was set, and none that was deleted, however the mutations
\* overlap: each edits the text it read under the lock.  A request that found
\* no file has no lock, and a process that dies within a writing leaves the
\* file truncated.
AccountsStay ==
    bare = {} /\ ~torn /\ (\A v \in Visitor : place[v] # "writing")
        => Parsed(userFile) = settled

WithinLimit(n) ==
    \/ n <= IF maxUsers = Closed THEN 1 ELSE maxUsers
    \/ \E file \in FirstFiles : n <= Cardinality(Names(Parsed(file)))

\* max_users bounds the accounts, also when registrations overlap that found
\* room before the lock; a closed registration leaves it to the setup link.
\* (A file may have had more at first.)
LimitHolds == bare = {} => WithinLimit(Cardinality(Names(Parsed(userFile))))

\* The account a setup link makes is the first one: whoever registers while
\* the link is used, the administrator is not added to other accounts.  That
\* needs the lock, or one link and a closed registration as by default.
BootstrapIsFirst ==
    [][\A v \in Visitor :
         /\ place[v] = "writing" /\ place'[v] = "written"
         /\ bootstrap[v] /\ ~torn
         /\ bare = {} \/ (maxUsers = Closed /\ links = 1)
         => Names(settled) = {}]_hpVars

\* The user file has the accounts it should have, no more of them, and an
\* administrator who came first.
AccountsAreKept == [](AccountsStay /\ LimitHolds) /\ BootstrapIsFirst
=============================================================================
