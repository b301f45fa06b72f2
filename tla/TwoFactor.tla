----------------------------- MODULE TwoFactor ------------------------------
(***************************************************************************)
(* Two-factor authentication of one user: TfaStore                         *)
(* (packages/auth/src/tfa-store.ts), the middleware requireOtp and         *)
(* requirePackagePublishOtp (packages/api/src/require-otp.ts) and the      *)
(* handlers that change or ask for the record.  The registry API, the      *)
(* profile endpoint, the web login and the admin endpoint each make a      *)
(* TfaStore of their own, with queues of its own, over the same row of the *)
(* token database; queues and rows of different users never meet.          *)
(*                                                                         *)
(* The calls of the token database are one step each (TokenDatabase);      *)
(* TfaStore.save is two of them.  Time is counted in TOTP periods.  A code *)
(* is what it proves: a secret with a period, or one of the recovery codes *)
(* handed out for a secret.  Passwords and permissions are external.       *)
(***************************************************************************)
EXTENDS Integers, FiniteSets, Sequences

CONSTANTS
    Request,
    None,
    Requests,         \* what the requests may be
    FirstRecord,      \* records the user may have at first
    MaxSecrets,       \* enrolments
    Now,              \* the clock stops there
    Window,           \* TOTP_WINDOW
    RecoveryCount,    \* RECOVERY_CODE_COUNT
    MaxFailed,        \* MAX_FAILED_ATTEMPTS
    Lockout,          \* LOCKOUT_MS
    StoresOverlap,    \* mutations of different stores may overlap
    MaxStops

Secret == 1..MaxSecrets
Period == 0..Now
Otp == [secret : Secret, period : Period]
Recovery == [secret : Secret, number : 1..RecoveryCount]
Code == Otp \cup Recovery

TfaRecord ==
    [mode        : {"auth-only", "auth-and-writes"},
     pending     : BOOLEAN,
     secret      : Secret,
     recovery    : SUBSET (1..RecoveryCount),
     failed      : 0..MaxFailed - 1,
     lockedUntil : 0..Now + Lockout,          \* 0: not set
     lastUsed    : {-1} \cup Period]          \* -1: not set

\* auth: what needs a code in both modes (tokens, password, CLI login);
\* write: only in "auth-and-writes"; publish: a write to a package, which may
\* ask for a code itself; login: the login dialog of the web;
\* begin, complete, disable: the profile endpoint, after requireOtp;
\* reset: the admin endpoint
Kinds == {"auth", "write", "publish", "login", "begin", "complete", "disable",
          "reset"}
TfaRequest == [kind : Kinds, code : Code \cup {None}]

ASSUME TfaAssumption ==
    /\ MaxSecrets \in Nat /\ Now \in Nat /\ Window \in Nat /\ RecoveryCount \in Nat
    /\ MaxFailed \in Nat \ {0} /\ Lockout \in Nat /\ MaxStops \in Nat
    /\ Requests \subseteq TfaRequest
    /\ FirstRecord \subseteq {r \in TfaRecord : r.secret = 1}
    /\ StoresOverlap \in BOOLEAN
    /\ None \notin Request \cup Code \cup {"verify", "begin", "complete", "disable"}
    /\ None \notin [mode : {"auth-only", "auth-and-writes"}, pending : BOOLEAN,
                    secret : Nat, recovery : SUBSET Nat, failed : Int,
                    lockedUntil : Int, lastUsed : Int]

\* one TfaStore each: the registry API, the web login, the admin endpoint and
\* the profile endpoint
Stores == {"api", "web", "admin", "profile"}

VARIABLES
    now,        \* the clock
    rows,       \* the records of the user in the token database
    secrets,    \* secrets made so far
    mfa,        \* publish_requires_tfa of the package that is published to
    req,        \* what each request is
    pc,         \* where it is
    job,        \* the mutation of a store it waits for or runs
    store,      \* that store
    after,      \* the mutation that goes before it, None if none does
    tail,       \* the user's entry in userQueues of each store
    saving,     \* the record the mutation is to save, None for no record
    accepts,    \* what the mutation will answer
    spent,      \* the code a request was let in with (OTP_VERIFIED)
    misses,     \* codes refused since the last success, up to the lockout
    stops

queues == <<job, store, after, tail>>
ghosts == <<spent, misses>>
tfaVars == <<now, rows, secrets, mfa, req, pc, queues, saving, accepts, ghosts,
          stops>>

TfaInit ==
    /\ now = 1
    /\ rows \in {<<>>} \cup {<<r>> : r \in FirstRecord}
    /\ secrets = 1
    /\ mfa \in BOOLEAN
    /\ req \in [Request -> Requests]
    /\ pc = [r \in Request |-> "new"]
    /\ job = [r \in Request |-> None] /\ store = [r \in Request |-> "api"]
    /\ after = [r \in Request |-> None]
    /\ tail = [s \in Stores |-> None]
    /\ saving = [r \in Request |-> None]
    /\ accepts = [r \in Request |-> FALSE]
    /\ spent = [r \in Request |-> None]
    /\ misses = IF rows = <<>> THEN 0 ELSE rows[1].failed
    /\ stops = 0

-----------------------------------------------------------------------------
(* TfaStore: reading a record and comparing a code with it *)

\* get: the first row counts
Record == IF rows = <<>> THEN None ELSE rows[1]
Enabled(rec) == rec # None /\ ~rec.pending

\* verifyTotp
TotpMatches(rec, c) ==
    /\ c \in Otp
    /\ c.secret = rec.secret
    /\ c.period \in now - Window .. now + Window

LockedOut(rec) == rec.lockedUntil > now

FaultyFresh(rec, c) == TotpMatches(rec, c)

\* a code of a period that was not used, or of a later one
Fresh(rec, c) == TotpMatches(rec, c) /\ c.period > rec.lastUsed

RecoveryMatches(rec, c) ==
    c \in Recovery /\ c.secret = rec.secret /\ c.number \in rec.recovery

Succeeds(rec, c) == Fresh(rec, c) \/ RecoveryMatches(rec, c)

AfterSuccess(rec, c) ==
    IF c \in Otp
    THEN [rec EXCEPT !.failed = 0, !.lockedUntil = 0, !.lastUsed = c.period]
    ELSE [rec EXCEPT !.failed = 0, !.lockedUntil = 0, !.recovery = @ \ {c.number}]

\* registerFailure
AfterFailure(rec) ==
    IF rec.failed + 1 >= MaxFailed
    THEN [rec EXCEPT !.failed = 0, !.lockedUntil = now + Lockout]
    ELSE [rec EXCEPT !.failed = @ + 1]

Enrolment(secret, mode) ==
    [mode |-> mode, pending |-> TRUE, secret |-> secret, recovery |-> {},
     failed |-> 0, lockedUntil |-> 0, lastUsed |-> -1]

Confirmed(rec, c) ==
    [rec EXCEPT !.pending = FALSE, !.recovery = 1..RecoveryCount, !.failed = 0,
                !.lastUsed = c.period]

-----------------------------------------------------------------------------
(* enqueueUserMutation: a mutation goes after the last one of the user in *)
(* the same store; the entry is dropped when its mutation was the last     *)

FaultyDequeue(r) ==
    /\ after' = [q \in Request |-> IF after[q] = r THEN None ELSE after[q]]
    /\ tail' = [tail EXCEPT ![store[r]] = None]
    /\ job' = [job EXCEPT ![r] = None]
    /\ UNCHANGED store

Dequeue(r) ==
    /\ after' = [q \in Request |-> IF after[q] = r THEN None ELSE after[q]]
    /\ tail' = [tail EXCEPT ![store[r]] = IF @ = r THEN None ELSE @]
    /\ job' = [job EXCEPT ![r] = None]
    /\ UNCHANGED store

Enqueue(r, s, j) ==
    /\ job' = [job EXCEPT ![r] = j]
    /\ store' = [store EXCEPT ![r] = s]
    /\ after' = [after EXCEPT ![r] = tail[s]]
    /\ tail' = [tail EXCEPT ![s] = r]

At(r, label) == pc[r] = label
Go(r, label) == pc' = [pc EXCEPT ![r] = label]

\* the mutation ended: an accepted code lets the request on, a confirmed
\* enrolment, a new one and a disabling end it
FinishAs(r, ok) ==
    /\ Dequeue(r)
    /\ Go(r, IF ~ok THEN "challenged"
             ELSE IF job[r] = "verify" THEN "through" ELSE "done")
    /\ spent' = [spent EXCEPT ![r] =
                    IF ok /\ job[r] \in {"verify", "complete"} THEN req[r].code
                    ELSE @]

Running(r) == pc[r] \in {"read", "delete", "save"}
MayRun(r) ==
    StoresOverlap \/ \A q \in Request \ {r} : ~Running(q) \/ store[q] = store[r]

Starts(r) ==
    /\ At(r, "queued") /\ after[r] = None /\ MayRun(r)
    /\ CASE job[r] = "begin" ->
              /\ secrets < MaxSecrets /\ secrets' = secrets + 1
              /\ \E mode \in {"auth-only", "auth-and-writes"} :
                    saving' = [saving EXCEPT ![r] = Enrolment(secrets', mode)]
              /\ accepts' = [accepts EXCEPT ![r] = TRUE]
              /\ Go(r, "delete")
         [] job[r] = "disable" ->
              /\ saving' = [saving EXCEPT ![r] = None]
              /\ accepts' = [accepts EXCEPT ![r] = TRUE]
              /\ Go(r, "delete") /\ UNCHANGED secrets
         [] OTHER -> Go(r, "read") /\ UNCHANGED <<saving, accepts, secrets>>
    /\ UNCHANGED <<now, rows, mfa, req, queues, ghosts, stops>>

\* what verify and completeEnrolment make of the record they read
WillSave(r, rec, ok) ==
    /\ saving' = [saving EXCEPT ![r] = rec]
    /\ accepts' = [accepts EXCEPT ![r] = ok]
    /\ Go(r, "delete")
    /\ UNCHANGED <<queues, ghosts>>
Refuses(r) == FinishAs(r, FALSE) /\ UNCHANGED <<saving, accepts, misses>>

Verify(r) ==
    /\ At(r, "read") /\ job[r] = "verify"
    /\ LET c == req[r].code
       IN  IF ~Enabled(Record) \/ LockedOut(Record) THEN Refuses(r)
           ELSE IF Succeeds(Record, c)
           THEN WillSave(r, AfterSuccess(Record, c), TRUE)
           ELSE WillSave(r, AfterFailure(Record), FALSE)
    /\ UNCHANGED <<now, rows, secrets, mfa, req, stops>>

CompleteEnrolment(r) ==
    /\ At(r, "read") /\ job[r] = "complete"
    /\ LET c == req[r].code
       IN  IF Record # None /\ Record.pending /\ TotpMatches(Record, c)
           THEN WillSave(r, Confirmed(Record, c), TRUE)
           ELSE Refuses(r)
    /\ UNCHANGED <<now, rows, secrets, mfa, req, stops>>

\* save and disable: the rows are deleted first
DeleteRow(r) ==
    /\ At(r, "delete")
    /\ rows' = <<>>
    /\ IF saving[r] = None
       THEN FinishAs(r, TRUE) /\ misses' = 0
       ELSE Go(r, "save") /\ UNCHANGED <<queues, ghosts>>
    /\ UNCHANGED <<now, secrets, mfa, req, saving, accepts, stops>>

\* then the record is added
SaveRow(r) ==
    /\ At(r, "save")
    /\ rows' = Append(rows, saving[r])
    /\ FinishAs(r, accepts[r])
    /\ misses' = IF accepts[r] \/ misses + 1 = MaxFailed THEN 0 ELSE misses + 1
    /\ saving' = [saving EXCEPT ![r] = None]
    /\ UNCHANGED <<now, secrets, mfa, req, accepts, stops>>

-----------------------------------------------------------------------------
(* The handlers *)

\* requireOtp, and the same in the web login: whoever has a record that
\* covers the request needs a code
RequireOtp(r) ==
    /\ At(r, "new") /\ req[r].kind # "reset"
    /\ IF ~Enabled(Record) \/ (req[r].kind \in {"write", "publish"}
                               /\ Record.mode = "auth-only")
       THEN Go(r, "through") /\ UNCHANGED queues
       ELSE IF req[r].code = None
       THEN Go(r, "challenged") /\ UNCHANGED queues
       ELSE /\ Go(r, "queued")
            /\ Enqueue(r, IF req[r].kind = "login" THEN "web" ELSE "api", "verify")
    /\ UNCHANGED <<now, rows, secrets, mfa, req, saving, accepts, ghosts, stops>>

\* requirePackagePublishOtp; a code that requireOtp took is not asked for again
RequirePackagePublishOtp(r) ==
    /\ At(r, "through") /\ req[r].kind = "publish"
    /\ IF mfa /\ ~Enabled(Record)
       THEN Go(r, "forbidden") /\ UNCHANGED queues
       ELSE IF ~mfa \/ spent[r] # None
       THEN Go(r, "done") /\ UNCHANGED queues
       ELSE IF req[r].code = None
       THEN Go(r, "challenged") /\ UNCHANGED queues
       ELSE Go(r, "queued") /\ Enqueue(r, "api", "verify")
    /\ UNCHANGED <<now, rows, secrets, mfa, req, saving, accepts, ghosts, stops>>

\* the profile endpoint: begin and disable check the password first
HandleTfa(r) ==
    /\ At(r, "through") /\ req[r].kind \in {"begin", "complete", "disable"}
    /\ \/ Go(r, "queued") /\ Enqueue(r, "profile", req[r].kind)
       \/ /\ req[r].kind # "complete"
          /\ Go(r, "refused") /\ UNCHANGED queues
    /\ UNCHANGED <<now, rows, secrets, mfa, req, saving, accepts, ghosts, stops>>

Handle(r) ==
    /\ At(r, "through") /\ req[r].kind \in {"auth", "write", "login"}
    /\ Go(r, "done")
    /\ UNCHANGED <<now, rows, secrets, mfa, req, queues, saving, accepts, ghosts,
                   stops>>

AdminReset(r) ==
    /\ At(r, "new") /\ req[r].kind = "reset"
    /\ Go(r, "queued") /\ Enqueue(r, "admin", "disable")
    /\ UNCHANGED <<now, rows, secrets, mfa, req, saving, accepts, ghosts, stops>>

Tick ==
    /\ now < Now /\ now' = now + 1
    /\ UNCHANGED <<rows, secrets, mfa, req, pc, queues, saving, accepts, ghosts,
                   stops>>

Ended(r) == pc[r] \in {"done", "challenged", "forbidden", "refused", "dropped"}

\* the process dies and starts again; the rows are on disk
TfaRestart ==
    /\ stops < MaxStops /\ stops' = stops + 1
    /\ pc' = [r \in Request |-> IF At(r, "new") \/ Ended(r) THEN pc[r] ELSE "dropped"]
    /\ job' = [r \in Request |-> None]
    /\ after' = job' /\ saving' = job'
    /\ tail' = [s \in Stores |-> None]
    /\ misses' = IF rows = <<>> THEN 0 ELSE misses
    /\ UNCHANGED <<now, rows, secrets, mfa, req, store, accepts, spent>>

TfaStep(r) ==
    \/ RequireOtp(r) \/ RequirePackagePublishOtp(r) \/ HandleTfa(r) \/ Handle(r)
    \/ AdminReset(r)
    \/ Starts(r) \/ Verify(r) \/ CompleteEnrolment(r) \/ DeleteRow(r) \/ SaveRow(r)

TfaNext == (\E r \in Request : TfaStep(r)) \/ Tick \/ TfaRestart

TfaSpec == TfaInit /\ [][TfaNext]_tfaVars

-----------------------------------------------------------------------------
\* A code lets one request in: a one-time password is refused once its period
\* was used, also the one that confirmed the enrolment, and a recovery code
\* once it was taken out, however the requests overlap.
CodeSpentOnce ==
    \A r, q \in Request :
        r # q /\ spent[r] # None => spent[r] # spent[q]

\* Refused codes are counted one by one until they lock the user out: no
\* mutation writes a count that leaves out another's.
FailuresAreCounted ==
    rows # <<>> /\ Enabled(rows[1]) => rows[1].failed = misses

Unanswered(r) == ~At(r, "new") /\ ~Ended(r)

\* What holds again and again: no request is left in a queue; a mutation that
\* ends lets the next one start.
RequestsEnded == \A r \in Request : ~Unanswered(r)
=============================================================================
