-------------------------- MODULE TwoFactorProofs ---------------------------
(***************************************************************************)
(* A code lets one request in: CodeSpentOnce of TwoFactor for any requests,*)
(* codes, records, enrolments and restarts, when mutations of different    *)
(* stores do not overlap.                                                  *)
(*                                                                         *)
(* The argument has two parts.  The entries of userQueues order the        *)
(* mutations of a store, so that one runs at a time (QueueInv, OneRunner). *)
(* A record that is stored, or about to be, has used up every code that    *)
(* let a request in (CodeInv).                                             *)
(***************************************************************************)
EXTENDS TwoFactor, TLAPS

Rec == [mode : {"auth-only", "auth-and-writes"}, pending : BOOLEAN,
        secret : Nat, recovery : SUBSET Nat, failed : Int,
        lockedUntil : Int, lastUsed : Int]
Job == {"verify", "begin", "complete", "disable"}
Label == {"new", "queued", "read", "delete", "save", "through", "challenged",
          "forbidden", "refused", "dropped", "done"}

TfaTypeOK ==
    /\ now \in Int /\ secrets \in Nat /\ rows \in Seq(Rec)
    /\ req \in [Request -> TfaRequest]
    /\ pc \in [Request -> Label]
    /\ job \in [Request -> Job \cup {None}]
    /\ store \in [Request -> Stores]
    /\ after \in [Request -> Request \cup {None}]
    /\ tail \in [Stores -> Request \cup {None}]
    /\ saving \in [Request -> Rec \cup {None}]
    /\ accepts \in [Request -> BOOLEAN]
    /\ spent \in [Request -> Code \cup {None}]

-----------------------------------------------------------------------------
(* The queues *)

HasJob(r) == job[r] # None

\* A store has one first mutation; a mutation waits for one of its store and no
\* two for the same; none waits for the last one, which `tail` names; a store
\* whose entry was dropped has no first mutation.
QueueInv ==
    /\ \A r, q \in Request :
          HasJob(r) /\ HasJob(q) /\ store[r] = store[q] /\ after[r] = None /\ after[q] = None
          => r = q
    /\ \A r, q \in Request :
          HasJob(r) /\ HasJob(q) /\ after[r] = after[q] /\ after[r] # None => r = q
    /\ \A r \in Request : HasJob(r) /\ after[r] # None =>
          /\ HasJob(after[r]) /\ store[after[r]] = store[r]
          /\ after[r] # tail[store[r]]
    /\ \A r \in Request : HasJob(r) /\ after[r] = None => tail[store[r]] # None
    /\ \A s \in Stores : tail[s] # None => HasJob(tail[s]) /\ store[tail[s]] = s

\* A mutation that is queued goes behind the last one of its store.
LEMMA EnqueueKeeps ==
    ASSUME TfaTypeOK, QueueInv, NEW r \in Request, job[r] = None,
           NEW s \in Stores, NEW j \in Job, Enqueue(r, s, j)
    PROVE  QueueInv'
<1> USE DEF TfaTypeOK, HasJob
<1>1. /\ job' = [job EXCEPT ![r] = j] /\ store' = [store EXCEPT ![r] = s]
      /\ after' = [after EXCEPT ![r] = tail[s]] /\ tail' = [tail EXCEPT ![s] = r]
      /\ j # None /\ None \notin Request
  BY TfaAssumption DEF Enqueue, Job
<1>2. \A q \in Request \ {r} : /\ HasJob(q)' = HasJob(q) /\ store'[q] = store[q]
                               /\ after'[q] = after[q]
  BY <1>1
<1>3. HasJob(r)' /\ store'[r] = s /\ after'[r] = tail[s] /\ ~HasJob(r) /\ tail'[s] = r
  BY <1>1
<1>4. tail[s] # None => tail[s] \in Request \ {r} /\ HasJob(tail[s]) /\ store[tail[s]] = s
  BY <1>3 DEF QueueInv
<1>5. \A q \in Request \ {r} : HasJob(q) /\ after[q] # None =>
          after[q] \in Request \ {r} /\ HasJob(after[q])
  BY <1>3 DEF QueueInv
<1>6. \A x, q \in Request :
          HasJob(x)' /\ HasJob(q)' /\ store'[x] = store'[q] /\ after'[x] = None
          /\ after'[q] = None => x = q
  BY <1>2, <1>3 DEF QueueInv
<1>7. \A x, q \in Request :
          HasJob(x)' /\ HasJob(q)' /\ after'[x] = after'[q] /\ after'[x] # None => x = q
  <2> TAKE x, q \in Request
  <2> HAVE HasJob(x)' /\ HasJob(q)' /\ after'[x] = after'[q] /\ after'[x] # None
  <2>1. CASE x # r /\ q # r
    BY <2>1, <1>2 DEF QueueInv
  <2>2. CASE x = r /\ q # r
    BY <2>2, <1>2, <1>3, <1>4 DEF QueueInv
  <2>3. CASE x # r /\ q = r
    BY <2>3, <1>2, <1>3, <1>4 DEF QueueInv
  <2> QED
    BY <2>1, <2>2, <2>3
<1>8. \A x \in Request : HasJob(x)' /\ after'[x] # None =>
          /\ job'[after'[x]] # None /\ store'[after'[x]] = store'[x]
          /\ after'[x] # tail'[store'[x]]
  <2> TAKE x \in Request
  <2> HAVE HasJob(x)' /\ after'[x] # None
  <2>1. CASE x = r
    BY <2>1, <1>2, <1>3, <1>4
  <2>2. CASE x # r
    <3>1. after[x] \in Request \ {r} /\ HasJob(after[x]) /\ store[after[x]] = store[x]
          /\ after[x] # tail[store[x]]
      BY <2>2, <1>2, <1>5 DEF QueueInv
    <3> QED
      BY <2>2, <3>1, <1>1, <1>2
  <2> QED
    BY <2>1, <2>2
<1>9. \A x \in Request : HasJob(x)' /\ after'[x] = None => tail'[store'[x]] # None
  BY <1>1, <1>2, <1>3 DEF QueueInv
<1>10. \A t \in Stores : tail'[t] # None => job'[tail'[t]] # None /\ store'[tail'[t]] = t
  <2> TAKE t \in Stores
  <2> HAVE tail'[t] # None
  <2>1. CASE t = s
    BY <2>1, <1>3
  <2>2. CASE t # s
    <3>1. tail'[t] = tail[t] /\ tail[t] \in Request /\ HasJob(tail[t]) /\ store[tail[t]] = t
      BY <2>2, <1>1 DEF QueueInv
    <3> QED
      BY <3>1, <1>2, <1>3
  <2> QED
    BY <2>1, <2>2
<1> QED
  BY <1>6, <1>7, <1>8, <1>9, <1>10 DEF QueueInv

\* The first mutation of a store that ends lets the one behind it go first.
LEMMA DequeueKeeps ==
    ASSUME TfaTypeOK, QueueInv, NEW r \in Request, HasJob(r), after[r] = None, Dequeue(r)
    PROVE  QueueInv'
<1> USE DEF TfaTypeOK, HasJob
<1>1. /\ \A q \in Request : after'[q] = IF after[q] = r THEN None ELSE after[q]
      /\ tail' = [tail EXCEPT ![store[r]] = IF @ = r THEN None ELSE @]
      /\ job' = [job EXCEPT ![r] = None] /\ store' = store /\ None \notin Request
  BY TfaAssumption DEF Dequeue
<1>2. ~HasJob(r)' /\ \A q \in Request \ {r} : HasJob(q)' = HasJob(q)
  BY <1>1
<1>3. \A x, q \in Request :
          HasJob(x)' /\ HasJob(q)' /\ store'[x] = store'[q] /\ after'[x] = None
          /\ after'[q] = None => x = q
  <2> TAKE x, q \in Request
  <2> HAVE HasJob(x)' /\ HasJob(q)' /\ store'[x] = store'[q] /\ after'[x] = None
           /\ after'[q] = None
  <2>1. x # r /\ q # r /\ HasJob(x) /\ HasJob(q) /\ store[x] = store[q] /\ r # None
        /\ after[x] \in {None, r} /\ after[q] \in {None, r}
    BY <1>1, <1>2
  <2>2. after[x] = r => store[x] = store[r]
    BY <2>1 DEF QueueInv
  <2>3. after[q] = r => store[q] = store[r]
    BY <2>1 DEF QueueInv
  <2> QED
    BY <2>1, <2>2, <2>3 DEF QueueInv
<1>4. \A x, q \in Request :
          HasJob(x)' /\ HasJob(q)' /\ after'[x] = after'[q] /\ after'[x] # None => x = q
  BY <1>1, <1>2 DEF QueueInv
<1>5. \A x \in Request : HasJob(x)' /\ after'[x] # None =>
          /\ job'[after'[x]] # None /\ store'[after'[x]] = store'[x]
          /\ after'[x] # tail'[store'[x]]
  <2> TAKE x \in Request
  <2> HAVE HasJob(x)' /\ after'[x] # None
  <2>1. /\ x # r /\ after'[x] = after[x] /\ after[x] \in Request \ {r}
        /\ HasJob(x) /\ HasJob(after[x]) /\ store[after[x]] = store[x]
        /\ after[x] # tail[store[x]]
    BY <1>1, <1>2 DEF QueueInv
  <2>2. tail'[store[x]] \in {None, tail[store[x]]}
    BY <1>1
  <2> QED
    BY <2>1, <2>2, <1>1, <1>2
<1>6. \A x \in Request : HasJob(x)' /\ after'[x] = None => tail'[store'[x]] # None
  <2> TAKE x \in Request
  <2> HAVE HasJob(x)' /\ after'[x] = None
  <2>1. x # r /\ HasJob(x) /\ after[x] \in {None, r} /\ store' = store
    BY <1>1, <1>2
  <2>2. CASE store[x] # store[r]
    <3>1. after[x] = None
      BY <2>1, <2>2 DEF QueueInv
    <3> QED
      BY <2>1, <2>2, <3>1, <1>1 DEF QueueInv
  <2>3. CASE store[x] = store[r]
    <3>1. after[x] = r
      BY <2>1, <2>3 DEF QueueInv
    <3>2. tail[store[r]] # r /\ tail[store[r]] # None
      BY <2>1, <2>3, <3>1, <1>1 DEF QueueInv
    <3> QED
      BY <2>1, <2>3, <3>2, <1>1
  <2> QED
    BY <2>2, <2>3
<1>7. \A t \in Stores : tail'[t] # None => job'[tail'[t]] # None /\ store'[tail'[t]] = t
  <2> TAKE t \in Stores
  <2> HAVE tail'[t] # None
  <2>1. tail'[t] = tail[t] /\ tail[t] # r
    <3>1. CASE t = store[r]
      BY <3>1, <1>1
    <3>2. CASE t # store[r]
      BY <3>2, <1>1 DEF QueueInv
    <3> QED
      BY <3>1, <3>2
  <2> QED
    BY <2>1, <1>1, <1>2 DEF QueueInv
<1> QED
  BY <1>3, <1>4, <1>5, <1>6, <1>7 DEF QueueInv
-----------------------------------------------------------------------------
(* Types *)

LEMMA CodesAreOneKind == Otp \cap Recovery = {}
  BY DEF Otp, Recovery

\* A record stays one when a field of it is set.
LEMMA FieldsAreSet ==
    \A rec \in Rec :
           /\ [rec EXCEPT !.pending = FALSE] \in Rec
           /\ \A v \in Int : /\ [rec EXCEPT !.failed = v] \in Rec
                             /\ [rec EXCEPT !.lockedUntil = v] \in Rec
                             /\ [rec EXCEPT !.lastUsed = v] \in Rec
           /\ \A v \in SUBSET Nat : [rec EXCEPT !.recovery = v] \in Rec
<1> TAKE rec \in Rec
<1>1. /\ [rec EXCEPT !.pending = FALSE] \in Rec
      /\ \A v \in SUBSET Nat : [rec EXCEPT !.recovery = v] \in Rec
  BY DEF Rec
<1>2. \A v \in Int : [rec EXCEPT !.failed = v] \in Rec
  BY DEF Rec
<1>3. \A v \in Int : [rec EXCEPT !.lockedUntil = v] \in Rec
  BY DEF Rec
<1>4. \A v \in Int : [rec EXCEPT !.lastUsed = v] \in Rec
  BY DEF Rec
<1> QED
  BY <1>1, <1>2, <1>3, <1>4

\* What the store makes of a record is a record.
LEMMA RecordsStayRecords ==
    ASSUME NEW rec \in Rec, NEW c \in Code, now \in Int
    PROVE  /\ AfterSuccess(rec, c) \in Rec
           /\ TotpMatches(rec, c) => Confirmed(rec, c) \in Rec
<1> Now \in Nat /\ MaxFailed \in Nat /\ Lockout \in Nat /\ RecoveryCount \in Nat
  BY TfaAssumption
<1>1. c \in Otp => c.period \in Int
  BY DEF Otp, Period
<1>2. c \notin Otp => c.number \in Int
  BY TfaAssumption DEF Code, Recovery
<1> DEFINE cleared == [rec EXCEPT !.failed = 0]
           unlocked == [cleared EXCEPT !.lockedUntil = 0]
<1>a. cleared \in Rec /\ cleared.recovery = rec.recovery
  BY FieldsAreSet DEF Rec
<1>b. unlocked \in Rec /\ unlocked.recovery \in SUBSET Nat
  BY <1>a, FieldsAreSet DEF Rec
<1>3. AfterSuccess(rec, c) \in Rec
  <2>1. CASE c \in Otp
    <3>1. [unlocked EXCEPT !.lastUsed = c.period] \in Rec
      BY <1>1, <1>b, <2>1, FieldsAreSet
    <3> QED
      BY <2>1, <3>1 DEF AfterSuccess
  <2>2. CASE c \notin Otp
    <3>1. [unlocked EXCEPT !.recovery = unlocked.recovery \ {c.number}] \in Rec
      BY <1>b, FieldsAreSet
    <3> QED
      BY <2>2, <3>1 DEF AfterSuccess
  <2> QED
    BY <2>1, <2>2
<1>4. TotpMatches(rec, c) => Confirmed(rec, c) \in Rec
  <2> HAVE TotpMatches(rec, c)
  <2>1. c.period \in Int /\ 1..RecoveryCount \in SUBSET Nat
    BY <1>1 DEF TotpMatches
  <2> DEFINE live == [rec EXCEPT !.pending = FALSE]
             coded == [live EXCEPT !.recovery = 1..RecoveryCount]
             zero == [coded EXCEPT !.failed = 0]
  <2>2. live \in Rec
    BY FieldsAreSet
  <2>3. coded \in Rec
    BY <2>1, <2>2, FieldsAreSet
  <2>4. zero \in Rec
    BY ONLY <2>3, FieldsAreSet, 0 \in Int
  <2>5. [zero EXCEPT !.lastUsed = c.period] \in Rec
    BY <2>1, <2>4, FieldsAreSet
  <2> QED
    BY <2>5 DEF Confirmed
<1> QED
  BY <1>3, <1>4

LEMMA FailureIsRecord ==
    ASSUME NEW rec \in Rec, now \in Int
    PROVE  AfterFailure(rec) \in Rec
<1>1. rec.failed \in Int /\ now + Lockout \in Int
  BY TfaAssumption DEF Rec
<1>2. [rec EXCEPT !.failed = rec.failed + 1] \in Rec
  BY ONLY <1>1, FieldsAreSet, rec \in Rec, rec.failed + 1 \in Int
<1>3. [rec EXCEPT !.failed = 0] \in Rec
  BY ONLY FieldsAreSet, rec \in Rec, 0 \in Int
<1>4. [[rec EXCEPT !.failed = 0] EXCEPT !.lockedUntil = now + Lockout] \in Rec
  BY <1>1, <1>3, FieldsAreSet
<1> QED
  BY <1>2, <1>4 DEF AfterFailure

LEMMA EnrolmentIsRecord ==
    ASSUME NEW s \in Nat, NEW m \in {"auth-only", "auth-and-writes"}
    PROVE  Enrolment(s, m) \in Rec /\ Enrolment(s, m).secret = s
  BY DEF Enrolment, Rec

LEMMA NoneIsNoRecord == None \notin Rec /\ None \notin Code /\ None \notin Request /\ None \notin Job
  BY TfaAssumption DEF Rec, Job

LEMMA TypeAtFirst == TfaInit => TfaTypeOK
<1> SUFFICES ASSUME TfaInit PROVE TfaTypeOK
  OBVIOUS
<1>1. FirstRecord \subseteq Rec
  BY TfaAssumption DEF TfaRecord, Rec, Secret, Period
<1>2. rows \in Seq(Rec)
  <2>1. CASE rows = <<>>
    BY <2>1
  <2>2. ASSUME NEW r \in FirstRecord, rows = <<r>> PROVE rows \in Seq(Rec)
    <3>1. r \in Rec
      BY <1>1
    <3> HIDE DEF Rec
    <3> QED
      BY <2>2, <3>1
  <2> QED
    BY <2>1, <2>2 DEF TfaInit
<1>3. req \in [Request -> TfaRequest]
  BY TfaAssumption DEF TfaInit
<1> QED
  BY <1>2, <1>3 DEF TfaInit, TfaTypeOK, Label, Stores

LEMMA RecordIsRec ==
    ASSUME TfaTypeOK, Record # None
    PROVE  rows # <<>> /\ Record = rows[1] /\ Record \in Rec
  BY DEF Record, TfaTypeOK

\* The code a request presents is one, where a step compares it.
LEMMA PresentedIsCode ==
    ASSUME TfaTypeOK, NEW r \in Request
    PROVE  req[r].code \in Code \cup {None} /\ req[r].kind \in Kinds
  BY DEF TfaTypeOK, TfaRequest

LEMMA MatchedIsCode ==
    ASSUME NEW rec, NEW c, Succeeds(rec, c) \/ TotpMatches(rec, c)
    PROVE  c \in Code
  BY DEF Succeeds, Fresh, TotpMatches, RecoveryMatches, Code

LEMMA DequeueTypes ==
    ASSUME TfaTypeOK, NEW r \in Request, Dequeue(r)
    PROVE  /\ job' \in [Request -> Job \cup {None}] /\ store' \in [Request -> Stores]
           /\ after' \in [Request -> Request \cup {None}]
           /\ tail' \in [Stores -> Request \cup {None}]
  BY DEF TfaTypeOK, Dequeue

LEMMA EnqueueTypes ==
    ASSUME TfaTypeOK, NEW r \in Request, NEW s \in Stores, NEW j \in Job, Enqueue(r, s, j)
    PROVE  /\ job' \in [Request -> Job \cup {None}] /\ store' \in [Request -> Stores]
           /\ after' \in [Request -> Request \cup {None}]
           /\ tail' \in [Stores -> Request \cup {None}]
  BY DEF TfaTypeOK, Enqueue

LEMMA FinishTypes ==
    ASSUME TfaTypeOK, NEW r \in Request, NEW ok \in BOOLEAN, FinishAs(r, ok),
           ok /\ job[r] \in {"verify", "complete"} => req[r].code \in Code
    PROVE  /\ job' \in [Request -> Job \cup {None}] /\ store' \in [Request -> Stores]
           /\ after' \in [Request -> Request \cup {None}]
           /\ tail' \in [Stores -> Request \cup {None}]
           /\ pc' \in [Request -> Label] /\ spent' \in [Request -> Code \cup {None}]
  BY DequeueTypes DEF TfaTypeOK, FinishAs, Go, Label
-----------------------------------------------------------------------------
(* The invariant *)

\* A request has a mutation exactly while it waits for it or runs it; the one
\* that runs is the only one; save adds its record to no rows.
Places ==
    /\ \A r \in Request : HasJob(r) <=> pc[r] = "queued" \/ Running(r)
    /\ \A r \in Request : Running(r) => after[r] = None
    /\ \A r, q \in Request : Running(r) /\ Running(q) => r = q
    /\ \A r \in Request : pc[r] = "read" => job[r] \in {"verify", "complete"}
    /\ \A r \in Request :
          pc[r] = "delete" /\ job[r] \in {"verify", "complete"} => saving[r] # None
    /\ \A r \in Request : pc[r] = "save" => saving[r] # None /\ rows = <<>>

\* The record lets nobody in with the code any more.
Used(rec, c) ==
    /\ ~rec.pending
    /\ c \in Otp => c.period <= rec.lastUsed
    /\ c \in Recovery => c.number \notin rec.recovery

\* It has used up every code of its secret that let a request in.
Settled(rec) ==
    /\ rec.secret <= secrets
    /\ \A q \in Request :
          spent[q] # None /\ spent[q].secret = rec.secret => Used(rec, spent[q])

Changing(r) == pc[r] \in {"delete", "save"}

\* The code that is about to let the request in is new, and used up by the
\* record that is to be saved.
Letting(r) ==
    /\ req[r].code \in Code /\ saving[r] # None
    /\ req[r].code.secret = saving[r].secret
    /\ Used(saving[r], req[r].code)
    /\ \A q \in Request : spent[q] # req[r].code

CodeInv ==
    /\ CodeSpentOnce
    /\ \A r \in Request : spent[r] # None => spent[r].secret <= secrets
    /\ rows # <<>> => Settled(rows[1])
    /\ \A r \in Request : Changing(r) /\ saving[r] # None => Settled(saving[r])
    /\ \A r \in Request :
          Changing(r) /\ accepts[r] /\ job[r] \in {"verify", "complete"} => Letting(r)

TfaInv == TfaTypeOK /\ QueueInv /\ Places /\ CodeInv

LEMMA InvAtFirst == TfaInit => TfaInv
<1> SUFFICES ASSUME TfaInit PROVE TfaInv
  OBVIOUS
<1>1. TfaTypeOK
  BY TypeAtFirst
<1>2. QueueInv
  BY DEF TfaInit, QueueInv, HasJob
<1>3. Places
  BY DEF TfaInit, Places, HasJob, Running
<1>4. rows # <<>> => Settled(rows[1])
  BY TfaAssumption DEF TfaInit, Settled
<1>5. CodeInv
  BY <1>4 DEF TfaInit, CodeInv, CodeSpentOnce, Changing
<1> QED
  BY <1>1, <1>2, <1>3, <1>5 DEF TfaInv

\* Nothing that counts for the codes changes, except that a request arrives
\* somewhere, with a mutation or without.
LEMMA ArrivalKeeps ==
    ASSUME TfaInv, NEW r \in Request, pc[r] \in {"new", "through"},
           UNCHANGED <<now, rows, secrets, req, saving, accepts, spent>>,
           \/ \E l \in {"through", "done", "challenged", "forbidden", "refused"} :
                 Go(r, l) /\ UNCHANGED queues
           \/ Go(r, "queued") /\ \E s \in Stores, j \in Job : Enqueue(r, s, j)
    PROVE  TfaInv'
<1> USE DEF TfaInv
<1>1. job[r] = None
  BY DEF Places, HasJob, Running
<1>2. /\ pc' \in [Request -> Label] /\ pc'[r] \notin {"read", "delete", "save"}
      /\ \A q \in Request \ {r} : pc'[q] = pc[q]
  BY DEF Go, Label, TfaTypeOK
<1>3. TfaTypeOK'
  <2>1. CASE UNCHANGED queues
    BY <2>1, <1>2 DEF TfaTypeOK, queues
  <2>2. CASE \E s \in Stores, j \in Job : Enqueue(r, s, j)
    BY <2>2, <1>2, EnqueueTypes DEF TfaTypeOK
  <2> QED
    BY <2>1, <2>2
<1>4. QueueInv'
  <2>1. CASE UNCHANGED queues
    BY <2>1 DEF QueueInv, queues, HasJob
  <2>2. CASE \E s \in Stores, j \in Job : Enqueue(r, s, j)
    BY <2>2, <1>1, EnqueueKeeps
  <2> QED
    BY <2>1, <2>2
<1>5. \A q \in Request \ {r} : job'[q] = job[q] /\ after'[q] = after[q]
  BY DEF queues, Enqueue, TfaTypeOK
<1>6. job'[r] # None <=> pc'[r] = "queued"
  <2>1. CASE UNCHANGED queues
    BY <2>1, <1>1, NoneIsNoRecord DEF queues, Go, TfaTypeOK, Enqueue
  <2>2. CASE Go(r, "queued") /\ \E s \in Stores, j \in Job : Enqueue(r, s, j)
    BY <2>2, NoneIsNoRecord DEF Go, Enqueue, TfaTypeOK
  <2> QED
    BY <2>1, <2>2
<1>7. Places'
  BY <1>2, <1>5, <1>6 DEF Places, HasJob, Running
<1>8. CodeInv'
  BY <1>2, <1>5 DEF CodeInv, CodeSpentOnce, Changing, Letting, Settled, Used
<1> QED
  BY <1>3, <1>4, <1>7, <1>8
\* A mutation that ends takes its request out of the queue and leaves nobody
\* running.
LEMMA FinishPlaces ==
    ASSUME TfaInv, NEW r \in Request, NEW ok \in BOOLEAN, Running(r), FinishAs(r, ok)
    PROVE  /\ QueueInv' /\ Places'
           /\ \A q \in Request : pc'[q] \notin {"read", "delete", "save"}
           /\ \A q \in Request \ {r} : spent'[q] = spent[q]
<1> USE DEF TfaInv
<1>1. HasJob(r) /\ after[r] = None /\ \A q \in Request \ {r} : ~Running(q)
  BY DEF Places
<1>2. Dequeue(r)
  BY DEF FinishAs
<1>3. QueueInv'
  BY <1>1, <1>2, DequeueKeeps
<1>4. /\ pc'[r] \notin {"queued", "read", "delete", "save"}
      /\ \A q \in Request \ {r} : pc'[q] = pc[q] /\ spent'[q] = spent[q]
  BY DEF FinishAs, Go, TfaTypeOK
<1>5. job'[r] = None /\ \A q \in Request \ {r} : job'[q] = job[q]
  BY <1>2 DEF Dequeue, TfaTypeOK
<1>6. \A q \in Request : pc'[q] \notin {"read", "delete", "save"}
  BY <1>1, <1>4 DEF Running
<1>7. Places'
  BY <1>4, <1>5, <1>6 DEF Places, HasJob, Running
<1> QED
  BY <1>3, <1>4, <1>6, <1>7

LEMMA StartsKeeps ==
    ASSUME TfaInv, StoresOverlap = FALSE, NEW r \in Request, Starts(r)
    PROVE  TfaInv'
<1> USE DEF TfaInv
<1>1. /\ pc[r] = "queued" /\ after[r] = None /\ HasJob(r) /\ job[r] \in Job
      /\ UNCHANGED <<now, rows, mfa, req, queues, spent>>
  BY DEF Starts, At, Places, HasJob, TfaTypeOK, ghosts
<1>2. \A q \in Request : ~Running(q)
  <2> SUFFICES ASSUME NEW q \in Request, Running(q) PROVE FALSE
    OBVIOUS
  <2>1. q # r /\ HasJob(q) /\ after[q] = None
    BY <1>1 DEF Places, Running
  <2>2. store[q] = store[r]
    BY <2>1, StoresOverlap = FALSE DEF Starts, MayRun
  <2> QED
    BY <2>1, <2>2, <1>1 DEF QueueInv
<1>3. /\ secrets' \in Nat /\ secrets <= secrets'
      /\ saving' \in [Request -> Rec \cup {None}] /\ accepts' \in [Request -> BOOLEAN]
      /\ pc'[r] \in {"read", "delete"} /\ pc' \in [Request -> Label]
      /\ \A q \in Request \ {r} : pc'[q] = pc[q]
      /\ pc'[r] = "read" => job[r] \in {"verify", "complete"}
      /\ pc'[r] = "delete" => job[r] \notin {"verify", "complete"}
      /\ pc'[r] = "delete" /\ saving'[r] # None =>
            saving'[r].secret = secrets' /\ secrets' = secrets + 1
  <2>1. CASE job[r] = "begin"
    <3>1. PICK mode \in {"auth-only", "auth-and-writes"} :
             saving' = [saving EXCEPT ![r] = Enrolment(secrets', mode)]
      BY <2>1 DEF Starts
    <3>2. /\ secrets' = secrets + 1 /\ secrets' \in Nat /\ Go(r, "delete")
          /\ accepts' = [accepts EXCEPT ![r] = TRUE]
      BY <2>1 DEF Starts, TfaTypeOK
    <3>3. saving'[r] \in Rec /\ saving'[r].secret = secrets'
      BY <3>1, <3>2, EnrolmentIsRecord DEF TfaTypeOK
    <3> QED
      BY <2>1, <3>1, <3>2, <3>3 DEF TfaTypeOK, Go, Label
  <2>2. CASE job[r] = "disable"
    <3>1. /\ saving' = [saving EXCEPT ![r] = None] /\ secrets' = secrets
          /\ accepts' = [accepts EXCEPT ![r] = TRUE] /\ Go(r, "delete")
      BY <2>2 DEF Starts
    <3> QED
      BY <2>2, <3>1 DEF TfaTypeOK, Go, Label
  <2>3. CASE job[r] \in {"verify", "complete"}
    BY <2>3, <1>1 DEF Starts, TfaTypeOK, Go, Label
  <2> QED
    BY <1>1, <2>1, <2>2, <2>3 DEF Job
<1>4. TfaTypeOK'
  BY <1>1, <1>3 DEF TfaTypeOK, queues
<1>5. QueueInv'
  BY <1>1 DEF QueueInv, HasJob, queues
<1>6. Places'
  BY <1>1, <1>2, <1>3 DEF Places, HasJob, Running, queues
<1>7. \A q \in Request : pc'[q] \in {"delete", "save"} => q = r
  BY <1>2, <1>3 DEF Running
<1>8. \A q \in Request : spent[q] # None => spent[q].secret \in Nat /\ spent[q].secret <= secrets
  BY TfaAssumption DEF CodeInv, TfaTypeOK, Code, Otp, Recovery, Secret
<1>9. rows # <<>> => Settled(rows[1])'
  <2> HAVE rows # <<>>
  <2>1. rows[1] \in Rec /\ rows[1].secret \in Nat
    <3>1. rows[1] \in Rec
      BY DEF TfaTypeOK
    <3> QED
      BY <3>1 DEF Rec
  <2>2. Settled(rows[1])
    BY DEF CodeInv
  <2> QED
    BY <2>1, <2>2, <1>1, <1>3 DEF Settled, Used, TfaTypeOK
<1>10. pc'[r] = "delete" /\ saving'[r] # None => Settled(saving[r])'
  BY <1>1, <1>3, <1>8 DEF Settled, TfaTypeOK
<1>11. CodeInv'
  <2>1. CodeSpentOnce'
    BY <1>1 DEF CodeInv, CodeSpentOnce
  <2>2. \A q \in Request : spent'[q] # None => spent'[q].secret <= secrets'
    BY <1>1, <1>3, <1>8 DEF TfaTypeOK
  <2>3. rows' # <<>> => Settled(rows[1])'
    BY <1>1, <1>9
  <2>4. \A q \in Request : Changing(q)' /\ saving'[q] # None => Settled(saving[q])'
    BY <1>3, <1>7, <1>10 DEF Changing
  <2>5. \A q \in Request :
           ~(Changing(q)' /\ accepts'[q] /\ job'[q] \in {"verify", "complete"})
    BY <1>1, <1>3, <1>7 DEF Changing, queues
  <2> QED
    BY <2>1, <2>2, <2>3, <2>4, <2>5 DEF CodeInv
<1> QED
  BY <1>4, <1>5, <1>6, <1>11

\* What the running mutation reads and means to save.
LEMMA WillSaveKeeps ==
    ASSUME TfaInv, NEW r \in Request, pc[r] = "read", NEW rec \in Rec, NEW ok \in BOOLEAN,
           WillSave(r, rec, ok), UNCHANGED <<now, rows, secrets, mfa, req, stops>>,
           Settled(rec),
           ok => /\ req[r].code \in Code /\ req[r].code.secret = rec.secret
                 /\ Used(rec, req[r].code)
                 /\ \A q \in Request : spent[q] # req[r].code
    PROVE  TfaInv'
<1> USE DEF TfaInv
<1>1. /\ saving' = [saving EXCEPT ![r] = rec] /\ accepts' = [accepts EXCEPT ![r] = ok]
      /\ pc' = [pc EXCEPT ![r] = "delete"] /\ UNCHANGED <<queues, spent>>
      /\ rec # None
  BY NoneIsNoRecord DEF WillSave, Go, ghosts
<1>2. Running(r) /\ \A q \in Request \ {r} : ~Running(q)
  BY DEF Running, Places
<1>3. TfaTypeOK'
  BY <1>1 DEF TfaTypeOK, queues, Label
<1>4. QueueInv'
  BY <1>1 DEF QueueInv, HasJob, queues
<1>5. saving'[r] = rec /\ accepts'[r] = ok /\ pc'[r] = "delete"
      /\ \A q \in Request \ {r} : pc'[q] = pc[q]
  BY <1>1 DEF TfaTypeOK
<1>6. Places'
  BY <1>1, <1>2, <1>5 DEF Places, HasJob, Running, queues
<1>7. \A q \in Request : Changing(q)' => q = r
  BY <1>2, <1>5 DEF Changing, Running
<1>8. CodeInv'
  <2>1. CodeSpentOnce' /\ \A q \in Request : spent'[q] # None => spent'[q].secret <= secrets'
    BY <1>1 DEF CodeInv, CodeSpentOnce
  <2>2. rows' # <<>> => Settled(rows[1])'
    BY <1>1 DEF CodeInv, Settled, Used
  <2>3. Settled(saving[r])'
    BY <1>1, <1>5 DEF Settled, Used
  <2>4. ok => Letting(r)'
    BY <1>1, <1>5 DEF Letting, Used
  <2> QED
    BY <2>1, <2>2, <2>3, <2>4, <1>5, <1>7 DEF CodeInv
<1> QED
  BY <1>3, <1>4, <1>6, <1>8
\* A record that is current takes a code, or refuses one, and stays settled; it
\* takes none that let a request in.
LEMMA SuccessSettles ==
    ASSUME TfaTypeOK, CodeInv, NEW rec \in Rec, Settled(rec), ~rec.pending,
           NEW c \in Code, Succeeds(rec, c)
    PROVE  /\ Settled(AfterSuccess(rec, c)) /\ Used(AfterSuccess(rec, c), c)
           /\ c.secret = AfterSuccess(rec, c).secret
           /\ \A q \in Request : spent[q] # c
<1> USE CodesAreOneKind
<1> DEFINE new == AfterSuccess(rec, c)
<1>1. c.secret = rec.secret /\ new.secret = rec.secret /\ ~new.pending
  BY DEF Succeeds, Fresh, TotpMatches, RecoveryMatches, AfterSuccess, Rec
<1>2. CASE c \in Otp
  <2>1. /\ new.lastUsed = c.period /\ new.recovery = rec.recovery
        /\ c.period > rec.lastUsed /\ c \notin Recovery /\ c.period \in Int
        /\ rec.lastUsed \in Int
    BY <1>2 DEF Succeeds, Fresh, RecoveryMatches, AfterSuccess, Rec, Otp, Period
  <2>2. \A x \in Code : Used(rec, x) => Used(new, x)
    <3> TAKE x \in Code
    <3> HAVE Used(rec, x)
    <3>1. x \in Otp => x.period \in Int
      BY DEF Otp, Period
    <3> QED
      BY <1>1, <2>1, <3>1 DEF Used
  <2>3. Used(new, c)
    BY <1>1, <2>1 DEF Used
  <2>4. ~Used(rec, c)
    BY <1>2, <2>1 DEF Used
  <2> QED
    BY <1>1, <2>2, <2>3, <2>4, NoneIsNoRecord DEF Settled, TfaTypeOK
<1>3. CASE c \notin Otp
  <2>1. /\ new.lastUsed = rec.lastUsed /\ new.recovery = rec.recovery \ {c.number}
        /\ c \in Recovery /\ c.number \in rec.recovery
    BY <1>3 DEF Succeeds, Fresh, TotpMatches, RecoveryMatches, AfterSuccess, Rec
  <2>2. \A x \in Code : Used(rec, x) => Used(new, x)
    BY <1>1, <2>1 DEF Used
  <2>3. Used(new, c)
    BY <1>1, <1>3, <2>1 DEF Used
  <2>4. ~Used(rec, c)
    BY <2>1 DEF Used
  <2> QED
    BY <1>1, <2>2, <2>3, <2>4, NoneIsNoRecord DEF Settled, TfaTypeOK
<1> QED
  BY <1>2, <1>3

LEMMA FailureSettles ==
    ASSUME NEW rec \in Rec, Settled(rec)
    PROVE  Settled(AfterFailure(rec))
<1>1. /\ AfterFailure(rec).secret = rec.secret
      /\ AfterFailure(rec).pending = rec.pending
      /\ AfterFailure(rec).recovery = rec.recovery
      /\ AfterFailure(rec).lastUsed = rec.lastUsed
  BY DEF AfterFailure, Rec
<1> QED
  BY <1>1 DEF Settled, Used

\* A pending enrolment has let nobody in.
LEMMA ConfirmationSettles ==
    ASSUME TfaTypeOK, NEW rec \in Rec, Settled(rec), rec.pending,
           NEW c \in Code, TotpMatches(rec, c)
    PROVE  /\ Settled(Confirmed(rec, c)) /\ Used(Confirmed(rec, c), c)
           /\ c.secret = Confirmed(rec, c).secret
           /\ \A q \in Request : spent[q] # c
<1> USE CodesAreOneKind
<1>1. /\ Confirmed(rec, c).secret = rec.secret /\ ~Confirmed(rec, c).pending
      /\ Confirmed(rec, c).lastUsed = c.period /\ c \in Otp /\ c.secret = rec.secret
      /\ c.period \in Int
  BY DEF Confirmed, TotpMatches, Rec, Otp, Period
<1>2. \A q \in Request : spent[q] # None => spent[q].secret # rec.secret
  BY DEF Settled, Used
<1> QED
  BY <1>1, <1>2, NoneIsNoRecord DEF Settled, Used

\* A refusal ends a mutation and changes nothing else.
LEMMA RefusalKeeps ==
    ASSUME TfaInv, NEW r \in Request, pc[r] = "read", Refuses(r),
           UNCHANGED <<now, rows, secrets, mfa, req, stops>>
    PROVE  TfaInv'
<1> USE DEF TfaInv
<1>1. FinishAs(r, FALSE) /\ Running(r) /\ UNCHANGED <<saving, accepts>>
  BY DEF Refuses, Running
<1>2. /\ QueueInv' /\ Places'
      /\ \A q \in Request : pc'[q] \notin {"read", "delete", "save"}
  BY <1>1, FinishPlaces
<1>3. spent' = spent
  BY <1>1 DEF FinishAs, TfaTypeOK
<1>4. TfaTypeOK'
  BY <1>1, FinishTypes DEF TfaTypeOK
<1>5. CodeInv'
  BY <1>2, <1>3 DEF CodeInv, CodeSpentOnce, Changing, Settled, Used
<1> QED
  BY <1>2, <1>4, <1>5

LEMMA VerifyKeeps ==
    ASSUME TfaInv, NEW r \in Request, Verify(r)
    PROVE  TfaInv'
<1> USE DEF TfaInv
<1> DEFINE c == req[r].code
<1>1. pc[r] = "read" /\ UNCHANGED <<now, rows, secrets, mfa, req, stops>>
  BY DEF Verify, At
<1>2. CASE Refuses(r)
  BY <1>1, <1>2, RefusalKeeps
<1>3. CASE ~Refuses(r)
  <2>1. Enabled(Record) /\ ~LockedOut(Record)
    <3> SUFFICES ASSUME ~Enabled(Record) \/ LockedOut(Record) PROVE Refuses(r)
      BY <1>3
    <3> QED
      BY DEF Verify
  <2>2. Record \in Rec /\ ~Record.pending /\ Settled(Record)
    BY <2>1, RecordIsRec DEF Enabled, CodeInv
  <2>3. CASE Succeeds(Record, c)
    <3>1. WillSave(r, AfterSuccess(Record, c), TRUE) /\ c \in Code
      BY <1>3, <2>3, MatchedIsCode DEF Verify
    <3>2. AfterSuccess(Record, c) \in Rec
      BY <2>2, <3>1, RecordsStayRecords DEF TfaTypeOK
    <3>3. /\ Settled(AfterSuccess(Record, c)) /\ Used(AfterSuccess(Record, c), c)
          /\ c.secret = AfterSuccess(Record, c).secret
          /\ \A q \in Request : spent[q] # c
      BY <2>2, <2>3, <3>1, SuccessSettles
    <3> QED
      BY <1>1, <3>1, <3>2, <3>3, WillSaveKeeps
  <2>4. CASE ~Succeeds(Record, c)
    <3>1. WillSave(r, AfterFailure(Record), FALSE)
      BY <1>3, <2>4 DEF Verify
    <3>2. AfterFailure(Record) \in Rec
      BY <2>2, FailureIsRecord DEF TfaTypeOK
    <3>3. Settled(AfterFailure(Record))
      BY <2>2, FailureSettles
    <3> QED
      BY <1>1, <3>1, <3>2, <3>3, WillSaveKeeps
  <2> QED
    BY <2>3, <2>4
<1> QED
  BY <1>2, <1>3

LEMMA CompleteKeeps ==
    ASSUME TfaInv, NEW r \in Request, CompleteEnrolment(r)
    PROVE  TfaInv'
<1> USE DEF TfaInv
<1> DEFINE c == req[r].code
<1>1. pc[r] = "read" /\ UNCHANGED <<now, rows, secrets, mfa, req, stops>>
  BY DEF CompleteEnrolment, At
<1>2. CASE Refuses(r)
  BY <1>1, <1>2, RefusalKeeps
<1>3. CASE ~Refuses(r)
  <2>1. /\ Record # None /\ Record.pending /\ TotpMatches(Record, c)
        /\ WillSave(r, Confirmed(Record, c), TRUE)
    BY <1>3 DEF CompleteEnrolment
  <2>2. Record \in Rec /\ Settled(Record) /\ c \in Code
    BY <2>1, RecordIsRec, MatchedIsCode DEF CodeInv
  <2>3. Confirmed(Record, c) \in Rec
    BY <2>1, <2>2, RecordsStayRecords DEF TfaTypeOK
  <2>4. /\ Settled(Confirmed(Record, c)) /\ Used(Confirmed(Record, c), c)
        /\ c.secret = Confirmed(Record, c).secret
        /\ \A q \in Request : spent[q] # c
    BY <2>1, <2>2, ConfirmationSettles
  <2> QED
    BY <1>1, <2>1, <2>2, <2>3, <2>4, WillSaveKeeps
<1> QED
  BY <1>2, <1>3

LEMMA DeleteKeeps ==
    ASSUME TfaInv, NEW r \in Request, DeleteRow(r)
    PROVE  TfaInv'
<1> USE DEF TfaInv
<1>1. /\ pc[r] = "delete" /\ Running(r) /\ rows' = <<>>
      /\ UNCHANGED <<now, secrets, req, saving, accepts>>
  BY DEF DeleteRow, At, Running
<1>2. \A q \in Request \ {r} : ~Running(q)
  BY <1>1 DEF Places
<1>3. CASE saving[r] = None
  <2>1. FinishAs(r, TRUE) /\ job[r] \notin {"verify", "complete"}
    BY <1>1, <1>3 DEF DeleteRow, Places
  <2>2. /\ QueueInv' /\ Places'
        /\ \A q \in Request : pc'[q] \notin {"read", "delete", "save"}
    BY <1>1, <2>1, FinishPlaces
  <2>3. spent' = spent
    BY <2>1 DEF FinishAs, TfaTypeOK
  <2>4. TfaTypeOK'
    <3>1. <<>> \in Seq(Rec)
      OBVIOUS
    <3>2. /\ job' \in [Request -> Job \cup {None}] /\ store' \in [Request -> Stores]
          /\ after' \in [Request -> Request \cup {None}]
          /\ tail' \in [Stores -> Request \cup {None}]
          /\ pc' \in [Request -> Label] /\ spent' \in [Request -> Code \cup {None}]
      BY <2>1, FinishTypes
    <3> QED
      BY <1>1, <3>1, <3>2 DEF TfaTypeOK
  <2>5. CodeInv'
    BY <1>1, <2>2, <2>3 DEF CodeInv, CodeSpentOnce, Changing
  <2> QED
    BY <2>2, <2>4, <2>5
<1>4. CASE saving[r] # None
  <2>1. pc' = [pc EXCEPT ![r] = "save"] /\ UNCHANGED <<queues, spent>>
    BY <1>1, <1>4 DEF DeleteRow, Go, ghosts
  <2>2. pc'[r] = "save" /\ \A q \in Request \ {r} : pc'[q] = pc[q]
    BY <2>1 DEF TfaTypeOK
  <2>3. TfaTypeOK'
    BY <1>1, <2>1 DEF TfaTypeOK, queues, Label
  <2>4. QueueInv'
    BY <2>1 DEF QueueInv, HasJob, queues
  <2>5. Places'
    BY <1>1, <1>2, <1>4, <2>1, <2>2 DEF Places, HasJob, Running, queues
  <2>6. \A q \in Request : Changing(q)' => q = r /\ Changing(q)
    BY <1>1, <1>2, <2>2 DEF Changing, Running
  <2>7. CodeInv'
    BY <1>1, <2>1, <2>6 DEF CodeInv, CodeSpentOnce, Settled, Used, Letting, queues
  <2> QED
    BY <2>3, <2>4, <2>5, <2>7
<1> QED
  BY <1>3, <1>4

LEMMA SaveKeeps ==
    ASSUME TfaInv, NEW r \in Request, SaveRow(r)
    PROVE  TfaInv'
<1> USE DEF TfaInv
<1> DEFINE ok == accepts[r]
           rec == saving[r]
           c == req[r].code
           lets == ok /\ job[r] \in {"verify", "complete"}
<1>1. /\ pc[r] = "save" /\ Running(r) /\ FinishAs(r, ok) /\ ok \in BOOLEAN
      /\ UNCHANGED <<now, secrets, req, accepts>>
      /\ saving' = [saving EXCEPT ![r] = None]
  BY DEF SaveRow, At, Running, TfaTypeOK
<1>2. rec \in Rec /\ rows = <<>> /\ rows' = <<rec>> /\ rows'[1] = rec
  <2>1. rec \in Rec /\ rows = <<>>
    BY <1>1 DEF Places, TfaTypeOK
  <2>2. rows' = Append(rows, rec)
    BY DEF SaveRow
  <2> QED
    BY <2>1, <2>2
<1>3. /\ QueueInv' /\ Places'
      /\ \A q \in Request : pc'[q] \notin {"read", "delete", "save"}
      /\ \A q \in Request \ {r} : spent'[q] = spent[q]
  BY <1>1, FinishPlaces
<1>4. Settled(rec) /\ (lets => Letting(r))
  BY <1>1, <1>2, NoneIsNoRecord DEF CodeInv, Changing
<1>5. spent'[r] = IF lets THEN c ELSE spent[r]
  BY <1>1 DEF FinishAs, TfaTypeOK
<1>6. TfaTypeOK'
  <2>1. lets => c \in Code
    BY <1>4 DEF Letting
  <2>2. rows' \in Seq(Rec)
    BY <1>2
  <2>3. saving' \in [Request -> Rec \cup {None}]
    BY <1>1 DEF TfaTypeOK
  <2> QED
    BY <1>1, <2>1, <2>2, <2>3, FinishTypes DEF TfaTypeOK
<1> HIDE DEF lets
<1>7. CodeInv'
  <2>1. CodeSpentOnce'
    BY <1>3, <1>4, <1>5 DEF CodeInv, CodeSpentOnce, Letting
  <2>2. \A q \in Request : spent'[q] # None => spent'[q].secret <= secrets'
    BY <1>1, <1>3, <1>4, <1>5 DEF CodeInv, Letting, Settled
  <2>3. Settled(rows[1])'
    BY <1>1, <1>2, <1>3, <1>4, <1>5 DEF Settled, Letting, Used
  <2> QED
    BY <1>3, <2>1, <2>2, <2>3 DEF CodeInv, Changing
<1> QED
  BY <1>3, <1>6, <1>7

LEMMA RestartKeeps ==
    ASSUME TfaInv, TfaRestart
    PROVE  TfaInv'
<1> USE DEF TfaInv
<1>1. /\ \A r \in Request : pc'[r] \notin {"queued", "read", "delete", "save"}
      /\ pc' \in [Request -> Label]
      /\ \A r \in Request : job'[r] = None
      /\ UNCHANGED <<now, rows, secrets, req, spent>>
  BY DEF TfaRestart, At, Ended, TfaTypeOK, Label
<1>2. TfaTypeOK'
  BY <1>1 DEF TfaRestart, TfaTypeOK
<1>3. QueueInv'
  BY <1>1 DEF TfaRestart, QueueInv, HasJob
<1>4. Places'
  BY <1>1 DEF Places, HasJob, Running
<1>5. CodeInv'
  BY <1>1 DEF CodeInv, CodeSpentOnce, Changing, Settled, Used
<1> QED
  BY <1>2, <1>3, <1>4, <1>5

LEMMA TickKeeps ==
    ASSUME TfaInv, UNCHANGED <<rows, secrets, req, pc, queues, saving, accepts, ghosts>>,
           now' \in Int
    PROVE  TfaInv'
  BY DEF TfaInv, TfaTypeOK, QueueInv, HasJob, Places, Running, CodeInv, CodeSpentOnce,
         Changing, Settled, Used, Letting, queues, ghosts

LEMMA InvKept ==
    ASSUME TfaInv, StoresOverlap = FALSE, [TfaNext]_tfaVars
    PROVE  TfaInv'
<1>1. ASSUME NEW r \in Request, RequireOtp(r) PROVE TfaInv'
  <2>1. /\ pc[r] \in {"new", "through"}
        /\ UNCHANGED <<now, rows, secrets, req, saving, accepts, spent>>
    BY <1>1 DEF RequireOtp, At, ghosts
  <2> QED
    BY <1>1, <2>1, ArrivalKeeps DEF RequireOtp, Job, Stores
<1>2. ASSUME NEW r \in Request, RequirePackagePublishOtp(r) PROVE TfaInv'
  <2>1. /\ pc[r] \in {"new", "through"}
        /\ UNCHANGED <<now, rows, secrets, req, saving, accepts, spent>>
    BY <1>2 DEF RequirePackagePublishOtp, At, ghosts
  <2> QED
    BY <1>2, <2>1, ArrivalKeeps DEF RequirePackagePublishOtp, Job, Stores
<1>3. ASSUME NEW r \in Request, HandleTfa(r) PROVE TfaInv'
  <2>1. /\ pc[r] \in {"new", "through"} /\ req[r].kind \in Job
        /\ UNCHANGED <<now, rows, secrets, req, saving, accepts, spent>>
    BY <1>3 DEF HandleTfa, At, ghosts, Job
  <2> QED
    BY <1>3, <2>1, ArrivalKeeps DEF HandleTfa, Stores
<1>4. ASSUME NEW r \in Request, Handle(r) PROVE TfaInv'
  <2>1. /\ pc[r] \in {"new", "through"}
        /\ UNCHANGED <<now, rows, secrets, req, saving, accepts, spent>>
    BY <1>4 DEF Handle, At, ghosts
  <2> QED
    BY <1>4, <2>1, ArrivalKeeps DEF Handle
<1>5. ASSUME NEW r \in Request, AdminReset(r) PROVE TfaInv'
  <2>1. /\ pc[r] \in {"new", "through"}
        /\ UNCHANGED <<now, rows, secrets, req, saving, accepts, spent>>
    BY <1>5 DEF AdminReset, At, ghosts
  <2> QED
    BY <1>5, <2>1, ArrivalKeeps DEF AdminReset, Job, Stores
<1>6. CASE Tick
  BY <1>6, TickKeeps DEF Tick, TfaInv, TfaTypeOK
<1>7. CASE TfaRestart
  BY <1>7, RestartKeeps
<1>8. CASE UNCHANGED tfaVars
  BY <1>8, TickKeeps DEF tfaVars, TfaInv, TfaTypeOK
<1> QED
  BY <1>1, <1>2, <1>3, <1>4, <1>5, <1>6, <1>7, <1>8, StartsKeeps, VerifyKeeps,
     CompleteKeeps, DeleteKeeps, SaveKeeps DEF TfaNext, TfaStep

\* CodeSpentOnce for any requests, codes, enrolments, clocks and restarts, as
\* long as mutations of different stores do not overlap: what enqueueUserMutation
\* of tfa-store.ts and the reading, deleting and adding it runs are for.
THEOREM CodesSpentOnce == StoresOverlap = FALSE => (TfaSpec => []CodeSpentOnce)
<1> SUFFICES ASSUME StoresOverlap = FALSE PROVE TfaSpec => []CodeSpentOnce
  OBVIOUS
<1>1. TfaInit => TfaInv
  BY InvAtFirst
<1>2. TfaInv /\ [TfaNext]_tfaVars => TfaInv'
  BY InvKept
<1>3. TfaInv => CodeSpentOnce
  BY DEF TfaInv, CodeInv
<1> QED
  BY <1>1, <1>2, <1>3, PTL DEF TfaSpec

-----------------------------------------------------------------------------
(* Refused codes are counted *)

\* The record that is saved has the count that follows the last one.
CountInv ==
    /\ misses \in Int /\ 0 <= misses /\ misses < MaxFailed
    /\ rows # <<>> /\ ~rows[1].pending => rows[1].failed = misses
    /\ \A r \in Request : Changing(r) /\ saving[r] # None =>
          saving[r].failed =
             IF accepts[r] \/ misses + 1 = MaxFailed THEN 0 ELSE misses + 1

\* A step that leaves the rows and the count alone, and lets no mutation pass
\* on to another that was not about to.
LEMMA CountStays ==
    ASSUME CountInv, rows' = rows, misses' = misses, saving' = saving, accepts' = accepts,
           \A q \in Request : Changing(q)' => Changing(q)
    PROVE  CountInv'
  BY DEF CountInv

\* A success starts the count again, a failure adds one to it.
LEMMA CountsMade ==
    ASSUME NEW rec \in Rec, NEW c
    PROVE  /\ AfterSuccess(rec, c).failed = 0
           /\ AfterFailure(rec).failed =
                 IF rec.failed + 1 >= MaxFailed THEN 0 ELSE rec.failed + 1
<1>1. AfterSuccess(rec, c).failed = 0
  <2>1. CASE c \in Otp
    BY <2>1 DEF AfterSuccess, Rec
  <2>2. CASE c \notin Otp
    BY <2>2 DEF AfterSuccess, Rec
  <2> QED
    BY <2>1, <2>2
<1>2. AfterFailure(rec).failed =
         IF rec.failed + 1 >= MaxFailed THEN 0 ELSE rec.failed + 1
  BY DEF AfterFailure, Rec
<1> QED
  BY <1>1, <1>2

LEMMA CountVerified ==
    ASSUME TfaInv, CountInv, NEW r \in Request, Verify(r)
    PROVE  CountInv'
<1> USE DEF TfaInv
<1> DEFINE c == req[r].code
<1>1. /\ pc[r] = "read" /\ Running(r) /\ rows' = rows
      /\ \A q \in Request \ {r} : ~Running(q)
  BY DEF Verify, At, Running, Places
<1>2. CASE Refuses(r)
  <2>1. \A q \in Request : ~Changing(q)'
    BY <1>1, <1>2, FinishPlaces DEF Refuses, Changing
  <2> QED
    BY <1>1, <1>2, <2>1, CountStays DEF Refuses
<1>3. CASE ~Refuses(r)
  <2>1. Enabled(Record) /\ ~LockedOut(Record)
    BY <1>3 DEF Verify
  <2>2. Record \in Rec /\ Record.failed = misses /\ Record.failed \in Int
    <3>1. rows # <<>> /\ Record = rows[1] /\ Record \in Rec /\ ~Record.pending
      BY <2>1, RecordIsRec DEF Enabled
    <3> QED
      BY <3>1 DEF CountInv, Rec
  <2>3. \E ok \in BOOLEAN : \E rec :
           /\ WillSave(r, rec, ok)
           /\ rec.failed = IF ok \/ misses + 1 = MaxFailed THEN 0 ELSE misses + 1
    <3>1. CASE Succeeds(Record, c)
      <4>1. WillSave(r, AfterSuccess(Record, c), TRUE)
        BY <1>3, <2>1, <3>1 DEF Verify
      <4>2. AfterSuccess(Record, c).failed = 0
        BY <2>2, CountsMade
      <4> QED
        BY <4>1, <4>2
    <3>2. CASE ~Succeeds(Record, c)
      <4>1. WillSave(r, AfterFailure(Record), FALSE)
        BY <1>3, <2>1, <3>2 DEF Verify
      <4>2. AfterFailure(Record).failed = IF misses + 1 = MaxFailed THEN 0 ELSE misses + 1
        BY <2>2, CountsMade, TfaAssumption DEF CountInv
      <4> QED
        BY <4>1, <4>2
    <3> QED
      BY <3>1, <3>2
  <2>4. PICK ok \in BOOLEAN : \E rec :
           /\ WillSave(r, rec, ok)
           /\ rec.failed = IF ok \/ misses + 1 = MaxFailed THEN 0 ELSE misses + 1
    BY <2>3
  <2> QED
    BY <1>1, <2>4 DEF CountInv, WillSave, Changing, Running, Go, TfaTypeOK, ghosts
<1> QED
  BY <1>2, <1>3

LEMMA CountCompleted ==
    ASSUME TfaInv, CountInv, NEW r \in Request, CompleteEnrolment(r)
    PROVE  CountInv'
<1> USE DEF TfaInv
<1> DEFINE c == req[r].code
<1>1. /\ pc[r] = "read" /\ Running(r) /\ rows' = rows
      /\ \A q \in Request \ {r} : ~Running(q)
  BY DEF CompleteEnrolment, At, Running, Places
<1>2. CASE Refuses(r)
  <2>1. \A q \in Request : ~Changing(q)'
    BY <1>1, <1>2, FinishPlaces DEF Refuses, Changing
  <2> QED
    BY <1>1, <1>2, <2>1, CountStays DEF Refuses
<1>3. CASE ~Refuses(r)
  <2>1. Record # None /\ WillSave(r, Confirmed(Record, c), TRUE)
    BY <1>3 DEF CompleteEnrolment
  <2>2. Confirmed(Record, c).failed = 0
    BY <2>1, RecordIsRec DEF Confirmed, Rec
  <2> QED
    BY <1>1, <2>1, <2>2 DEF CountInv, WillSave, Changing, Running, Go, TfaTypeOK, ghosts
<1> QED
  BY <1>2, <1>3

LEMMA CountStarts ==
    ASSUME TfaInv, CountInv, NEW r \in Request, Starts(r)
    PROVE  CountInv'
<1> USE DEF TfaInv
<1>1. rows' = rows /\ misses' = misses /\ job[r] \in Job
  BY NoneIsNoRecord DEF Starts, ghosts, At, Places, HasJob, TfaTypeOK
<1>2. CASE job[r] = "begin"
  <2>1. PICK mode \in {"auth-only", "auth-and-writes"} :
           saving' = [saving EXCEPT ![r] = Enrolment(secrets', mode)]
    BY <1>2 DEF Starts
  <2>2. accepts' = [accepts EXCEPT ![r] = TRUE] /\ Go(r, "delete")
    BY <1>2 DEF Starts
  <2>3. Enrolment(secrets', mode).failed = 0
    BY DEF Enrolment
  <2> QED
    BY <1>1, <2>1, <2>2, <2>3 DEF CountInv, Changing, Go, TfaTypeOK
<1>3. CASE job[r] = "disable"
  <2>1. /\ saving' = [saving EXCEPT ![r] = None] /\ Go(r, "delete")
        /\ accepts' = [accepts EXCEPT ![r] = TRUE]
    BY <1>3 DEF Starts
  <2> QED
    BY <1>1, <2>1 DEF CountInv, Changing, Go, TfaTypeOK
<1>4. CASE job[r] \in {"verify", "complete"}
  <2>1. Go(r, "read") /\ saving' = saving /\ accepts' = accepts
    BY <1>4 DEF Starts
  <2> QED
    BY <1>1, <2>1, CountStays DEF Changing, Go, TfaTypeOK
<1> QED
  BY <1>1, <1>2, <1>3, <1>4 DEF Job

LEMMA CountDeleted ==
    ASSUME TfaInv, CountInv, NEW r \in Request, DeleteRow(r)
    PROVE  CountInv'
<1> USE DEF TfaInv
<1>1. /\ pc[r] = "delete" /\ Running(r) /\ rows' = <<>>
      /\ saving' = saving /\ accepts' = accepts
      /\ \A q \in Request \ {r} : ~Running(q)
  BY DEF DeleteRow, At, Running, Places
<1>2. CASE saving[r] = None
  <2>1. FinishAs(r, TRUE) /\ misses' = 0
    BY <1>2 DEF DeleteRow
  <2>2. \A q \in Request : ~Changing(q)'
    BY <1>1, <2>1, FinishPlaces DEF Changing
  <2> QED
    BY <1>1, <2>1, <2>2, TfaAssumption DEF CountInv
<1>3. CASE saving[r] # None
  <2>1. Go(r, "save") /\ misses' = misses
    BY <1>3 DEF DeleteRow, ghosts
  <2>2. \A q \in Request : Changing(q)' => Changing(q)
    BY <1>1, <2>1 DEF Changing, Go, TfaTypeOK
  <2> QED
    BY <1>1, <2>1, <2>2 DEF CountInv
<1> QED
  BY <1>2, <1>3

LEMMA CountSaved ==
    ASSUME TfaInv, CountInv, NEW r \in Request, SaveRow(r)
    PROVE  CountInv'
<1> USE DEF TfaInv
<1>1. /\ pc[r] = "save" /\ Running(r) /\ FinishAs(r, accepts[r]) /\ accepts[r] \in BOOLEAN
      /\ misses' = IF accepts[r] \/ misses + 1 = MaxFailed THEN 0 ELSE misses + 1
  BY DEF SaveRow, At, Running, TfaTypeOK
<1>2. rows = <<>> /\ saving[r] # None /\ saving[r] \in Rec
  BY <1>1 DEF Places, TfaTypeOK
<1>3. rows' = Append(rows, saving[r])
  BY DEF SaveRow
<1>4. rows'[1] = saving[r]
  BY <1>2, <1>3
<1>5. saving[r].failed = misses'
  BY <1>1, <1>2 DEF CountInv, Changing
<1>6. \A q \in Request : ~Changing(q)'
  BY <1>1, FinishPlaces DEF Changing
<1>7. misses' \in Int /\ 0 <= misses' /\ misses' < MaxFailed
  BY <1>1, TfaAssumption DEF CountInv
<1> QED
  BY <1>4, <1>5, <1>6, <1>7 DEF CountInv

LEMMA CountKept ==
    ASSUME TfaInv, CountInv, [TfaNext]_tfaVars
    PROVE  CountInv'
<1> USE DEF TfaInv
<1>1. ASSUME NEW r \in Request,
             \/ RequireOtp(r) \/ RequirePackagePublishOtp(r) \/ HandleTfa(r)
             \/ Handle(r) \/ AdminReset(r)
      PROVE  CountInv'
  <2>1. UNCHANGED <<rows, saving, accepts, misses>>
    BY <1>1 DEF RequireOtp, RequirePackagePublishOtp, HandleTfa, Handle, AdminReset,
                ghosts
  <2>2. \A q \in Request : Changing(q)' => Changing(q)
    BY <1>1 DEF RequireOtp, RequirePackagePublishOtp, HandleTfa, Handle, AdminReset,
                Go, Changing, TfaTypeOK
  <2> QED
    BY <2>1, <2>2, CountStays
<1>2. CASE Tick \/ UNCHANGED tfaVars
  BY <1>2, CountStays DEF Tick, tfaVars, ghosts, Changing
<1>3. CASE TfaRestart
  <2>1. \A q \in Request : ~Changing(q)'
    BY <1>3 DEF TfaRestart, Changing, At, Ended, TfaTypeOK
  <2>2. rows' = rows /\ misses' = IF rows = <<>> THEN 0 ELSE misses
    BY <1>3 DEF TfaRestart
  <2> QED
    BY <2>1, <2>2, TfaAssumption DEF CountInv
<1> QED
  BY <1>1, <1>2, <1>3, CountStarts, CountVerified, CountCompleted, CountDeleted,
     CountSaved DEF TfaNext, TfaStep

\* FailuresAreCounted for any requests, codes, clocks and restarts, when mutations
\* of different stores do not overlap: registerFailure of tfa-store.ts counts
\* from the record the last mutation left.
THEOREM FailuresAlwaysCounted ==
    StoresOverlap = FALSE => (TfaSpec => []FailuresAreCounted)
<1> SUFFICES ASSUME StoresOverlap = FALSE PROVE TfaSpec => []FailuresAreCounted
  OBVIOUS
<1>1. TfaInit => TfaInv /\ CountInv
  <2> SUFFICES ASSUME TfaInit PROVE CountInv
    BY InvAtFirst
  <2>1. CASE rows = <<>>
    BY <2>1, TfaAssumption DEF TfaInit, CountInv, Changing
  <2>2. ASSUME NEW r \in FirstRecord, rows = <<r>> PROVE CountInv
    <3>1. r \in TfaRecord
      BY TfaAssumption
    <3>2. r.failed \in 0..MaxFailed - 1
      BY <3>1 DEF TfaRecord
    <3> QED
      BY <2>2, <3>2, TfaAssumption DEF TfaInit, CountInv, Changing
  <2> QED
    BY <2>1, <2>2 DEF TfaInit
<1>2. TfaInv /\ CountInv /\ [TfaNext]_tfaVars => (TfaInv /\ CountInv)'
  BY InvKept, CountKept
<1>3. CountInv => FailuresAreCounted
  BY DEF CountInv, FailuresAreCounted, Enabled
<1> QED
  BY <1>1, <1>2, <1>3, PTL DEF TfaSpec
=============================================================================
