---------------------------- MODULE AccessTokens ----------------------------
(***************************************************************************)
(* The way of a request with a bearer token of one user: the middleware    *)
(* apiJWTmiddleware with its authentication cache (packages/auth/src/      *)
(* auth.ts), enforceGeneratedTokenMetadata (packages/middleware/src/       *)
(* middlewares/token-auth.ts) and the handlers that create, revoke and     *)
(* outdate tokens (packages/api/src/v1/token.ts, profile.ts).              *)
(*                                                                         *)
(* A bearer token stands for what it holds: a password and, if it was      *)
(* generated, the key of its row.  The token database is one step a call   *)
(* (TokenDatabase); the plugin that checks a password is external.         *)
(*                                                                         *)
(* Operators named Faulty... are wrong variants of the operator that       *)
(* follows them; no action uses them.                                      *)
(***************************************************************************)
EXTENDS Naturals, Sequences

CONSTANTS
    Caller,      \* requests
    TokenKey,    \* keys of generated tokens
    NoKey,       \* a token of a login has none
    Readonly,    \* keys of the tokens that are created readonly
    Calls,       \* what the requests may be
    Ttl,         \* legacyAuthCache.ttlMs
    MaxEntries,  \* legacyAuthCache.maxEntries
    Passwords,   \* the user has the passwords 1..Passwords one after the other
    End          \* the clock stops there

Bearer == [key : TokenKey \cup {NoKey}, password : 1..Passwords]

\* read and write: of a package; create and revoke: a token; change: the
\* password
Calling == [kind : {"read", "write", "create", "revoke", "change"},
            bearer : Bearer, key : TokenKey]

\* ttlMs and maxEntries are positive (getLegacyAuthCacheTtlMs,
\* getLegacyAuthCacheMaxEntries)
ASSUME AccessAssumption ==
    /\ NoKey \notin TokenKey /\ Calls \subseteq Calling
    /\ Ttl \in Nat \ {0} /\ MaxEntries \in Nat \ {0}

VARIABLES
    legacy,     \* isAESLegacy: tokens hold the password; else they are signed
    clock,
    password,   \* the user's password
    tokenRows,  \* keys of the user's rows in the token database
    issued,     \* keys that were ever made
    cache,      \* legacyAuthCache, least recently used first
    inFlight,   \* legacyAuthCacheWaiters: bearers that are being authenticated
    calls,      \* what each request is
    stage,      \* where it is
    accepted,   \* the plugin's answer to a leader
    remoteKey,  \* remote_user.token.key of each request
    checked,    \* when each bearer was last accepted
    revoked,    \* keys whose revocation was answered
    stale       \* those that were when the request came

accessVars == <<legacy, clock, password, tokenRows, issued, cache, inFlight, calls,
                stage, accepted, remoteKey, checked, revoked, stale>>

AccessInit ==
    /\ legacy \in BOOLEAN
    /\ clock = 0 /\ password = 1
    /\ issued \in SUBSET TokenKey /\ tokenRows \in SUBSET issued
    /\ cache = <<>> /\ inFlight = {}
    /\ calls \in [Caller -> Calls]
    /\ stage = [c \in Caller |-> "new"]
    /\ accepted = [c \in Caller |-> FALSE]
    /\ remoteKey = [c \in Caller |-> NoKey]
    /\ checked = [b \in Bearer |-> 0]
    /\ revoked = {} /\ stale = [c \in Caller |-> {}]

Of(c) == calls[c].bearer
ToStage(c, s) == stage' = [stage EXCEPT ![c] = s]

-----------------------------------------------------------------------------
(* legacyAuthCache *)

Cached(b) == \E i \in 1..Len(cache) : cache[i].bearer = b
PlaceOf(b) == CHOOSE i \in 1..Len(cache) : cache[i].bearer = b
Others(b) ==
    IF Cached(b)
    THEN SubSeq(cache, 1, PlaceOf(b) - 1) \o SubSeq(cache, PlaceOf(b) + 1, Len(cache))
    ELSE cache

\* getLegacyAuthCacheEntry finds an entry that has not expired
Hit(b) == Cached(b) /\ cache[PlaceOf(b)].expires > clock

\* it becomes the most recently used; an expired one is dropped
Touched(b) == IF Hit(b) THEN Append(Others(b), cache[PlaceOf(b)]) ELSE Others(b)

FaultyStored(b) ==
    LET all == Append(Others(b), [bearer |-> b, key |-> NoKey, expires |-> clock + Ttl])
    IN  IF Len(all) > MaxEntries THEN Tail(all) ELSE all

\* setLegacyAuthCacheEntry: an entry that is there keeps its place
Stored(b) ==
    LET entry == [bearer |-> b, key |-> b.key, expires |-> clock + Ttl]
        all == IF Cached(b) THEN [cache EXCEPT ![PlaceOf(b)] = entry] ELSE Append(cache, entry)
    IN  IF Len(all) > MaxEntries THEN Tail(all) ELSE all

-----------------------------------------------------------------------------
(* apiJWTmiddleware: a request is known from the cache, waits for another  *)
(* that asks the plugin for the same token, or asks itself                 *)

Arrive(c) ==
    /\ stage[c] = "new" /\ Of(c).key \in issued \cup {NoKey}
    /\ calls[c].kind = "revoke" => calls[c].key \in issued
    /\ stale' = [stale EXCEPT ![c] = revoked]
    /\ IF ~legacy
       THEN /\ ToStage(c, "known") /\ remoteKey' = [remoteKey EXCEPT ![c] = Of(c).key]
            /\ UNCHANGED <<cache, inFlight>>
       ELSE /\ cache' = Touched(Of(c))
            /\ IF Hit(Of(c))
               THEN /\ ToStage(c, "known")
                    /\ remoteKey' = [remoteKey EXCEPT ![c] = cache[PlaceOf(Of(c))].key]
                    /\ UNCHANGED inFlight
               ELSE /\ ToStage(c, IF Of(c) \in inFlight THEN "waiting" ELSE "asking")
                    /\ inFlight' = inFlight \cup {Of(c)}
                    /\ UNCHANGED remoteKey
    /\ UNCHANGED <<legacy, clock, password, tokenRows, issued, calls, accepted, checked,
                   revoked>>

\* the plugin compares the password, or fails
PluginAnswers(c) ==
    /\ stage[c] = "asking" /\ ToStage(c, "asked")
    /\ \E ok \in {FALSE, Of(c).password = password} :
          accepted' = [accepted EXCEPT ![c] = ok]
    /\ UNCHANGED <<legacy, clock, password, tokenRows, issued, cache, inFlight, calls,
                   remoteKey, checked, revoked, stale>>

FaultyServed(c) ==
    {w \in Caller : w = c \/ (accepted[c] /\ stage[w] = "waiting" /\ Of(w) = Of(c))}

\* the leader and those that wait for it get the same answer
Served(c) == {w \in Caller : w = c \/ (stage[w] = "waiting" /\ Of(w) = Of(c))}

OnAuthComplete(c) ==
    /\ stage[c] = "asked"
    /\ inFlight' = inFlight \ {Of(c)}
    /\ stage' = [w \in Caller |-> IF w \notin Served(c) THEN stage[w]
                                  ELSE IF accepted[c] THEN "known" ELSE "refused"]
    /\ remoteKey' = [w \in Caller |-> IF w \in Served(c) /\ accepted[c] THEN Of(c).key
                                      ELSE remoteKey[w]]
    /\ cache' = IF accepted[c] THEN Stored(Of(c)) ELSE cache
    /\ checked' = IF accepted[c] THEN [checked EXCEPT ![Of(c)] = clock] ELSE checked
    /\ UNCHANGED <<legacy, clock, password, tokenRows, issued, calls, accepted, revoked,
                   stale>>

\* a token with a key needs its row, and a readonly one does not write
EnforceGeneratedTokenMetadata(c) ==
    /\ stage[c] = "known"
    /\ ToStage(c, IF remoteKey[c] = NoKey THEN "in"
                  ELSE IF remoteKey[c] \notin tokenRows THEN "refused"
                  ELSE IF remoteKey[c] \in Readonly /\ calls[c].kind # "read"
                  THEN "refused" ELSE "in")
    /\ UNCHANGED <<legacy, clock, password, tokenRows, issued, cache, inFlight, calls,
                   accepted, remoteKey, checked, revoked, stale>>

-----------------------------------------------------------------------------
(* The handlers *)

\* a new token: the password of the body is checked, the row has a new key
CreateToken(c) ==
    /\ stage[c] = "in" /\ calls[c].kind = "create"
    /\ \/ /\ calls[c].key \notin issued /\ issued' = issued \cup {calls[c].key}
          /\ tokenRows' = tokenRows \cup {calls[c].key} /\ ToStage(c, "done")
       \/ ToStage(c, "refused") /\ UNCHANGED <<tokenRows, issued>>
    /\ UNCHANGED <<legacy, clock, password, cache, inFlight, calls, accepted,
                   remoteKey, checked, revoked, stale>>

\* the row is gone, then the revocation is answered
RevokeToken(c) ==
    /\ stage[c] = "in" /\ calls[c].kind = "revoke"
    /\ tokenRows' = tokenRows \ {calls[c].key} /\ ToStage(c, "gone")
    /\ UNCHANGED <<legacy, clock, password, issued, cache, inFlight, calls, accepted,
                   remoteKey, checked, revoked, stale>>

Revoked(c) ==
    /\ stage[c] = "gone" /\ ToStage(c, "done")
    /\ revoked' = revoked \cup {calls[c].key}
    /\ UNCHANGED <<legacy, clock, password, tokenRows, issued, cache, inFlight, calls,
                   accepted, remoteKey, checked, stale>>

ChangePassword(c) ==
    /\ stage[c] = "in" /\ calls[c].kind = "change"
    /\ \/ password < Passwords /\ password' = password + 1 /\ ToStage(c, "done")
       \/ ToStage(c, "refused") /\ UNCHANGED password
    /\ UNCHANGED <<legacy, clock, tokenRows, issued, cache, inFlight, calls, accepted,
                   remoteKey, checked, revoked, stale>>

UsePackage(c) ==
    /\ stage[c] = "in" /\ calls[c].kind \in {"read", "write"} /\ ToStage(c, "done")
    /\ UNCHANGED <<legacy, clock, password, tokenRows, issued, cache, inFlight, calls,
                   accepted, remoteKey, checked, revoked, stale>>

ClockTicks ==
    /\ clock < End /\ clock' = clock + 1
    /\ UNCHANGED <<legacy, password, tokenRows, issued, cache, inFlight, calls, stage,
                   accepted, remoteKey, checked, revoked, stale>>

CallerStep(c) ==
    \/ Arrive(c) \/ PluginAnswers(c) \/ OnAuthComplete(c)
    \/ EnforceGeneratedTokenMetadata(c)
    \/ CreateToken(c) \/ RevokeToken(c) \/ Revoked(c) \/ ChangePassword(c)
    \/ UsePackage(c)

AccessNext == (\E c \in Caller : CallerStep(c)) \/ ClockTicks

AccessSpec == AccessInit /\ [][AccessNext]_accessVars

HasAnswer(c) == stage[c] \in {"done", "refused"}
AwaitsAnswer(c) == stage[c] # "new" /\ ~HasAnswer(c)

-----------------------------------------------------------------------------
\* A token that was revoked before a request came does not let it in, also
\* when the request was known from the cache or waited for another's answer:
\* the cache keeps the key, and the row is looked up for every request.
RevokedIsRefused ==
    \A c \in Caller :
        stage[c] \in {"in", "gone", "done"} => Of(c).key \notin stale[c]

\* What the cache vouches for was accepted by the plugin within the last
\* ttlMs: using an entry does not make it younger.
CacheIsRecent ==
    \A i \in 1..Len(cache) : clock < cache[i].expires =>
        clock < checked[cache[i].bearer] + Ttl

\* Neither the row of a token nor the password of its user is taken for what it
\* was before.
BearerIsCurrent == RevokedIsRefused /\ CacheIsRecent

\* What holds again and again: no request is left waiting for another's
\* authentication, whatever the plugin says.
CallersAnswered == \A c \in Caller : ~AwaitsAnswer(c)
=============================================================================
