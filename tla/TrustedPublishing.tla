------------------------- MODULE TrustedPublishing -------------------------
(***************************************************************************)
(* Trusted publishing: a job of a CI exchanges the identity token it was   *)
(* given for a token of the registry, and publishes with that.  The        *)
(* exchange of packages/api/src/v1/oidc-exchange.ts with jwtEncrypt of     *)
(* packages/auth/src/auth.ts, and what a publish passes:                   *)
(* enforceGeneratedTokenMetadata, the scope of the token, the rights of    *)
(* its user, requireOtp and requirePackagePublishOtp.                      *)
(*                                                                         *)
(* A job asks for a token for one package and publishes one, perhaps       *)
(* another, and has no one-time password.  A row of the token database is  *)
(* saved or deleted in one step (TokenDatabase); nothing deletes it when   *)
(* the token expires, and a token that expires is one that is not used any *)
(* more.                                                                   *)
(*                                                                         *)
(* Operators named Faulty... are wrong variants of the operator that       *)
(* follows them; no action uses them.                                      *)
(***************************************************************************)
EXTENDS Naturals, Sequences

CONSTANTS
    Job,
    Jobs,           \* what the jobs may be, a set of functions
    Registries,     \* the settings there may be
    NoAudience,     \* neither the entry nor a public URL gives one
    MaxKeyErrors,   \* bound on keys of an issuer that cannot be fetched
    MaxRowErrors    \* bound on rows that cannot be saved

ASSUME TrustAssumption == MaxKeyErrors \in Nat /\ MaxRowErrors \in Nat

VARIABLES
    registry,    \* publishers, legacy, mayPublish, twoFactor, policy
    ciJob,       \* token, asks, publishes
    jobAt,       \* how far each job is
    entryAt,     \* the entry that is tried, then the one that matched
    carried,     \* what the token of the registry says, once it is signed
    keyRows,     \* jobs whose token has a row
    scope,       \* remote_user.token.packages of the publish
    withdrawn,     \* jobs whose row a user deleted before they published
    keyErrors, rowErrors

trustVars == <<registry, ciJob, jobAt, entryAt, carried, keyRows, scope, withdrawn,
               keyErrors, rowErrors>>

\* no token of the registry yet
Unsigned == [name |-> "anonymous", token |-> {}]

TrustInit ==
    /\ registry \in Registries /\ ciJob \in Jobs
    /\ jobAt = [j \in Job |-> "new"]
    /\ entryAt = [j \in Job |-> 1]
    /\ carried = [j \in Job |-> Unsigned]
    /\ keyRows = {} /\ withdrawn = {}
    /\ scope = [j \in Job |-> {}]
    /\ keyErrors = 0 /\ rowErrors = 0

-----------------------------------------------------------------------------
(* Which entry vouches for a job *)

Entry(j) == registry.publishers[entryAt[j]]

\* validPublishers and candidatesFor: well formed, and of the issuer of the token
Candidate(e, j) == e.sound /\ e.issuer = ciJob[j].token.issuer

FaultyClaimsMatch(e, j) == ciJob[j].asks \in e.packages

\* claimsMatch: repository, workflow and environment, then the package
ClaimsMatch(e, j) ==
    e.claims \subseteq ciJob[j].token.claims /\ ciJob[j].asks \in e.packages

\* jwtVerify: the signature, the issuer and the audience
JwtVerify(e, j) ==
    /\ e.keys = ciJob[j].token.signer /\ e.issuer = ciJob[j].token.issuer
    /\ e.audience = ciJob[j].token.audience

-----------------------------------------------------------------------------
(* The exchange *)

Steps(j, from, to) == jobAt[j] = from /\ jobAt' = [jobAt EXCEPT ![j] = to]

\* decodeJwt: a token of an issuer no entry has is refused unread
Exchange(j) ==
    /\ Steps(j, "new",
             IF \E i \in DOMAIN registry.publishers : Candidate(registry.publishers[i], j)
             THEN "trying" ELSE "refused")
    /\ UNCHANGED <<registry, ciJob, entryAt, carried, keyRows, scope, withdrawn,
                   keyErrors, rowErrors>>

NextEntry(j) ==
    entryAt' = [entryAt EXCEPT ![j] = @ + 1] /\ UNCHANGED jobAt

\* the next candidate: one without an audience, or whose keys do not verify the
\* token, or whose claims are others, leaves the turn to the one after it
TryEntry(j) ==
    /\ jobAt[j] = "trying" /\ entryAt[j] \in DOMAIN registry.publishers
    /\ LET e == Entry(j)
       IN  \/ /\ Candidate(e, j) /\ e.audience # NoAudience /\ JwtVerify(e, j)
              /\ ClaimsMatch(e, j)
              /\ Steps(j, "trying", "matched") /\ UNCHANGED <<entryAt, keyErrors>>
           \/ /\ \/ ~Candidate(e, j) \/ e.audience = NoAudience
                 \/ ~JwtVerify(e, j) \/ ~ClaimsMatch(e, j)
              /\ NextEntry(j) /\ UNCHANGED keyErrors
           \/ /\ Candidate(e, j) /\ e.audience # NoAudience
              /\ keyErrors < MaxKeyErrors /\ keyErrors' = keyErrors + 1
              /\ NextEntry(j)
    /\ UNCHANGED <<registry, ciJob, carried, keyRows, scope, withdrawn, rowErrors>>

NoneMatches(j) ==
    /\ entryAt[j] \notin DOMAIN registry.publishers
    /\ Steps(j, "trying", "refused")
    /\ UNCHANGED <<registry, ciJob, entryAt, carried, keyRows, scope, withdrawn,
                   keyErrors, rowErrors>>

\* jwtEncrypt copies the key of the token and nothing else it says
JwtEncrypt(user) == [user EXCEPT !.token = @ \cap {"key"}]

Sign(j) ==
    /\ Steps(j, "matched", IF registry.legacy THEN "refused" ELSE "signed")
    /\ carried' = IF registry.legacy THEN carried
                  ELSE [carried EXCEPT ![j] =
                           JwtEncrypt([name |-> Entry(j).user,
                                       token |-> {"key", "otpExempt"}])]
    /\ UNCHANGED <<registry, ciJob, entryAt, keyRows, scope, withdrawn, keyErrors,
                   rowErrors>>

\* saveToken, then the answer
SaveKey(j) ==
    /\ Steps(j, "signed", "answered") /\ keyRows' = keyRows \cup {j}
    /\ UNCHANGED <<registry, ciJob, entryAt, carried, scope, withdrawn, keyErrors,
                   rowErrors>>

SaveFails(j) ==
    /\ rowErrors < MaxRowErrors /\ rowErrors' = rowErrors + 1
    /\ Steps(j, "signed", "refused")
    /\ UNCHANGED <<registry, ciJob, entryAt, carried, keyRows, scope, withdrawn, keyErrors>>

\* DELETE /-/npm/v1/tokens/token/:tokenKey by the user the token is of
Revoke(j) ==
    /\ j \in keyRows /\ keyRows' = keyRows \ {j}
    /\ withdrawn' = IF jobAt[j] = "answered" THEN withdrawn \cup {j} ELSE withdrawn
    /\ UNCHANGED <<registry, ciJob, jobAt, entryAt, carried, scope, keyErrors, rowErrors>>

-----------------------------------------------------------------------------
(* The publish *)

PublishArrives(j) ==
    /\ Steps(j, "answered", "asked")
    /\ UNCHANGED <<registry, ciJob, entryAt, carried, keyRows, scope, withdrawn,
                   keyErrors, rowErrors>>

FaultyRowPackages(j) == Entry(j).packages

\* the packages of the row: the one that was asked for, not all of the entry's
RowPackages(j) == {ciJob[j].asks}

\* enforceGeneratedTokenMetadata: the row must be there, and gives the scope
Enforce(j) ==
    /\ Steps(j, "asked", IF j \in keyRows THEN "known" ELSE "refused")
    /\ scope' = IF j \in keyRows THEN [scope EXCEPT ![j] = RowPackages(j)] ELSE scope
    /\ UNCHANGED <<registry, ciJob, entryAt, carried, keyRows, withdrawn, keyErrors,
                   rowErrors>>

\* can('publish'): isTokenScopeAllowed, then the plugins (AuthChain) or the
\* collaborators (PackageAccess)
CanPublish(j) ==
    /\ Steps(j, "known",
             IF /\ ciJob[j].publishes \in scope[j]
                /\ <<carried[j].name, ciJob[j].publishes>> \in registry.mayPublish
             THEN "permitted" ELSE "refused")
    /\ UNCHANGED <<registry, ciJob, entryAt, carried, keyRows, scope, withdrawn,
                   keyErrors, rowErrors>>

OtpExempt(j) == "otpExempt" \in carried[j].token

\* requireOtp with the scope 'write'
UserOtp(j) ==
    /\ Steps(j, "permitted",
             IF ~OtpExempt(j) /\ registry.twoFactor[carried[j].name] = "auth-and-writes"
             THEN "challenged" ELSE "verified")
    /\ UNCHANGED <<registry, ciJob, entryAt, carried, keyRows, scope, withdrawn,
                   keyErrors, rowErrors>>

\* a user without two-factor cannot answer a challenge
PublishOtp(j) ==
    LET policy == registry.policy[ciJob[j].publishes]
    IN  /\ \/ /\ policy = "off" \/ (policy = "automation" /\ OtpExempt(j))
              /\ Steps(j, "verified", "published")
           \/ /\ policy # "off" /\ ~(policy = "automation" /\ OtpExempt(j))
              /\ Steps(j, "verified",
                       IF registry.twoFactor[carried[j].name] = "none" THEN "refused"
                       ELSE "challenged")
        /\ UNCHANGED <<registry, ciJob, entryAt, carried, keyRows, scope, withdrawn,
                       keyErrors, rowErrors>>

TrustNext ==
    \E j \in Job :
        \/ Exchange(j) \/ TryEntry(j) \/ NoneMatches(j) \/ Sign(j)
        \/ SaveKey(j) \/ SaveFails(j) \/ Revoke(j)
        \/ PublishArrives(j) \/ Enforce(j) \/ CanPublish(j) \/ UserOtp(j)
        \/ PublishOtp(j)

TrustSpec == TrustInit /\ [][TrustNext]_trustVars

-----------------------------------------------------------------------------
Vouches(e, j) ==
    /\ Candidate(e, j) /\ e.audience # NoAudience /\ JwtVerify(e, j)
    /\ e.claims \subseteq ciJob[j].token.claims /\ ciJob[j].asks \in e.packages

\* What a job publishes is the package it asked the token for; an entry of the
\* settings vouches for the job, its own claims and issuer and package, and it is
\* the user of that entry who publishes and has the right to; and the row was not
\* revoked before the publish came.  A token that was answered has a row that
\* can be revoked, until it is.
TrustIsEarned ==
    \A j \in Job :
        /\ jobAt[j] = "published" =>
              /\ ciJob[j].publishes = ciJob[j].asks /\ j \notin withdrawn
              /\ \E i \in DOMAIN registry.publishers :
                    LET e == registry.publishers[i]
                    IN  /\ Vouches(e, j) /\ e.user = carried[j].name
                        /\ <<e.user, ciJob[j].asks>> \in registry.mayPublish
        /\ jobAt[j] = "answered" => j \in keyRows \cup withdrawn

\* What the comment of oidc-exchange.ts says of otpExempt: the identity of the CI is
\* the second factor, so that a job is challenged only for a package that takes no
\* automation token instead of a code.
CiNeedsNoOtp ==
    \A j \in Job :
        jobAt[j] = "challenged" => registry.policy[ciJob[j].publishes] = "required"
=============================================================================
