---------------------------- MODULE LoginSession ----------------------------
(***************************************************************************)
(* One session of `npm login`: the CLI opens it and polls, a browser       *)
(* completes it.  Two implementations: the registry keeps the session as a *)
(* row of the token database (packages/api/src/v1/login.ts and the sign-up *)
(* of packages/web/src/api/user.ts), the OIDC plugin keeps it in memory    *)
(* (packages/plugins/oidc/src/state.ts and index.ts) and may complete it   *)
(* through the identity provider and a confirmation.                       *)
(*                                                                         *)
(* Checking a password, the provider and the making of a token are         *)
(* external; a token is named by the visit that made it.  The calls of the *)
(* token database are one step each (TokenDatabase).  Times are not        *)
(* modelled: what expires may do so at any moment.                         *)
(***************************************************************************)
EXTENDS Naturals, Sequences, FiniteSets

CONSTANTS
    Guest,          \* requests to the session
    NoToken,
    GuestKinds      \* what they may be

\* poll: the CLI, or a sign-up, asks for the token; password: the login page;
\* oidc: a flow through the provider, ended by the confirm endpoint
GuestKind == {"poll", "password", "oidc"}

ASSUME LoginAssumption == NoToken \notin Guest

VARIABLES
    inMemory,   \* the OIDC plugin has the session
    sessionRows,\* tokens of the session's rows in the token database
    session,    \* "none" or "open": cliSessions has it
    cell,       \* its token
    pendingAuth,    \* flows whose state is in pendingAuth
    confirms,   \* flows whose token is in confirms
    guest,      \* what each request is
    room,       \* where it is
    found,      \* the token a poll read
    handed      \* the token it answered with

loginVars == <<inMemory, sessionRows, session, cell, pendingAuth, confirms, guest,
               room, found, handed>>
sessionState == <<sessionRows, session, cell, pendingAuth, confirms>>
sessionConfig == <<inMemory, guest>>

LoginInit ==
    /\ inMemory \in BOOLEAN
    /\ sessionRows = IF inMemory THEN <<>> ELSE <<NoToken>>
    /\ session = IF inMemory THEN "open" ELSE "none"
    /\ cell = NoToken /\ pendingAuth = {} /\ confirms = {}
    /\ guest \in [Guest -> GuestKinds]
    /\ ~inMemory => \A g \in Guest : guest[g] # "oidc"
    /\ room = [g \in Guest |-> "new"]
    /\ found = [g \in Guest |-> NoToken] /\ handed = found

Comes(g, kind, from, to) ==
    /\ guest[g] = kind
    /\ room[g] = from /\ room' = [room EXCEPT ![g] = to]

-----------------------------------------------------------------------------
(* The registry: rows of the token database *)

\* one row with a token is deleted and answered; one without is asked for
\* again; anything else is no session
ReadSession(g) ==
    /\ ~inMemory
    /\ LET usable == Len(sessionRows) = 1 /\ sessionRows[1] # NoToken
       IN  /\ Comes(g, "poll", "new", IF usable THEN "found" ELSE "ended")
           /\ found' = [found EXCEPT ![g] = IF usable THEN sessionRows[1] ELSE @]
    /\ UNCHANGED <<sessionConfig, sessionState, handed>>

FaultyDropSession(g) ==
    /\ ~inMemory /\ Comes(g, "poll", "found", "ended")
    /\ \/ handed' = [handed EXCEPT ![g] = found[g]] /\ UNCHANGED sessionRows
       \/ sessionRows' = <<>> /\ UNCHANGED handed
    /\ UNCHANGED <<sessionConfig, session, cell, pendingAuth, confirms, found>>

\* deleteToken takes every row; then the token is answered, or is too old
DropSession(g) ==
    /\ ~inMemory /\ Comes(g, "poll", "found", "ended")
    /\ sessionRows' = <<>>
    /\ handed' \in {handed, [handed EXCEPT ![g] = found[g]]}
    /\ UNCHANGED <<sessionConfig, session, cell, pendingAuth, confirms, found>>

\* the password, then the one-time password, may be refused
Authenticated(g) ==
    /\ Comes(g, "password", "new", "in") \/ Comes(g, "password", "new", "ended")
    /\ inMemory /\ session = "none" => room'[g] = "ended"
    /\ UNCHANGED <<sessionConfig, sessionState, found, handed>>

DeleteSession(g) ==
    /\ ~inMemory /\ Comes(g, "password", "in", "deleted")
    /\ sessionRows' = <<>>
    /\ UNCHANGED <<sessionConfig, session, cell, pendingAuth, confirms, found, handed>>

SaveSession(g) ==
    /\ ~inMemory /\ Comes(g, "password", "deleted", "ended")
    /\ sessionRows' = Append(sessionRows, g)
    /\ UNCHANGED <<sessionConfig, session, cell, pendingAuth, confirms, found, handed>>

-----------------------------------------------------------------------------
(* The OIDC plugin: maps in memory, every step without an await *)

\* consumeCliToken
ConsumeCliToken(g) ==
    /\ inMemory /\ Comes(g, "poll", "new", "ended")
    /\ handed' = [handed EXCEPT ![g] = cell]
    /\ IF cell = NoToken THEN UNCHANGED <<session, cell>>
                         ELSE session' = "none" /\ cell' = NoToken
    /\ UNCHANGED <<sessionConfig, sessionRows, pendingAuth, confirms, found>>

\* completeCliSession: a session that is gone stays gone
Completed(g) ==
    /\ cell' = IF session = "open" THEN g ELSE cell
    /\ UNCHANGED session

\* handleCliPassword
CompleteWithPassword(g) ==
    /\ inMemory /\ Comes(g, "password", "in", "ended") /\ Completed(g)
    /\ UNCHANGED <<sessionConfig, sessionRows, pendingAuth, confirms, found, handed>>

\* handleAuthorize
CreatePendingAuth(g) ==
    /\ Comes(g, "oidc", "new", "away") /\ pendingAuth' = pendingAuth \cup {g}
    /\ UNCHANGED <<sessionConfig, sessionRows, session, cell, confirms, found, handed>>

\* handleCallback: the state is consumed; a second callback finds none
ConsumePendingAuth(g) ==
    /\ room[g] \in {"away", "back", "confirm"} /\ guest[g] = "oidc"
    /\ pendingAuth' = pendingAuth \ {g}
    /\ room' = [room EXCEPT ![g] = IF g \in pendingAuth THEN "back" ELSE @]
    /\ UNCHANGED <<sessionConfig, sessionRows, session, cell, confirms, found, handed>>

\* after the exchange of the code, which may fail; minting a token awaits
CreatePendingConfirm(g) ==
    /\ \/ /\ Comes(g, "oidc", "back", "confirm") /\ session = "open"
          /\ confirms' = confirms \cup {g}
       \/ Comes(g, "oidc", "back", "ended") /\ UNCHANGED confirms
    /\ UNCHANGED <<sessionConfig, sessionRows, session, cell, pendingAuth, found, handed>>

\* the confirm endpoint; its link may be opened again
Confirm(g) ==
    /\ guest[g] = "oidc" /\ room[g] = "confirm"
    /\ confirms' = confirms \ {g}
    /\ IF g \in confirms THEN Completed(g) ELSE UNCHANGED <<session, cell>>
    /\ UNCHANGED <<sessionConfig, sessionRows, pendingAuth, room, found, handed>>

\* the sweep, or an entry whose time is over
Expires ==
    /\ \/ session' = "none" /\ cell' = NoToken /\ UNCHANGED <<pendingAuth, confirms>>
       \/ pendingAuth' \in {pendingAuth \ {g} : g \in pendingAuth}
          /\ UNCHANGED <<session, cell, confirms>>
       \/ confirms' \in {confirms \ {g} : g \in confirms}
          /\ UNCHANGED <<session, cell, pendingAuth>>
    /\ UNCHANGED <<sessionConfig, sessionRows, room, found, handed>>

LoginNext ==
    \/ \E g \in Guest :
          \/ ReadSession(g) \/ DropSession(g) \/ ConsumeCliToken(g)
          \/ Authenticated(g) \/ DeleteSession(g) \/ SaveSession(g)
          \/ CompleteWithPassword(g) \/ CreatePendingAuth(g)
          \/ ConsumePendingAuth(g) \/ CreatePendingConfirm(g) \/ Confirm(g)
    \/ Expires

LoginSpec == LoginInit /\ [][LoginNext]_loginVars

-----------------------------------------------------------------------------
\* "session token can only be used once": no two polls get the same token,
\* and a session of the OIDC plugin hands out one token at all, whatever
\* completes it meanwhile.
TokenHandedOnce ==
    \A g, q \in Guest :
        g # q /\ handed[g] # NoToken =>
            /\ handed[q] # handed[g]
            /\ inMemory => handed[q] = NoToken

\* What the code keeps of that: a token that was answered is not there for any
\* poll that comes later, whatever logs in or completes the session meanwhile;
\* only polls that had read the row before it was deleted get it too.  In the
\* OIDC plugin nobody else gets anything.
HandedIsSpent ==
    \A g \in Guest : handed[g] # NoToken =>
        /\ \A i \in 1..Len(sessionRows) : sessionRows[i] # handed[g]
        /\ inMemory => cell = NoToken /\ \A q \in Guest \ {g} : handed[q] = NoToken
=============================================================================
