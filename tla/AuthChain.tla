----------------------------- MODULE AuthChain ------------------------------
(***************************************************************************)
(* Who may do what: authenticate, add_user, allow_access, allow_publish,   *)
(* allow_unpublish and allow_stage of packages/auth/src/auth.ts.  Each     *)
(* asks the auth plugins one after the other until one decides; the last   *)
(* is the built-in one (getDefaultPluginMethods of packages/auth/src/      *)
(* utils.ts), which goes by the packages section of the configuration.     *)
(*                                                                         *)
(* The questions are those of one user about one package.  A plugin is     *)
(* what its method answers, groups are whether the user is among them.     *)
(***************************************************************************)
EXTENDS Naturals, Sequences

CONSTANTS
    Asker,
    Questions,   \* what the askers may ask for, a set of functions
    Chains       \* the plugins there may be, sequences of [Right -> Reply]

Right == {"authenticate", "adduser", "access", "publish", "unpublish", "stage"}

\* missing: the plugin has no such method; nothing: undefined
Reply == {"missing", "error", "yes", "no", "nothing"}

ASSUME AuthAssumption ==
    Questions \subseteq [Asker -> Right] /\ Chains \subseteq Seq([Right -> Reply])

VARIABLES
    plugins,     \* this.plugins without the built-in one
    member,      \* actions whose list has the user or a group of the user
    configured,  \* actions with a list that is not empty
    visible,     \* no visibility list, or one that has the user
    inScope,     \* isTokenScopeAllowed
    asks,        \* the question as it came
    right,       \* the question now
    turnOf,      \* the plugin that is asked next, 0 before the first
    verdict      \* "open", "allowed", "denied" or "hidden"

authVars == <<plugins, member, configured, visible, inScope, asks, right,
              turnOf, verdict>>

Fallback == {"unpublish", "stage"}   \* handleActionWithPublishFallback

AuthInit ==
    /\ plugins \in Chains
    /\ configured \in SUBSET Fallback
    /\ member \in SUBSET (configured \cup {"access", "publish"})
    /\ visible \in BOOLEAN /\ inScope \in BOOLEAN
    /\ asks \in Questions /\ right = asks
    /\ turnOf = [a \in Asker |-> 0]
    /\ verdict = [a \in Asker |-> "open"]

\* applyFallbackPluginMethods: the built-in plugin answers everything
AllowAction(action) == IF action \in member THEN "yes" ELSE "error"
BuiltIn(action) ==
    CASE action = "authenticate" -> "error"
      [] action = "adduser" -> "yes"
      [] action \in Fallback \ configured -> "nothing"
      [] OTHER -> AllowAction(action)
AnswerOf(a) == IF turnOf[a] <= Len(plugins) THEN plugins[turnOf[a]][right[a]]
               ELSE BuiltIn(right[a])

Decide(a, outcome) ==
    verdict' = [verdict EXCEPT ![a] = outcome] /\ UNCHANGED <<right, turnOf>>
Pass(a) ==
    turnOf' = [turnOf EXCEPT ![a] = @ + 1] /\ UNCHANGED <<right, verdict>>

\* the checks before the plugins: the scope of the token, the visibility
Begin(a) ==
    /\ verdict[a] = "open" /\ turnOf[a] = 0
    /\ IF right[a] \in {"authenticate", "adduser"} THEN Pass(a)
       ELSE IF ~inScope THEN Decide(a, "denied")
       ELSE IF right[a] = "access" /\ ~visible THEN Decide(a, "hidden")
       ELSE Pass(a)
    /\ UNCHANGED <<plugins, member, configured, visible, inScope, asks>>

FaultyAskInstead(a, other) ==
    /\ right' = [right EXCEPT ![a] = other]
    /\ UNCHANGED <<turnOf, verdict>>

\* this.allow_publish, self.authenticate: from the first plugin on
AskInstead(a, other) ==
    /\ right' = [right EXCEPT ![a] = other]
    /\ turnOf' = [turnOf EXCEPT ![a] = 0]
    /\ UNCHANGED verdict

\* the callback of a plugin
PluginDecides(a) ==
    /\ verdict[a] = "open" /\ turnOf[a] > 0
    /\ LET answer == AnswerOf(a)
       IN  CASE answer = "error" -> Decide(a, "denied")
             [] answer = "yes" /\ right[a] = "adduser" -> AskInstead(a, "authenticate")
             [] answer = "yes" /\ right[a] # "adduser" -> Decide(a, "allowed")
             [] answer = "nothing" /\ right[a] \in Fallback -> AskInstead(a, "publish")
             [] OTHER -> Pass(a)
    /\ UNCHANGED <<plugins, member, configured, visible, inScope, asks>>

AuthStep(a) == Begin(a) \/ PluginDecides(a)
AuthNext == \E a \in Asker : AuthStep(a)

AuthSpec == AuthInit /\ [][AuthNext]_authVars

-----------------------------------------------------------------------------
\* Where neither the configuration nor a plugin has an opinion on staging or
\* unpublishing, they are for whoever may publish: "existing configurations
\* behave exactly as before".
NoOpinionOn(action) ==
    /\ action \notin configured
    /\ \A i \in 1..Len(plugins) : plugins[i][action] \in {"missing", "no", "nothing"}

FallbackIsPublish ==
    \A a, b \in Asker :
        /\ asks[a] \in Fallback /\ NoOpinionOn(asks[a])
        /\ asks[b] = "publish"
        /\ verdict[a] # "open" /\ verdict[b] # "open"
        => verdict[a] = verdict[b]
=============================================================================
