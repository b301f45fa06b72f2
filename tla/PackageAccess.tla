--------------------------- MODULE PackageAccess ---------------------------
(***************************************************************************)
(* Who may change a package, and the changes of that: owners,              *)
(* collaborators, visibility, the second factor a package demands, stars.  *)
(* Routes of packages/api/src/access.ts and publish.ts with                *)
(* collaborator-access.ts and require-otp.ts, methods of                   *)
(* packages/store/src/storage.ts, visibility.ts.                           *)
(*                                                                         *)
(* Each check reads the manifest for itself, and the change is made by an  *)
(* update that reads it again; an update is one step here (PackageStore    *)
(* has its own).  The rules of the auth plugins do not change: they are    *)
(* the sets Readers and Publishers, AuthChain says how they are asked.     *)
(***************************************************************************)
EXTENDS Naturals

CONSTANTS
    Wish,          \* requests
    Person,
    Readers,       \* allow_access of the plugins
    Publishers,    \* allow_publish, allow_unpublish
    Wishes,        \* what the requests may ask for, a set of functions
    FirstAccess    \* what the manifest may say at first

Role == {"none", "read", "write"}
Mfa == {"off", "required", "automation"}
Access ==
    [owners : SUBSET Person, roles : [Person -> Role], private : BOOLEAN, mfa : Mfa,
     stars : SUBSET Person]
Wishing ==
    [by : Person, kind : {"view", "star", "owners", "collaborator", "visibility", "mfa"},
     second : {"none", "code"}, to : Person, role : Role, mfa : Mfa,
     flag : BOOLEAN, owners : SUBSET Person]

ASSUME GrantAssumption ==
    FirstAccess \subseteq Access /\ Wishes \subseteq [Wish -> Wishing]

VARIABLES
    checkOwners,   \* publish.check_owners
    access,        \* of the manifest: owners, roles, private, mfa, stars
    wish,          \* what each request asks for
    progress,      \* how far it is
    body,          \* the stars its client had read
    held,          \* what was true of it at some time since it came
    starred        \* requests that passed the check of stars before another
                   \* request changed them

grantVars == <<checkOwners, access, wish, progress, body, held, starred>>

-----------------------------------------------------------------------------
(* What is looked up in a manifest *)

\* getCollaboratorPermission
Collaborator(m, p) == IF p \in m.owners THEN "write" ELSE m.roles[p]

MayPublish(m, p) == p \in Publishers \/ Collaborator(m, p) = "write"
MayAccess(m, p) == p \in Readers \/ Collaborator(m, p) # "none"
\* canPublish asks the plugins alone
MaySee(m, p) == ~m.private \/ Collaborator(m, p) # "none" \/ p \in Publishers

\* no owners stand for those of a package of `anonymous` too
CheckAllowedToChangePackage(m, p) ==
    ~checkOwners \/ m.owners = {} \/ p \in m.owners

\* a code is one that TwoFactor takes; "automation" asks for one as well, since no
\* token that arrives has the mark that would make an exception (TrustedPublishing)
Factored(m, w) == m.mfa = "off" \/ w.second = "code"

True(m, w) ==
    {x \in {"publish", "access", "see", "own", "factor"} :
        \/ x = "publish" /\ MayPublish(m, w.by)
        \/ x = "access" /\ MayAccess(m, w.by)
        \/ x = "see" /\ MaySee(m, w.by)
        \/ x = "own" /\ CheckAllowedToChangePackage(m, w.by)
        \/ x = "factor" /\ Factored(m, w)}

GrantInit ==
    /\ checkOwners \in BOOLEAN /\ access \in FirstAccess /\ wish \in Wishes
    /\ progress = [r \in Wish |-> "new"]
    /\ body = [r \in Wish |-> {}]
    /\ held = [r \in Wish |-> {}]
    /\ starred = {}

-----------------------------------------------------------------------------
(* The checks *)

Proceeds(r, from, to) == progress[r] = from /\ progress' = [progress EXCEPT ![r] = to]
Unless(holds, to) == IF holds THEN to ELSE "refused"

\* the client has read the stars, and sends them with its own changed
Come(r) ==
    /\ Proceeds(r, "new", "asked")
    /\ body' = [body EXCEPT ![r] =
                   IF wish[r].flag THEN access.stars \cup {wish[r].by}
                   ELSE access.stars \ {wish[r].by}]
    /\ held' = [held EXCEPT ![r] = True(access, wish[r])]
    /\ UNCHANGED <<checkOwners, access, wish, starred>>

\* allowWithCollaborators: 'access' for a view, 'publish' or 'unpublish' else
Permit(r) ==
    /\ IF wish[r].kind = "view"
       THEN Proceeds(r, "asked", Unless(MayAccess(access, wish[r].by), "passed"))
       ELSE Proceeds(r, "asked", Unless(MayPublish(access, wish[r].by), "permitted"))
    /\ UNCHANGED <<checkOwners, access, wish, body, held, starred>>

\* requirePackagePublishOtp is not for the stars
PackageOtp(r) ==
    /\ Proceeds(r, "permitted",
                Unless(wish[r].kind = "star" \/ Factored(access, wish[r]), "passed"))
    /\ UNCHANGED <<checkOwners, access, wish, body, held, starred>>

FaultyCheckOwner(r) ==
    /\ wish[r].kind \notin {"view", "star"}
    /\ Proceeds(r, "passed", "checked")
    /\ UNCHANGED <<checkOwners, access, wish, body, held, starred>>

\* of the manifest as it is before the update
CheckOwner(r) ==
    /\ wish[r].kind \notin {"view", "star"}
    /\ Proceeds(r, "passed",
                Unless(/\ CheckAllowedToChangePackage(access, wish[r].by)
                       /\ wish[r].kind = "owners" => wish[r].owners # {}, "checked"))
    /\ UNCHANGED <<checkOwners, access, wish, body, held, starred>>

\* assertOwnUserKey
CheckStars(r) ==
    /\ wish[r].kind = "star"
    /\ Proceeds(r, "passed",
                Unless(access.stars \ {wish[r].by} = body[r] \ {wish[r].by}, "checked"))
    /\ UNCHANGED <<checkOwners, access, wish, body, held, starred>>

\* assertPackageVisibility: the flag, then who may see what is private
CheckVisibility(r) ==
    /\ wish[r].kind = "view"
    /\ Proceeds(r, "passed", IF access.private THEN "private" ELSE "checked")
    /\ UNCHANGED <<checkOwners, access, wish, body, held, starred>>

CheckCollaborator(r) ==
    /\ Proceeds(r, "private", Unless(\/ Collaborator(access, wish[r].by) # "none"
                                 \/ wish[r].by \in Publishers, "checked"))
    /\ UNCHANGED <<checkOwners, access, wish, body, held, starred>>

-----------------------------------------------------------------------------
(* The changes *)

Changed(m, r) ==
    LET w == wish[r]
    IN  CASE w.kind = "owners" -> [m EXCEPT !.owners = w.owners]
          [] w.kind = "collaborator" -> [m EXCEPT !.roles[w.to] = w.role]
          [] w.kind = "visibility" -> [m EXCEPT !.private = w.flag]
          [] w.kind = "mfa" -> [m EXCEPT !.mfa = w.mfa]
          [] w.kind = "star" -> [m EXCEPT !.stars = body[r]]
          [] w.kind = "view" -> m

MakeChange(r) ==
    /\ Proceeds(r, "checked", "done")
    /\ access' = Changed(access, r)
    /\ held' = [q \in Wish |->
                   IF progress[q] \in {"new", "done", "refused"} THEN held[q]
                   ELSE held[q] \cup True(access', wish[q])]
    /\ starred' = IF access'.stars = access.stars THEN starred
                  ELSE starred \cup {q \in Wish : progress[q] = "checked"}
    /\ UNCHANGED <<checkOwners, wish, body>>

GrantNext ==
    \E r \in Wish :
        \/ Come(r) \/ Permit(r) \/ PackageOtp(r)
        \/ CheckOwner(r) \/ CheckStars(r) \/ CheckVisibility(r) \/ CheckCollaborator(r)
        \/ MakeChange(r)

GrantSpec == GrantInit /\ [][GrantNext]_grantVars

-----------------------------------------------------------------------------
\* Every change is one its sender had the right to make, and every view one it
\* had the right to have, at some time since the request came: what was taken
\* away before that is gone.  A change is only what was asked for; the stars of
\* others stay, unless a change of stars came between the check and the update;
\* and a package that has owners keeps one.
MayHaveDone(r) ==
    CASE wish[r].kind = "view" -> {"access", "see"} \subseteq held[r]
      [] wish[r].kind = "star" -> "publish" \in held[r]
      [] OTHER -> {"publish", "own", "factor"} \subseteq held[r]

OnlyOwnStar(r) ==
    \/ r \in starred
    \/ \A p \in Person \ {wish[r].by} : p \in access'.stars <=> p \in access.stars

AccessIsEarned ==
    [][/\ \A r \in Wish :
             progress[r] = "checked" /\ progress'[r] = "done" =>
                /\ MayHaveDone(r) /\ OnlyOwnStar(r)
                /\ wish[r].kind # "owners" => access'.owners = access.owners
                /\ wish[r].kind # "mfa" => access'.mfa = access.mfa
                /\ wish[r].kind # "visibility" => access'.private = access.private
                /\ \A p \in Person : access'.roles[p] # access.roles[p] =>
                      wish[r].kind = "collaborator" /\ wish[r].to = p
       /\ access.owners # {} => access'.owners # {}]_grantVars
=============================================================================
