----------------------------- MODULE MCServices -----------------------------
(***************************************************************************)
(* Instances for TLC of the services beside the package store.  They share *)
(* no state, so that what one of them does is the same whatever the others *)
(* do: here one service is active and the others rest in one initial       *)
(* state.  Requests of one kind are interchangeable; their operations come *)
(* in the order of a list, which leaves one of the states that differ only *)
(* by the names of the requests.                                           *)
(***************************************************************************)
EXTENDS TokenDatabase, DownloadStats, PackageList, TwoFactor, Htpasswd,
        AccessTokens, UplinkProxy, LoginSession, AuthChain,
        StorageQuota, PackageFilter, TarballDownload, PackageAccess, SearchPages,
        TrustedPublishing, TLC

CONSTANTS c1, c2, c3, c4, a, b, k

VARIABLE active

Ids == <<c1, c2, c3, c4>>
ListOf(ops) == {ops[i] : i \in 1..Len(ops)}
Position(ops, x) == CHOOSE i \in 1..Len(ops) : ops[i] = x
InOrder(f, ops) ==
    \A i, j \in {n \in 1..4 : Ids[n] \in DOMAIN f} :
        i < j => Position(ops, f[Ids[i]]) <= Position(ops, f[Ids[j]])
All(ids, x) == [i \in ids |-> x]

-----------------------------------------------------------------------------
(* The token database: one row that is saved, deleted and read *)

TokenOps == <<[kind |-> "save", user |-> a, key |-> k],
              [kind |-> "delete", user |-> a, key |-> k],
              [kind |-> "read", user |-> a, key |-> k]>>
TokenOpSet == ListOf(TokenOps)

TokensStart ==
    /\ IF active = "tokens" THEN TRUE
       ELSE file = NoRows /\ call = All(TokenCall, TokenOps[3])
    /\ TokenInit /\ InOrder(call, TokenOps)

-----------------------------------------------------------------------------
(* The download statistics of one package *)

StatsOps == <<[kind |-> "timer", package |-> a], [kind |-> "read", package |-> a],
              [kind |-> "delete", package |-> a]>>
StatsOpSet == ListOf(StatsOps)

StatsStart ==
    /\ IF active = "stats" THEN TRUE
       ELSE statsFile = NoCount /\ visit = All(Visit, StatsOps[1])
    /\ StatsInit /\ InOrder(visit, StatsOps)

-----------------------------------------------------------------------------
(* The list of two packages *)

ListOps == <<[kind |-> "add", name |-> a], [kind |-> "remove", name |-> a],
             [kind |-> "add", name |-> b]>>
ListOpSet == ListOf(ListOps)

ListStart ==
    /\ IF active = "list" THEN TRUE
       ELSE listFile = NoFile /\ update = All(Update, ListOps[1])
    /\ PackageListInit /\ InOrder(update, ListOps)

-----------------------------------------------------------------------------
(* Two-factor requests: two with a code of one period or a recovery code,  *)
(* and one of any kind                                                     *)

Totp(secret, period) == [secret |-> secret, period |-> period]
TfaOp(kind, code) == [kind |-> kind, code |-> code]
TfaOps == <<TfaOp("auth", Totp(1, 1)), TfaOp("auth", [secret |-> 1, number |-> 1]),
            TfaOp("publish", Totp(1, 1)), TfaOp("write", None),
            TfaOp("login", Totp(1, 1)), TfaOp("begin", Totp(1, 2)),
            TfaOp("complete", Totp(1, 1)), TfaOp("disable", Totp(1, 2)),
            TfaOp("reset", None)>>
TfaOpSet == ListOf(TfaOps)

Enrolled(mode) == [Enrolment(1, mode) EXCEPT !.pending = FALSE, !.recovery = {1}]
TfaRecords == {[Enrolled("auth-only") EXCEPT !.failed = 1],
               Enrolled("auth-and-writes"), Enrolment(1, "auth-only")}

TfaStart ==
    /\ IF active = "tfa" THEN TRUE
       ELSE rows = <<>> /\ mfa = FALSE /\ req = All(Request, TfaOps[9])
    /\ TfaInit
    /\ active = "tfa" =>
          /\ req[c1] = TfaOps[1] /\ req[c2] \in {TfaOps[1], TfaOps[2]}
          /\ req[c2] = TfaOps[2] => req[c3].kind \in {"auth", "begin", "disable", "reset"}
          /\ mfa => /\ req[c3].kind = "publish"
                   /\ \A i \in DOMAIN rows : rows[i].mode = "auth-only"

-----------------------------------------------------------------------------
(* The accounts of the htpasswd plugin: before the first account the setup *)
(* link meets a registration, then changes meet deletions and logins       *)

AccountOp(kind, account, token) ==
    [kind |-> kind, account |-> account, old |-> 1, new |-> 2, token |-> token]
FirstOps == {AccountOp("register", b, 1), AccountOp("setup", b, 2)}
LaterOps == {AccountOp(kind, a, 1) : kind \in {"change", "delete", "grant", "login"}}
AccountOpSet == FirstOps \cup LaterOps \cup {AccountOp("setup", a, 1)}
OneAccount == [NoAccounts EXCEPT ![a] = 1]
UserFiles == {Missing, NoAccounts, OneAccount}

AccountsStart ==
    /\ IF active = "accounts" THEN TRUE
       ELSE userFile = Missing /\ maxUsers = Closed
            /\ visits = All(Visitor, AccountOp("setup", a, 1))
    /\ HtpasswdInit
    /\ active = "accounts" =>
          /\ visits[c1] = IF userFile = OneAccount THEN AccountOp("change", a, 1)
                          ELSE AccountOp("setup", a, 1)
          /\ visits[c2] \in FirstOps
          /\ visits[c3] \in LaterOps
          /\ userFile = OneAccount \/ maxUsers = Closed

-----------------------------------------------------------------------------
(* Bearer tokens: a generated one, and one of a login *)

AccessOp(kind, bearerKey, pass) ==
    [kind |-> kind, bearer |-> [key |-> bearerKey, password |-> pass], key |-> k]
AccessOps == <<AccessOp("read", k, 1), AccessOp("read", NoKey, 1),
               AccessOp("write", k, 2), AccessOp("create", NoKey, 1),
               AccessOp("revoke", NoKey, 1), AccessOp("change", NoKey, 1)>>
AccessOpSet == ListOf(AccessOps)

AccessStart ==
    /\ IF active = "access" THEN TRUE
       ELSE legacy = FALSE /\ issued = {} /\ calls = All(Caller, AccessOps[1])
    /\ AccessInit /\ tokenRows = issued
    /\ calls[c1] = AccessOps[1] /\ InOrder(calls, AccessOps)
    /\ active = "access" /\ issued = {} => calls[c2].kind = "create"

-----------------------------------------------------------------------------
(* An uplink, a login session, the chain of auth plugins *)

ProxyStart ==
    /\ IF active = "proxy" THEN TRUE ELSE fetch = All(Asking, "search")
    /\ ProxyInit /\ InOrder(fetch, <<"metadata", "tarball", "search">>)
    /\ active = "proxy" => fetch[c1] = "metadata"

LoginStart ==
    /\ IF active = "login" THEN TRUE
       ELSE inMemory = FALSE /\ guest = All(Guest, "poll")
    /\ LoginInit /\ InOrder(guest, <<"poll", "password", "oidc">>)

\* a plugin answers for a right that is delegated and for one that is not
APlugin(main, delegated) ==
    [r \in Right |-> IF r \in {"publish", "access", "authenticate"} THEN main
                     ELSE delegated]
NoPluginOrOne ==
    {<<>>, <<APlugin("yes", "missing")>>} \cup {<<APlugin("missing", d)>> : d \in Reply}
APublishAndAnother == {c1 :> r @@ c2 :> "publish" : r \in Right}

AuthStart ==
    /\ IF active = "auth" THEN TRUE
       ELSE plugins = <<>> /\ configured = {} /\ member = {} /\ visible = TRUE
            /\ inScope = TRUE /\ asks = All(Asker, "publish")
    /\ AuthInit /\ (active = "auth" => visible \/ inScope)

\* askers change nothing that another one sees: one asks after the other
AskInOrder == verdict'[c1] = "open" => turnOf'[c2] = 0 /\ verdict'[c2] = "open"

-----------------------------------------------------------------------------
(* The quota of the storage *)

QuotaStart ==
    /\ IF active = "quota" THEN TRUE
       ELSE used = 0 /\ brings = All(Upload, 1)
    /\ QuotaInit /\ used < Quota

\* publishes come in the order of their names
ArriveInOrder == \A i \in {2, 3} : gate'[Ids[i]] # "new" => gate'[Ids[i - 1]] # "new"

-----------------------------------------------------------------------------
(* The filter of one package of three versions, the last a prerelease: up to *)
(* two block rules and one that allows                                       *)

FilterRule(level, pattern, range, strategy) ==
    [level |-> level, pattern |-> pattern, range |-> range, strategy |-> strategy]
BlockRules ==
    {FilterRule("scope", "exact", Nothing, "block"),
     FilterRule("package", "exact", Nothing, "block"),
     FilterRule("package", "glob", Nothing, "block"),
     FilterRule("package", "glob", {2}, "replace"),
     FilterRule("package", "other", {1}, "block")}
    \cup {FilterRule("package", "exact", r, s) :
              r \in {{1}, {3}, {2, 3}}, s \in {"block", "replace"}}
\* a range after a rule about the whole package does not parse
Parses(rules) ==
    \A i, j \in DOMAIN rules :
        i < j /\ SameKey(rules[i], rules[j]) /\ rules[i].range = Nothing
            => rules[j].range = Nothing
BlockLists ==
    {rules \in {<<>>} \cup {<<r>> : r \in BlockRules} \cup (BlockRules \X BlockRules) :
        Parses(rules)}
AllowLists ==
    {<<>>, <<FilterRule("package", "exact", Nothing, "block")>>,
     <<FilterRule("package", "exact", {2}, "block")>>,
     <<FilterRule("package", "glob", {3}, "block")>>}
FilterConfigs ==
    [block : BlockLists, allow : AllowLists, excludeDeprecated : BOOLEAN,
     before : {NoDate, 1}]

Offered(latest, next, times, deprecated) ==
    [content |-> [v \in 1..3 |-> v], deprecated |-> deprecated, time |-> times,
     tags |-> [t \in {"latest", "next"} |-> IF t = "latest" THEN latest ELSE next],
     files |-> {1, 2}, created |-> 1, modified |-> 2]
FilterOffers ==
    {Offered(2, 3, <<1, 1, 2>>, {2}), Offered(3, 1, <<1, 2, 1>>, {1}),
     Offered(2, 3, <<2, 1, 1>>, {}), Offered(2, 1, <<1, 2>>, {2})}

FilterStart ==
    /\ IF active = "filter" THEN TRUE
       ELSE /\ settings = [block |-> <<>>, allow |-> <<>>, excludeDeprecated |-> FALSE,
                           before |-> NoDate]
            /\ offered = Offered(2, 3, <<1, 1, 2>>, {2})
    /\ FilterInit

-----------------------------------------------------------------------------
(* Downloads of one tarball *)

DownloadStart ==
    /\ IF active = "download" THEN TRUE ELSE caching = FALSE /\ tarball = Size
    /\ DownloadInit

-----------------------------------------------------------------------------
(* Changes of who may change one package, which `a` owns *)

AWish(by, kind, second, role, flag, owners) ==
    [by |-> by, kind |-> kind, second |-> second, to |-> b, role |-> role,
     mfa |-> IF by = a THEN "automation" ELSE "off", flag |-> flag, owners |-> owners]
WishList ==
    <<AWish(a, "owners", "code", "none", FALSE, {b}),
      AWish(a, "collaborator", "code", "write", FALSE, {}),
      AWish(a, "star", "none", "none", TRUE, {}),
      AWish(b, "star", "none", "none", TRUE, {}),
      AWish(a, "mfa", "none", "none", FALSE, {}),
      AWish(b, "mfa", "code", "none", FALSE, {}),
      AWish(a, "visibility", "none", "none", TRUE, {}),
      AWish(b, "collaborator", "code", "none", FALSE, {}),
      AWish(b, "view", "none", "none", FALSE, {}),
      AWish(b, "owners", "none", "none", FALSE, {})>>
WishSet == {f \in [Wish -> ListOf(WishList)] : InOrder(f, WishList)}
Roles(ofB) == [p \in {a, b} |-> IF p = b THEN ofB ELSE "none"]
FirstManifests ==
    {[owners |-> {a}, roles |-> Roles("none"), private |-> FALSE, mfa |-> "off",
      stars |-> {}],
     [owners |-> {a}, roles |-> Roles("write"), private |-> FALSE, mfa |-> "required",
      stars |-> {}]}

GrantStart ==
    /\ IF active = "grants" THEN TRUE
       ELSE /\ checkOwners = FALSE /\ wish = All(Wish, WishList[1])
            /\ access = [owners |-> {a}, roles |-> Roles("none"), private |-> FALSE,
                         mfa |-> "off", stars |-> {}]
    /\ GrantInit
    \* the first request changes what the others were checked against
    /\ wish[c1] \in {WishList[1], WishList[3]}

-----------------------------------------------------------------------------
(* Searches: a package that is private here and offered by an uplink too, a  *)
(* second uplink with a newer version of one the first has                   *)

Here == Item(a, 1, 1, TRUE)
FirstUplink == <<Item(b, 1, 3, FALSE), Item(a, 2, NoScore, FALSE), Item(k, 1, 2, FALSE)>>
OtherUplink == <<Item(k, 2, NoScore, FALSE), Item(c1, 1, 2, FALSE)>>
UplinkLists ==
    {<<>>} \cup {<<Source(FirstUplink, cap, total, from)>> :
                    cap \in {1, 2}, total \in BOOLEAN, from \in BOOLEAN}
    \cup {<<Source(FirstUplink, 2, total, TRUE), Source(OtherUplink, 2, total, TRUE)>> :
             total \in BOOLEAN}
UserRights ==
    {[allows |-> {a, b, c1, k}, publishes |-> {a}],
     [allows |-> {a, b, c1}, publishes |-> {}],
     [allows |-> {a, b}, publishes |-> {a}]}
SearchSet ==
    {[local |-> local, sources |-> sources, allows |-> rights.allows,
      publishes |-> rights.publishes, from |-> from, size |-> size] :
        local \in {<<>>, <<Here>>}, sources \in UplinkLists, rights \in UserRights,
        from \in 0..2, size \in 0..2}

SearchStart ==
    /\ IF active = "search" THEN TRUE
       ELSE search = [local |-> <<>>, sources |-> <<>>, allows |-> {a, b},
                      publishes |-> {a}, from |-> 0, size |-> 0]
    /\ SearchInit

-----------------------------------------------------------------------------
(* Two jobs of a CI, each of one of two repositories, and the entries that   *)
(* vouch for them                                                            *)

Vouching(claims, packages, user) ==
    [issuer |-> "github", keys |-> "github", audience |-> "here", claims |-> claims,
     packages |-> packages, user |-> user, sound |-> TRUE]
ForA == Vouching({"repo1"}, {"lib", "app"}, a)
ForB == Vouching({"repo2"}, {"app"}, b)
PublisherLists ==
    {<<ForA, ForB>>, <<ForB, ForA>>, <<[ForA EXCEPT !.audience = NoAudience], ForB>>,
     <<[ForB EXCEPT !.sound = FALSE], ForA>>, <<[ForA EXCEPT !.issuer = "gitlab"]>>}
Settings(publishers, old, rights, mode, policy) ==
    [publishers |-> publishers, legacy |-> old, mayPublish |-> rights,
     twoFactor |-> [u \in {a, b} |-> IF u = a THEN mode ELSE "none"],
     policy |-> [p \in {"lib", "app"} |-> policy]]
AllRights == {a, b} \X {"lib", "app"}
RegistrySet ==
    {Settings(l, FALSE, AllRights, "auth-and-writes", "automation") : l \in PublisherLists}
    \cup {Settings(<<ForA, ForB>>, FALSE, AllRights, mode, policy) :
            mode \in {"none", "auth-and-writes"}, policy \in {"off", "required"}}
    \cup {Settings(<<ForA, ForB>>, old, {<<a, "app">>}, "none", "off") : old \in BOOLEAN}

JobOf(issuer, signer, audience, claims, for, publishes) ==
    [token |-> [issuer |-> issuer, signer |-> signer, audience |-> audience,
                claims |-> claims], asks |-> for, publishes |-> publishes]
JobList ==
    <<JobOf("github", "github", "here", {"repo1"}, "app", "app"),
      JobOf("github", "github", "here", {"repo1"}, "app", "lib"),
      JobOf("github", "github", "here", {"repo2"}, "app", "app"),
      JobOf("github", "github", "here", {"repo2"}, "lib", "lib"),
      JobOf("github", "github", "elsewhere", {"repo1"}, "app", "app"),
      JobOf("github", "gitlab", "here", {"repo1"}, "app", "app"),
      JobOf("gitlab", "gitlab", "here", {"repo1"}, "app", "app")>>
JobSet == {f \in [Job -> ListOf(JobList)] : InOrder(f, JobList)}

TrustStart ==
    /\ IF active = "trust" THEN TRUE
       ELSE /\ registry = Settings(<<ForA, ForB>>, FALSE, {<<a, "app">>}, "none", "off")
            /\ ciJob = All(Job, JobList[1])
    /\ TrustInit
    \* one of the two comes from the repositories
    /\ Position(JobList, ciJob[c1]) <= 3

-----------------------------------------------------------------------------
Start ==
    /\ active \in {"tokens", "stats", "list", "tfa", "accounts", "access", "proxy",
                   "login", "auth", "quota", "filter", "download", "grants",
                   "search", "trust"}
    /\ TokensStart /\ StatsStart /\ ListStart /\ TfaStart /\ AccountsStart
    /\ AccessStart /\ ProxyStart /\ LoginStart /\ AuthStart
    /\ QuotaStart /\ FilterStart /\ DownloadStart /\ GrantStart
    /\ SearchStart /\ TrustStart

OthersRest ==
    /\ UNCHANGED active
    /\ IF active = "tokens" THEN TRUE ELSE UNCHANGED tokenVars
    /\ IF active = "stats" THEN TRUE ELSE UNCHANGED statsVars
    /\ IF active = "list" THEN TRUE ELSE UNCHANGED listVars
    /\ IF active = "tfa" THEN TRUE ELSE UNCHANGED tfaVars
    /\ IF active = "accounts" THEN TRUE ELSE UNCHANGED hpVars
    /\ IF active = "access" THEN TRUE ELSE UNCHANGED accessVars
    /\ IF active = "proxy" THEN TRUE ELSE UNCHANGED proxyVars
    /\ IF active = "login" THEN TRUE ELSE UNCHANGED loginVars
    /\ IF active = "auth" THEN TRUE ELSE UNCHANGED authVars
    /\ IF active = "quota" THEN TRUE ELSE UNCHANGED quotaVars
    /\ IF active = "filter" THEN TRUE ELSE UNCHANGED filterVars
    /\ IF active = "download" THEN TRUE ELSE UNCHANGED downloadVars
    /\ IF active = "grants" THEN TRUE ELSE UNCHANGED grantVars
    /\ IF active = "search" THEN TRUE ELSE UNCHANGED searchVars
    /\ IF active = "trust" THEN TRUE ELSE UNCHANGED trustVars

Move ==
    \/ active = "tokens" /\ TokenNext
    \/ active = "stats" /\ StatsNext
    \/ active = "list" /\ PackageListNext
    \/ active = "tfa" /\ TfaNext
    \/ active = "accounts" /\ HtpasswdNext
    \/ active = "access" /\ AccessNext
    \/ active = "proxy" /\ ProxyNext
    \/ active = "login" /\ LoginNext
    \/ active = "auth" /\ AuthNext /\ AskInOrder
    \/ active = "quota" /\ QuotaNext /\ ArriveInOrder
    \/ active = "filter" /\ FilterNext
    \/ active = "download" /\ DownloadNext
    \/ active = "grants" /\ GrantNext
    \/ active = "search" /\ SearchNext
    \/ active = "trust" /\ TrustNext

everything == <<active, tokenVars, statsVars, listVars, tfaVars, hpVars, accessVars,
                proxyVars, loginVars, authVars, quotaVars, filterVars, downloadVars,
                grantVars, searchVars, trustVars>>

\* the event loop goes on while a callback of a request is left; there are
\* finitely many, so it need not be fair to each request
ServicesFairness ==
    WF_<<tfaVars, accessVars>>(
        \/ active = "tfa" /\ (\E r \in Request : TfaStep(r)) /\ UNCHANGED accessVars
        \/ active = "access" /\ (\E c \in Caller : CallerStep(c)) /\ UNCHANGED tfaVars)

ServicesSpec ==
    Start /\ [][Move /\ OthersRest]_everything /\ ServicesFairness

\* Whoever asks is answered in the end: two-factor mutations that end let the
\* next one start, and callers that wait for another's authentication get its
\* answer, whatever it is.
EveryoneIsAnswered == []<>(RequestsEnded /\ CallersAnswered)
=============================================================================
