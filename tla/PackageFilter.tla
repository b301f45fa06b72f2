--------------------------- MODULE PackageFilter ---------------------------
(***************************************************************************)
(* The package filter plugin (packages/plugins/package-filter/src): the    *)
(* manifest of one package on its way to a client, through                 *)
(* applyManifestFilters of packages/store/src/filter-pipeline.ts.          *)
(*                                                                         *)
(* Versions are numbered in the order of the manifest's keys, which the    *)
(* plugin takes for the order of versions.  The content served under a     *)
(* version is the version it was published as.  A semver range is the set  *)
(* of the versions that satisfy it; a pattern is "exact" when it is the    *)
(* name of the package (of its scope), else a glob that matches or one     *)
(* that does not.  A rule without ranges is about the whole package.       *)
(***************************************************************************)
EXTENDS Integers, Sequences

CONSTANTS
    Offers,        \* manifests of the storage or an uplink
    Configs,       \* configurations that parseConfig accepts
    Prerelease,    \* versions with semver.prerelease
    Globs,         \* patterns that match without being the name itself
    Nothing,       \* undefined
    NoDate         \* null: neither dateThreshold nor minAgeDays

\* What the plugin gets: a manifest in which every version is its own content and
\* there is a last date, and rules that parseConfig accepts (a rule about a scope
\* has no range).
AManifest(m) ==
    /\ m = [content |-> m.content, deprecated |-> m.deprecated, time |-> m.time,
            tags |-> m.tags, files |-> m.files,
            created |-> m.created, modified |-> m.modified]
    /\ DOMAIN m.content \subseteq Nat /\ DOMAIN m.time \subseteq Nat
    /\ m.content = [v \in DOMAIN m.content |-> v]
    /\ \A v \in DOMAIN m.time : m.time[v] \in Nat
    /\ DOMAIN m.time # {} =>
          \E last \in DOMAIN m.time : \A v \in DOMAIN m.time : m.time[v] <= m.time[last]

RulesThatParse(rules) ==
    /\ Len(rules) \in Nat /\ DOMAIN rules = 1..Len(rules)
    /\ \A i \in DOMAIN rules :
          /\ rules[i].level \in {"scope", "package"}
          /\ rules[i].level = "scope" => rules[i].range = Nothing

ASSUME FilterAssumption ==
    /\ Nothing \notin Nat
    /\ \A m \in Offers : AManifest(m)
    /\ \A s \in Configs : /\ RulesThatParse(s.block) /\ RulesThatParse(s.allow)
                          /\ s.before # NoDate => s.before \in Nat

VARIABLES
    settings,   \* the parsed configuration
    offered,    \* the manifest the plugin gets
    shown,      \* the manifest the client gets
    outcome     \* "offered", "filtered", or "failed" when the plugin threw

filterVars == <<settings, offered, shown, outcome>>

FilterInit ==
    /\ settings \in Configs /\ offered \in Offers
    /\ shown = offered /\ outcome = "offered"

Least(S) == CHOOSE x \in S : \A y \in S : x <= y
Greatest(S) == CHOOSE x \in S : \A y \in S : y <= x
Only(f, S) == [x \in DOMAIN f \cap S |-> f[x]]
ValuesOf(f) == {f[x] : x \in DOMAIN f}
VersionsOf(m) == DOMAIN m.content

-----------------------------------------------------------------------------
(* The rules *)

SameKey(r, s) == r.level = s.level /\ r.pattern = s.pattern

\* the Map of rules at the key of rules[i]: a rule about the whole package
\* replaces ranges, ranges are merged, the last strategy counts
ParsedRule(rules, i) ==
    LET mine == {j \in DOMAIN rules : SameKey(rules[j], rules[i])}
        whole == \E j \in mine : rules[j].range = Nothing
    IN  [whole |-> whole,
         ranges |-> IF whole THEN <<>> ELSE [j \in mine |-> rules[j].range],
         strategy |-> IF whole THEN "block" ELSE rules[Greatest(mine)].strategy]

NoRule == [whole |-> FALSE, ranges |-> <<>>, strategy |-> "block"]

\* the name itself before the globs, and these in the order of the Map
FindRule(rules, level) ==
    LET written == {i \in DOMAIN rules : rules[i].level = level}
        exact == {i \in written : rules[i].pattern = "exact"}
        globs == {i \in written : rules[i].pattern \in Globs}
    IN  IF exact # {} THEN ParsedRule(rules, Least(exact))
        ELSE IF globs # {} THEN ParsedRule(rules, Least(globs))
        ELSE NoRule

InSome(v, ranges) == \E i \in DOMAIN ranges : v \in ranges[i]

MatchRules(rules) ==
    LET scope == FindRule(rules, "scope")
    IN  IF scope.whole THEN scope ELSE FindRule(rules, "package")

MatchedVersions(rule, versions) ==
    IF rule.whole THEN versions ELSE {v \in versions : InSome(v, rule.ranges)}

-----------------------------------------------------------------------------
(* The filters: `exempt` are the versions the allow rules match, all of    *)
(* them when the rule is about the whole package                           *)

FaultyReplaceVersions(content, ranges, exempt) ==
    LET versions == DOMAIN content
        hit == {v \in versions \ exempt : InSome(v, ranges)}
        first(v) == Least({i \in DOMAIN ranges : v \in ranges[i]})
        before(v) == {u \in versions : u < v /\ u \notin ranges[first(v)]}
        kept == (versions \ hit) \cup {v \in hit : before(v) # {}}
        taken(v) == Greatest(before(v))
    IN  [v \in kept |->
            IF v \notin hit THEN v
            ELSE IF taken(v) \in kept THEN taken(v) ELSE Nothing]

\* strategy `replace`: range after range, a version takes the content of the
\* last one before it that no range so far matches, or goes when there is none.
\* A version that a later range matches has not been replaced yet when its
\* content is taken, and is gone if there is nothing to replace it with.
ReplaceVersions(content, ranges, exempt) ==
    LET versions == DOMAIN content
        hit == {v \in versions \ exempt : InSome(v, ranges)}
        first(v) == Least({i \in DOMAIN ranges : v \in ranges[i]})
        before(v) == {u \in versions : u < v /\ (u \in hit => first(u) > first(v))}
        kept == (versions \ hit) \cup {v \in hit : before(v) # {}}
        taken(v) == Greatest(before(v))
    IN  [v \in kept |->
            IF v \notin hit THEN v
            ELSE IF taken(v) \in kept THEN taken(v) ELSE Nothing]

FilterBlockedVersions(content, rule, exempt) ==
    IF rule.strategy = "replace" THEN ReplaceVersions(content, rule.ranges, exempt)
    ELSE Only(content, DOMAIN content
                       \ (MatchedVersions(rule, DOMAIN content) \ exempt))

\* content that is a replacement is deprecated if what it was taken from is
FilterDeprecatedVersions(content, exempt) ==
    Only(content, {v \in DOMAIN content :
                      v \in exempt \/ content[v] \notin offered.deprecated})

\* looks at the time of the version, whatever its content
FilterVersionsByPublishDate(content, exempt) ==
    Only(content, {v \in DOMAIN content :
                      v \in exempt \/ offered.time[v] <= settings.before})

TimeIsMissing(content, exempt) ==
    \E v \in DOMAIN content \ exempt : v \notin DOMAIN offered.time

-----------------------------------------------------------------------------
(* The cleanup, when a version went or was replaced *)

\* the first in the manifest of those with the last time
GetLatestVersion(m, versions) ==
    LET timed == versions \cap DOMAIN m.time
        last == {v \in timed : \A u \in timed : m.time[u] <= m.time[v]}
    IN  IF timed = {} THEN Nothing ELSE Least(last)

CleanupTags(m) ==
    [m EXCEPT !.tags = Only(@, {t \in DOMAIN @ : @[t] \in VersionsOf(m)})]

SetupLatestTag(m) ==
    LET untagged == VersionsOf(m) \ ValuesOf(m.tags)
        stable == GetLatestVersion(m, untagged \ Prerelease)
        latest == IF stable # Nothing THEN stable ELSE GetLatestVersion(m, untagged)
    IN  IF "latest" \in DOMAIN m.tags \/ latest = Nothing THEN m
        ELSE [m EXCEPT !.tags = [t \in DOMAIN @ \cup {"latest"} |->
                                    IF t = "latest" THEN latest ELSE @[t]]]

\* cleanupTime drops `created` and `modified` too
CleanupTime(m) ==
    [m EXCEPT !.time = Only(@, VersionsOf(m)), !.created = Nothing, !.modified = Nothing]

SetupCreatedAndModified(m) ==
    LET times == ValuesOf(m.time)
    IN  IF times = {} THEN m
        ELSE [m EXCEPT !.created = Least(times), !.modified = Greatest(times)]

CleanupDistFiles(m) ==
    [m EXCEPT !.files = @ \cap ValuesOf(m.content)]

Cleanup(m) ==
    CleanupDistFiles(SetupCreatedAndModified(CleanupTime(SetupLatestTag(CleanupTags(m)))))

-----------------------------------------------------------------------------
(* filter_metadata *)

Exempt == MatchedVersions(MatchRules(settings.allow), VersionsOf(offered))

Unblocked ==
    FilterBlockedVersions(offered.content, MatchRules(settings.block), Exempt)

Undeprecated ==
    IF settings.excludeDeprecated THEN FilterDeprecatedVersions(Unblocked, Exempt)
    ELSE Unblocked

HasDate == settings.before # NoDate

Filtered ==
    IF HasDate THEN FilterVersionsByPublishDate(Undeprecated, Exempt) ELSE Undeprecated

\* replacing keeps the count but rewrites the readme
FilterMetadata ==
    /\ outcome = "offered" /\ outcome' = "filtered"
    /\ ~(HasDate /\ TimeIsMissing(Undeprecated, Exempt))
    /\ shown' = IF Filtered = offered.content THEN offered
                ELSE Cleanup([offered EXCEPT !.content = Filtered])
    /\ UNCHANGED <<settings, offered>>

\* the error is caught, and the manifest goes on as this filter got it
FilterThrows ==
    /\ outcome = "offered" /\ outcome' = "failed"
    /\ HasDate /\ TimeIsMissing(Undeprecated, Exempt)
    /\ UNCHANGED <<settings, offered, shown>>

FilterNext == FilterMetadata \/ FilterThrows

FilterSpec == FilterInit /\ [][FilterNext]_filterVars

-----------------------------------------------------------------------------
(* What the rules ask for, read without their parsing: where several of them *)
(* match one package, the plugin documents no order, so that only what any   *)
(* order gives is certain                                                    *)

AboutUs(rules) == {i \in DOMAIN rules : rules[i].pattern \in Globs \cup {"exact"}}
Says(rule, v) == rule.range = Nothing \/ v \in rule.range
OneKey(rules) ==
    \A i, j \in AboutUs(rules) :
        rules[i].level = "package" /\ rules[j].level = "package"
            => SameKey(rules[i], rules[j])
MaySay(rules, v) == \E i \in AboutUs(rules) : Says(rules[i], v)
MustSay(rules, v) ==
    \E i \in AboutUs(rules) :
        /\ Says(rules[i], v)
        /\ \/ rules[i].level = "scope" \/ rules[i].pattern = "exact" \/ OneKey(rules)

Young(v) == HasDate /\ v \in DOMAIN offered.time /\ offered.time[v] > settings.before
Deprecated(v) == settings.excludeDeprecated /\ v \in offered.deprecated
TimesInOrder ==
    \A u, v \in DOMAIN offered.time : u < v => offered.time[u] <= offered.time[v]

\* a version is its own content, or under `replace` the nearest older content
\* that is not blocked; neither the one nor, if versions were published in
\* order, the other is too young, and the content is not deprecated.  Two ranges
\* can defeat `replace`: only one is promised.
ContentIsAllowed(v) ==
    LET c == shown.content[v]
        blocked(u) == MaySay(settings.block, u) /\ ~MustSay(settings.allow, u)
        hit(u) == MustSay(settings.block, u) /\ ~MaySay(settings.allow, u)
        one == \A i, j \in AboutUs(settings.block) : i = j
    IN  /\ hit(v) => c # v
        /\ c # v => /\ \E i \in AboutUs(settings.block) :
                          settings.block[i].strategy = "replace"
                    /\ blocked(v)
                    /\ c # Nothing => c < v
                    /\ one => /\ c # Nothing /\ ~hit(c)
                              /\ \A u \in VersionsOf(offered) : c < u /\ u < v => blocked(u)
        /\ ~MaySay(settings.allow, v) =>
              /\ ~Deprecated(c) /\ ~Young(v)
              /\ TimesInOrder => ~Young(c)

\* nothing else goes: what no rule blocks, what is allowed
NothingElseGoes ==
    \A v \in VersionsOf(offered) :
        \/ MustSay(settings.allow, v)
        \/ ~MaySay(settings.block, v) /\ ~Deprecated(v) /\ ~Young(v)
        => v \in VersionsOf(shown) /\ shown.content[v] = v

\* tags, times and tarball records are those of what is shown; `latest` is kept
\* where it was, or is the newest of what no other tag names, and stable if any
\* such version is
CleanupIsRight ==
    LET untagged == VersionsOf(shown) \ {shown.tags[t] : t \in DOMAIN shown.tags \ {"latest"}}
        timed == untagged \cap DOMAIN offered.time
    IN  /\ \A t \in DOMAIN offered.tags :
              offered.tags[t] \in VersionsOf(shown)
                  => t \in DOMAIN shown.tags /\ shown.tags[t] = offered.tags[t]
        /\ \A t \in DOMAIN shown.tags :
              /\ shown.tags[t] \in VersionsOf(shown)
              /\ t = "latest" \/ t \in DOMAIN offered.tags
        /\ timed # {} => "latest" \in DOMAIN shown.tags
        /\ "latest" \in DOMAIN shown.tags =>
              LET l == shown.tags["latest"]
              IN  \/ "latest" \in DOMAIN offered.tags /\ offered.tags["latest"] = l
                  \/ \A v \in timed : \/ v \in Prerelease /\ l \notin Prerelease
                                      \/ (v \in Prerelease <=> l \in Prerelease)
                                         /\ offered.time[v] <= offered.time[l]
        /\ DOMAIN shown.time = DOMAIN offered.time \cap VersionsOf(shown)
        /\ \A v \in DOMAIN shown.time :
              shown.created <= shown.time[v] /\ shown.time[v] <= shown.modified
        /\ offered.files \cap ValuesOf(shown.content) \subseteq shown.files
        /\ shown.files \subseteq ValuesOf(shown.content)

\* What a client sees of a package is what the rules allow, whichever ranges,
\* patterns, exceptions and dates meet, and, where anything was filtered, is a
\* manifest that hangs together.
\* (Where the plugin throws, the manifest is shown as it is.)
ShownIsAllowed ==
    outcome = "filtered" =>
        /\ \A v \in VersionsOf(shown) : ContentIsAllowed(v)
        /\ NothingElseGoes /\ (shown # offered => CleanupIsRight)
=============================================================================
