---------------------------- MODULE SearchPages ----------------------------
(***************************************************************************)
(* One search, npm's v1: the route of packages/api/src/v1/search.ts,       *)
(* searchPages of packages/store/src/storage.ts and of packages/search/    *)
(* src/search-pages.ts.  The uplinks are asked one page each per round, in *)
(* the order of the configuration; after a round all that was found is     *)
(* merged, ranked and checked for access from the start, until the page    *)
(* the client asked for is full.                                           *)
(*                                                                         *)
(* A package is its name; versions and scores are naturals.  What an       *)
(* uplink offers does not change while it is read, and has no visibility   *)
(* of its own, as npm's has not.                                           *)
(***************************************************************************)
EXTENDS Integers, Sequences, FiniteSets
LOCAL INSTANCE TLC

CONSTANTS
    Searches,        \* the searches there may be, see below
    NoScore,
    UplinkPage,      \* SEARCH_PAGE_SIZE
    MaxSearches,     \* SEARCH_MAX_REQUESTS
    MaxCandidates,   \* SEARCH_MAX_CANDIDATES
    Batch,           \* CHECK_ACCESS_BATCH_SIZE
    MaxOutages       \* bound on uplinks that do not answer

\* A search has the items of the store, `local`, and the uplinks, `sources`, in
\* the order of the configuration.  An uplink has its `items`, a `cap` of its own
\* on a page, and it may tell a `total` and heed an offset (`from`) or not.  The
\* rules let the user read what is in `allows` and publish `publishes`; the page
\* is `size` items after `from`.
Item(name, version, score, private) ==
    [name |-> name, version |-> version, score |-> score, private |-> private]
Source(items, cap, total, from) ==
    [items |-> items, cap |-> cap, total |-> total, from |-> from]

VARIABLES
    search,      \* the search
    state,       \* of searchPages for each uplink: offset, done, seen
    sent,        \* requests so far
    counted,     \* candidates of the uplinks, then of storage.searchPages
    turnTo,      \* the uplink that is next in this round
    round,       \* items of this round
    merged,      \* items, in the order their names came
    reviewed,    \* of this round's ranking: how many were checked, which passed
    permission,  \* `access` of the route: the names that were checked
    answer,      \* how far the search is, and the page
    outages

searchVars == <<search, state, sent, counted, turnTo, round, merged, reviewed,
                permission, answer, outages>>
asked == <<state, sent, turnTo, round>>

Sources == DOMAIN search.sources
Smaller(m, n) == IF m < n THEN m ELSE n
NotReviewed == [checked |-> 0, passed |-> <<>>]

SearchInit ==
    /\ search \in Searches
    /\ state = [u \in Sources |-> [offset |-> 0, done |-> FALSE, seen |-> {}]]
    /\ sent = 0 /\ counted = [remote |-> 0, all |-> 0]
    /\ turnTo = 1 /\ round = <<>> /\ merged = <<>>
    /\ reviewed = NotReviewed /\ permission = <<{}, {}>>
    /\ answer = [is |-> "new", page |-> <<>>] /\ outages = 0

Becomes(phase) == answer' = [answer EXCEPT !.is = phase]
Returns(page) == answer' = [is |-> "ok", page |-> page]

-----------------------------------------------------------------------------
(* storage.searchPages: what was found, by name *)

\* a newer version has the visibility of the package that is known, and its
\* score if it brings none
Shadow(item, previous) ==
    [item EXCEPT !.private = previous.private,
                 !.score = IF @ = NoScore THEN previous.score ELSE @]

Merge(found, item) ==
    LET same == {i \in DOMAIN found : found[i].name = item.name}
    IN  IF same = {} THEN Append(found, item)
        ELSE [i \in DOMAIN found |->
                 IF i \in same /\ item.version > found[i].version
                 THEN Shadow(item, found[i]) ELSE found[i]]

MergedWith(found, items) ==
    LET f[n \in 0..Len(items)] ==
            IF n = 0 THEN found ELSE Merge(f[n - 1], items[n])
    IN  f[Len(items)]

\* by score, nothing counts as 0; equal scores stay in their order
Rank(item) == IF item.score = NoScore THEN 0 ELSE item.score
Ranked ==
    LET order == SortSeq([i \in DOMAIN merged |-> i],
                         LAMBDA i, j : \/ Rank(merged[i]) > Rank(merged[j])
                                       \/ Rank(merged[i]) = Rank(merged[j]) /\ i < j)
    IN  [i \in DOMAIN order |-> merged[order[i]]]

\* items come to what was found: of the store at first, then of a round
Gather(items, phase) ==
    LET n == counted.all + Len(items)
    IN  IF n > MaxCandidates THEN Becomes("failed") /\ UNCHANGED <<merged, counted>>
        ELSE /\ Becomes(phase)
             /\ merged' = MergedWith(merged, items)
             /\ counted' = [counted EXCEPT !.all = n]

\* a page of no size is empty and nothing is searched
FindLocal ==
    /\ answer.is = "new"
    /\ IF search.size = 0 THEN Returns(<<>>) /\ UNCHANGED <<merged, counted>>
       ELSE Gather(search.local, "asking")
    /\ UNCHANGED <<search, asked, reviewed, permission, outages>>

-----------------------------------------------------------------------------
(* searchPages: the requests of a round *)

Reads(u) == answer.is = "asking" /\ turnTo = u /\ u \in Sources

SkipDone(u) ==
    /\ Reads(u) /\ state[u].done
    /\ turnTo' = u + 1
    /\ UNCHANGED <<search, state, sent, counted, round, merged, reviewed, permission,
                   answer, outages>>

BudgetLeft == sent < MaxSearches /\ counted.remote < MaxCandidates

OutOfBudget(u) ==
    /\ Reads(u) /\ ~state[u].done /\ ~BudgetLeft
    /\ Becomes("failed")
    /\ UNCHANGED <<search, asked, counted, merged, reviewed, permission, outages>>

FaultyLoseUplink(u) ==
    /\ state' = [state EXCEPT ![u].done = TRUE]
    /\ turnTo' = u + 1
    /\ UNCHANGED answer

\* an uplink that has contributed must not look like one that has no more
LoseUplink(u) ==
    IF state[u].offset > 0 THEN Becomes("failed") /\ UNCHANGED <<state, turnTo>>
    ELSE /\ state' = [state EXCEPT ![u].done = TRUE]
         /\ turnTo' = u + 1
         /\ UNCHANGED answer

UplinkFails(u) ==
    /\ Reads(u) /\ ~state[u].done /\ BudgetLeft
    /\ outages < MaxOutages /\ outages' = outages + 1
    /\ sent' = sent + 1
    /\ LoseUplink(u)
    /\ UNCHANGED <<search, counted, round, merged, reviewed, permission>>

PageAt(u) ==
    LET s == search.sources[u]
        first == IF s.from THEN state[u].offset ELSE 0
    IN  SubSeq(s.items, first + 1,
               Smaller(first + Smaller(s.cap, UplinkPage), Len(s.items)))

\* a page that brings nothing new must not be asked for again; only a total
\* that is reached or an empty page ends an uplink
UplinkReturns(u) ==
    /\ Reads(u) /\ ~state[u].done /\ BudgetLeft
    /\ LET page == PageAt(u)
           keys == {<<page[i].name, page[i].version>> : i \in DOMAIN page}
           offset == state[u].offset + Len(page)
           n == counted.remote + Len(page)
       IN  IF n > MaxCandidates \/ (page # <<>> /\ keys \subseteq state[u].seen)
           THEN Becomes("failed") /\ UNCHANGED <<state, counted, turnTo, round>>
           ELSE /\ counted' = [counted EXCEPT !.remote = n]
                /\ round' = round \o page
                /\ state' = [state EXCEPT ![u] =
                      [offset |-> offset, seen |-> @.seen \cup keys,
                       done |-> \/ page = <<>>
                                \/ /\ search.sources[u].total
                                   /\ offset >= Len(search.sources[u].items)]]
                /\ turnTo' = u + 1
                /\ UNCHANGED answer
    /\ sent' = sent + 1
    /\ UNCHANGED <<search, merged, reviewed, permission, outages>>

\* with no uplink there is no round, and the packages of the store are all
RoundEnds ==
    /\ answer.is = "asking" /\ turnTo \notin Sources
    /\ Gather(round, "checking")
    /\ round' = <<>> /\ reviewed' = NotReviewed
    /\ UNCHANGED <<search, state, sent, turnTo, permission, outages>>

-----------------------------------------------------------------------------
(* The route *)

Requested == search.from + search.size

\* checkAccess: the rules that deny do so by an error with a status of 4xx, which
\* drops the item before its collaborators are looked at; what is private is
\* listed for those who may publish it
CheckAccess(item) ==
    /\ item.name \in search.allows
    /\ item.private => item.name \in search.publishes

\* a name is checked once in a search
Granted(item) ==
    \/ item.name \in permission[1]
    \/ item.name \notin permission[2] /\ CheckAccess(item)

Full == Len(reviewed.passed) >= Requested

CheckBatch ==
    /\ answer.is = "checking"
    /\ reviewed.checked < Len(merged) /\ ~Full
    /\ LET last == Smaller(reviewed.checked + Batch, Len(merged))
           batch == SubSeq(Ranked, reviewed.checked + 1, last)
           pass == SelectSeq(batch, Granted)
           NamesOf(items) == {items[i].name : i \in DOMAIN items}
       IN  /\ reviewed' = [checked |-> last, passed |-> reviewed.passed \o pass]
           /\ permission' = <<permission[1] \cup NamesOf(pass),
                              permission[2] \cup (NamesOf(batch) \ NamesOf(pass))>>
    /\ UNCHANGED <<search, asked, counted, merged, answer, outages>>

\* the page is full, or there is nothing left to ask for, or one more round
RoundChecked ==
    /\ answer.is = "checking"
    /\ reviewed.checked = Len(merged) \/ Full
    /\ IF Full \/ \A u \in Sources : state[u].done
       THEN /\ Returns(SubSeq(reviewed.passed, search.from + 1,
                              Smaller(Requested, Len(reviewed.passed))))
            /\ UNCHANGED turnTo
       ELSE Becomes("asking") /\ turnTo' = 1
    /\ UNCHANGED <<search, state, sent, counted, round, merged, reviewed, permission,
                   outages>>

\* the store or a plugin fails, a page breaks off, the client has gone, or it
\* took too long
SearchFails ==
    /\ answer.is \in {"new", "asking", "checking"}
    /\ Becomes("failed")
    /\ UNCHANGED <<search, asked, counted, merged, reviewed, permission, outages>>

SearchNext ==
    \/ FindLocal \/ RoundEnds \/ CheckBatch \/ RoundChecked \/ SearchFails
    \/ \E u \in Sources :
          SkipDone(u) \/ OutOfBudget(u) \/ UplinkFails(u) \/ UplinkReturns(u)

SearchSpec == SearchInit /\ [][SearchNext]_searchVars

-----------------------------------------------------------------------------
\* What there is to find: the packages of the store, and all those of the
\* uplinks that have contributed.
ToFind ==
    LET NamesOf(items) == {items[i].name : i \in DOMAIN items}
    IN  UNION ({NamesOf(search.local)} \cup
               {NamesOf(search.sources[u].items) :
                    u \in {w \in Sources : state[w].offset > 0}})

\* A package that is private here stays so when an uplink has its name.
Listable(name) ==
    /\ name \in search.allows
    /\ (\E i \in DOMAIN search.local :
          search.local[i].name = name /\ search.local[i].private)
         => name \in search.publishes

\* A page that is answered has each package once, none that the user may not
\* see, in the order of the scores, which a package of the store keeps when an
\* uplink has a newer one of that name; and it is full unless there is no more to
\* find in any source that has contributed: a source that broke off, or that
\* answers one page again and again, ends in an error and never in a page that
\* is cut short.
PageIsWhole ==
    answer.is = "ok" =>
        LET page == answer.page
            names == {page[i].name : i \in DOMAIN page}
            left == Cardinality({n \in ToFind : Listable(n)}) - search.from
        IN  /\ Cardinality(names) = Len(page)
            /\ \A n \in names : Listable(n)
            /\ \A i, j \in DOMAIN page : i < j => Rank(page[i]) >= Rank(page[j])
            /\ \A i \in DOMAIN page, j \in DOMAIN search.local :
                  page[i].name = search.local[j].name /\ page[i].score = NoScore
                    => search.local[j].score = NoScore
            /\ Len(page) = IF left <= 0 THEN 0 ELSE Smaller(left, search.size)
=============================================================================
