# Verdaccio: a TLA+ model

TLA+ modules, TLC runs and TLAPS proofs about this fork of Verdaccio, an npm
registry in TypeScript (`packages/`). Every definition is written from the
source, and `PROJECT.json` gives for each the lines it stands for.

Abbreviations: `storage.ts`, `stage-storage.ts` and `lib/retention.ts` are in
`packages/store/src/`, `local-fs.ts` and `local-database.ts` in
`packages/plugins/local-storage/src/`, `auth.ts` and `tfa-store.ts` in
`packages/auth/src/`, `proxy.ts` in `packages/proxy/src/`, `htpasswd.ts` in
`packages/plugins/htpasswd/src/`, `login.ts` in `packages/api/src/v1/`.

## The system

| Part | State it keeps | Operations | Why it is hard |
| --- | --- | --- | --- |
| `Storage` (`storage.ts`) | nothing of its own but a sweep flag and a size cache; every request is a chain of awaits over the storage plugin | publish with rollback and quota, unpublish by revision, deprecate, remove a tarball or a package, dist-tags, owners and visibility, read with upstream merge, retention sweep | requests interleave at every await; the check of a request is made on a manifest another request may replace; each of several writes may fail, and the process may die between them |
| local storage plugin, package handler (`local-fs.ts`, `core/file-locking`) | `package.json`, its lock file, the package folder, tarballs, temporary files | create, update under the lock, write by rename, write, read and delete tarballs, remove | the lock covers the read and the handler, not the write; a rename that fails is swallowed; stale locks are broken after five minutes |
| local storage plugin, database (`local-database.ts`) | list of private packages and secret, tokens, download counters | add, remove, get; save, delete, read tokens; record, flush, read, delete counters | the list is written in place; databases are read at their first use; snapshots wait in a writer |
| staged publishing (`stage-storage.ts`, `api/src/stage.ts`) | an index and a folder per staged item | stage, list, approve, reject | index mutations are chained in one process; tarball, document and index are three writes; approvals overlap |
| retention (`lib/retention.ts`, `storage.ts`) | the in-flight flag, the cached size of the storage | sweep from the boot timer, the interval and the admin endpoint; the quota of a publish | rules over times and tags; cap over packages; failures half-way; a measurement that is a minute old |
| upstream metadata (`storage.ts`, `lib/storage-utils.ts`) | cached manifests | merge, cache, refuse a publish that exists upstream | writes the cache without the lock, from a copy read before the uplink answered |
| uplink proxy (`proxy.ts`) | count of failures and last request of each uplink | metadata, tarball, search; circuit breaker, retries | the breaker is shared by requests that overlap |
| authentication and authorization (`auth.ts`, `middleware`) | cache of bearer tokens, waiters | log in, ask the plugins for a right, look a generated token up | a cached answer outlives what it was about; waiters depend on another request |
| two-factor store (`tfa-store.ts`, `api/src/require-otp.ts`) | a record per user in the token database; queues in memory | verify, begin, complete, disable, reset | codes and failures are counted by read-modify-write; each endpoint has its own queues |
| htpasswd plugin and setup link (`htpasswd.ts`, `web/src/api/setup.ts`) | user file and its cache, `.admins`, lock file, setup token | register, first administrator, change and reset a password, delete, grant, log in | the file is rewritten in place under a lock and read without it; without a file there is no lock |
| login sessions (`login.ts`, OIDC plugin) | a row per session, or sessions, states and confirmations in memory | open, poll, complete by password or provider | a token must be picked up once |
| package filter plugin (`plugins/package-filter`, `filter-pipeline.ts`) | its parsed rules | cut or replace versions of a manifest on its way to a client, repair its tags, times and files | rules, exceptions, ranges and dates meet in one package; a filter that throws is skipped |
| search (`api/src/v1/search.ts`, `storage.ts`, `search/src/search-pages.ts`) | nothing beyond one request | page the store and the uplinks, merge, rank, check access | uplinks page in their own way, break off and repeat; the page that is answered must not be cut short |
| trusted publishing (`api/src/v1/oidc-exchange.ts`) | a row of the token database per exchange | exchange the identity token of a CI job for a token of the registry, publish with it | entries of one issuer are tried in turn; scope and second factor are decided in other places than the exchange |
| tarball route (`api/src/package.ts`, `storage.ts`, `local-fs.ts`) | the file under its name, a temporary file per download | stream from the store or an uplink, keep a copy | clients leave, bodies break, writes fail, at any moment of a stream that also fills the store |
| API, web, middleware, server, command line, configuration, hooks, audit, UI | request-local or read-only | routing, parsing, formatting, notification | little state; see *What is not modelled* |

How they meet: the API and web routes authenticate a request (bearer cache,
plugins, the token's row, a second factor), ask the plugins for a right, and
call `Storage`; `Storage` asks the plugin for one handler per package and calls
it; the handler works on files, which are the only state two requests of a
package share; staged publishing uses the same plugin for its own folders and
`Storage.updateManifest` for an approval; the retention sweep is another caller
of `Storage.updatePackage`; two-factor records, access tokens and login sessions
are rows of one token database.

What makes each part correct:

* *package store*: an acknowledged version stays until a request removes it; a
  version that is served has its tarball and its digest; tags name versions
  that exist; a failed publish leaves no trace; a removed package is gone;
  every request is answered; a quota holds; only who may change a package
  changes it.
* *tarballs and filters*: a tarball is whole in the store and for the client, or
  not there; what the filter shows is what its rules allow, and hangs together.
* *lock protocol*: handlers of one package exclude each other; the lock is
  given back.
* *list, tokens, counters*: what was answered survives a restart; what was
  deleted stays away; downloads are counted once; an unreadable list is never
  written over.
* *staged publishing*: a staged version stays until it is reviewed, is staged
  once, can be read when it is listed; nothing stays behind; an approved
  version is published before its copy is dropped.
* *upstream metadata*: the cached manifest stays one that resolves whichever
  copies are mixed; a stored etag stands for versions that were merged; a
  cached version and its tarball come from one uplink; a publish during a fetch
  survives it. The breaker opens only for a request that earned it.
* *retention*: targets of tags stay; a package keeps a version; manifest and
  tarballs agree; the cap, exclusions and dry runs hold; a sweep ends.
* *search*: a page that is answered has each package once, in order, none that
  may not be seen, and is full unless there is no more.
* *trusted publishing*: a job publishes only the package it asked for, as the
  user of an entry that vouches for it, and not after the token was revoked.
* *authentication*: a code is used once and refusals are counted; a revoked
  token stays out; a cached answer is never older than its time; accounts stay
  and the first administrator is the first account; a session's token that was
  handed out is not there for a later poll; a delegated right is decided as
  publish is; waiters are answered.

## The modules

| Module | Models | Checked by | Proved in |
| --- | --- | --- | --- |
| `PackageStore` | every write request of one package, with files, lock and package list | `MCPackageStore` | `PackageStoreProofs`, `SerialStoreProofs` |
| `Registry` | what the store promises clients that come one after the other: the abstract specification `PackageStore` implements | `MCPackageStore` | `SerialStoreProofs` |
| `StageStorage` | staging, approval, rejection of versions of one package | `MCStageStorage` | `StageStorageProofs` |
| `RetentionSweep` | the sweep over the packages of the registry | `MCRetentionSweep` | `RetentionSweepProofs` |
| `UplinkSync` | the cached metadata of one package beside its publishes and unpublishes | `MCUplinkSync` | `UplinkSyncProofs` |
| `TokenDatabase` | the rows of the token database, in memory and in their file | `MCServices` | `LocalStorageProofs` |
| `DurableRows` | what such a table promises: the abstract specification `TokenDatabase` implements | `MCServices` | `LocalStorageProofs` |
| `DownloadStats` | the download counters | `MCServices` | `LocalStorageProofs` |
| `PackageList` | the list of private packages and its file | `MCServices` | `LocalStorageProofs` |
| `TwoFactor` | the second factor of one user | `MCServices` | `TwoFactorProofs` |
| `Htpasswd` | the user file, administrators and the setup link | `MCServices` | `ServicesProofs` |
| `AccessTokens` | bearer tokens of one user, cache and rows | `MCServices` | `ServicesProofs` |
| `LoginSession` | one session of `npm login` | `MCServices`, `LoginSession` | `ServicesProofs` |
| `AuthChain` | a right, asked of the plugins in turn | `MCServices` | `ServicesProofs` |
| `UplinkProxy` | the circuit breaker of one uplink | `MCServices` | `ServicesProofs` |
| `StorageQuota` | `max_storage_mb` and the cached measurement | `MCServices` | `ServicesProofs` |
| `TarballDownload` | downloads of one tarball, from the store or an uplink | `MCServices` | `ServicesProofs` |
| `PackageAccess` | who may change a package, and the changes of that | `MCServices` | `ServicesProofs` |
| `PackageFilter` | the package filter plugin on one manifest | `MCServices` | `ServicesProofs` |
| `SearchPages` | one search over the store and the uplinks | `MCServices` | |
| `TrustedPublishing` | CI jobs that exchange their identity token and publish | `MCServices`, `MCTrustedPublishing` | `ServicesProofs` |

The MC modules only hold the sets of operations, settings and symmetries of
the instances. Operators named `Faulty...` are wrong variants of the operator
they stand before, each a plausible mistake in that code; no action uses them.
`PROJECT.json` names, for every property of every passing run, one of them
that breaks it.

`MCServices` puts the fifteen smaller modules side by side. They share no variable:
where two of them meet in the code (rows of the token database), the one uses
the other's call as one step, which `TokenDatabase` justifies by implementing
`DurableRows`. A behaviour of all fifteen is therefore an interleaving of one
behaviour of each, an invariant of one is decided by its own steps, and the run
lets one service (`active`) move while the others rest in one initial state
instead of multiplying their states. Their names are distinct so that one
module can extend them all.

### PackageStore

A *request* runs one `Storage` method. `ph` is the handler it is in, `st` its
position in the update protocol

    stat -> lock -> read + handler -> unlock -> write

of `LocalFS.updatePackage` and `Storage.updatePackage`: five steps, because the
code awaits between them. An unpublish, a
deprecation and its withdrawal are one kind of body, a manifest the client read
and edited (`ClientReads`, `ClientBody`); `FirstPhase` sends it where
`updateManifest` does: to `deprecate` when a version in it has the field
`deprecated` (`IsDeprecatedManifest`), which an unpublish carries along for the
versions that stay, and to the comparison of the revision otherwise. `deprecate`
compares none: both run `changePackage` (`Changed`), which takes out every stored
version the body lacks and sets the marks. The other steps are the single file
operations:
`CreateOpen`, `CreateFolder`, `CreateWrite` (first publish), `Scan`,
`WriteTarball`, `RenameTarball` (in a `close` handler that nobody awaits),
`Undo...` (the rollback of a publish), `Unlist`, `Unlink...`, `RemoveFolder`
(removal), `SweepRead`, `UnlinkPruned` (the sweep as a writer). A version's
tarball has its canonical name, so files are indexed by version. A tarball's
content, its shasum and its integrity are one value, a `Blob`: what the
properties compare is whether a digest describes the bytes that are stored.

`Serialised = TRUE` lets a request start only when no other runs. It is used
to show what the code guarantees when requests do not overlap, and the
violation runs show which of those guarantees need that.

Faults. A write that throws (`error`), a rename that fails and is swallowed
(`lost`), a scan that refuses (`reject`), a `waitForTarball` that gives up
(`timeout`) and a crash of the process (`crash`) at any await. A crash ends the
requests in flight without an answer; files stay, among them lock files and the
temporary files of writes that were not renamed yet, and no start of the
process looks for either. The list of packages is read again: it differs from
the one in memory only if a write of it failed before. A crash also stands for
the unhandled rejection at `storage.ts:2219`, which ends the process.

Bounds and assumptions. `Request`, `Version`, `Blob`, `Tag` are small sets;
`MaxFaults` bounds the faults. A lock is taken to be stale only when its owner
left it behind (no handler holds it for the five minutes of the code).
`check_owners` is off, so that every requester may change the package.
`Prunable` chooses any set of versions the retention rules protect from
nothing; the rules themselves are in `RetentionSweep`, the quota that a publish
passes first in `StorageQuota`.

### Registry

The package as a client sees it, without phases, locks, snapshots and files:
whether it is there (`there`), its versions, tags and deprecation marks
(`page`), the page each client edited (`body`), where each request is (`stage`)
and the number of faults. A request takes effect in one action (`Publish`,
`Change`, `Retag`, `Prune`, `Remove`), or is refused for one of its `Grounds`,
or after a fault, and changes nothing. `Change` makes of the page what an edited
body says; a body without a deprecated version needs the page it was made of,
any other overwrites what is there, and takes away the versions it lacks. A
removal and a sweep take effect before they are answered (`applied`, then
`Confirm`). `Tidy` says once what the handlers, the tag repairs, the rollback
and the normalisation at each write add up to. Three actions say what a fault
may leave: a `Crash` during a publish any part of it, a rollback whose write
fails such a part too (`LeavePart`), a removal after a fault its folder
(`LeaveFolder`).

`ServesAtOnce` of `PackageStore` is the refinement. The mapping is not the file:
while a publish is served, `ShownPage` is the page it found when it read the
manifest, however much of it is stored, and the publish happens when it is
answered; otherwise it is the file. A rollback that puts the file back therefore
shows as nothing at all, and one that does not would show as a refusal that
changed the page. `ShownStage` is read off `ph` and `out`. `Edit` is the one
action that looks behind the mapping: a client that reads meanwhile may get the
page or a part of the publish (`Glimpses`), since reads take no lock.

### StageStorage

`index` is `.stage/package.json`; `doc`, `tgz`, `tmp`, `folder` are the files of
each item; `queue` is the promise chain `indexQueue`: its head is the mutation
that is running, and an action of a mutation is enabled only for the head. An
item's id is the request that staged it. The faults are a write that throws, a
rename that fails and is swallowed (`lost`), a rename of the tarball that comes
after `waitForTarball` gave up (`timeout`), and a crash, which clears what is in
memory and leaves what is on disk. Approval publishes with
`Storage.updateManifest`; here that is its check, `addVersion`, and the upload
with the rollback, on a package that exists.

### RetentionSweep

`computePrunableVersions` is written as it is: the order by time with versions
that have none at the end, the removable versions, those that are too old, and
those in excess. A run reads a package, makes its plan, and for each removal
updates the manifest and then deletes the tarball; any of these may fail,
which ends the work on the package. Versions are numbered in semver order,
which is taken to be the order of the keys of the manifest (it only decides
between equal times). The writers a sweep competes with are in `PackageStore`.

### UplinkSync

A *request* reads the packument, publishes a version or unpublishes one. A read
goes

    local -> uplink (the next one while they fail) -> reread -> cache

with an await at every arrow: `ReadLocal` (`getPackage`), one of `UplinkFresh`,
`UplinkAnswers`, `UplinkFails` (`mergeCacheRemoteMetadata`), `Reread`
(`updateVersionsNext`, which reads the file again and merges the copy into it)
and `WriteCache` (its `writePackage`, without the lock). A publish on a registry
with `allow_offline: false` takes the same path with no local copy
(`checkPackageRemote`), which stores what it finds and then refuses the publish.
`HasPackage` to `Save` are the publish itself, `CheckRev` to `Save` the unpublish,
reduced to their reads and writes of `package.json`: locks, faults, tarballs and
further updates are those of `PackageStore`.

A manifest says of each version who published it (`versions`) and whose tarball
its record in `_distfiles` names (`dist`). The etag of an uplink's answer is the
number of the revision that was answered; an uplink adds versions, moves its
`latest` and deprecates, and never takes a version away. The clock is not
modelled: an uplink that was asked before may be fresh or not. A failure covers
errors, timeouts, 404, 304 and an open circuit breaker. `gone` and `acked` are
history: the versions an unpublish took out, and those published while no other
request was about to write. Of the tags only `latest` is modelled.

### TokenDatabase and DurableRows

`tokenDb` says whether `getTokenDb` has made the database and read its file;
`mem` is `tokenDb.data`, `file` is `.token-db.json`. A call of `saveToken`,
`deleteToken` or `readTokens` goes from `GetTokenDb` over its change of memory
to the writing of the whole file. The first call makes the database, empty, and
reads the file into it (`ReadTokenFile`, `LoadTokens`); calls that come meanwhile
work on the empty one, and a reading that throws (`LoadFails`) leaves it to all
that follow, whose next save writes it over the file. lowdb's writer (external)
replaces the file by a rename, writes one snapshot at a time (`writing`) and keeps
only the newest of those that wait (`waiting`). Rows remember the call that saved
them (history). A failing read, a failing write and a restart may come at any
await. `exposed` is history: the calls whose rows an empty database can cost,
which are the saves made before a reading that throws, and those around a change
that comes while the file is read. The promise is made to all the others, and
that nothing else joins them is what `TokensAreKept` says.

`DurableRows` has the rows a reader sees, the snapshot on its way to the file, the
rows a crash leaves, and whether a change came before the file was read (`kept`).
It has a step for each of the two ways to lose rows, and no other: the file cannot
be read and the table starts empty (`Forget`), or a row is saved before the file
is read (`Overtake`), after which, until the next start, the file only gets what was
on its way (`Reload`). `KeepsRows` is its specification under the mapping
`Durable`: memory once the file was read or a change came before, and the file
until then; the snapshot lowdb writes; the file.

### DownloadStats

`pending` is `pendingDownloads`, `timer` the flush timer, `stats` and
`statsFile` the database in memory and on disk. A visit is one call that comes
to the database: a flush by the timer, a read (which flushes first) or a
deletion; it awaits `getStatsDb` and the writing. Days are one counter.

### PackageList

`list` is `this.data.list`, `listFile` the file, `locked` the flag of a list
that could not be read. `OpenFile` takes the JSON and truncates the file,
`WriteFile` ends the writing: a crash between them leaves a file that does not
parse, and a start on it fails. `SyncFails` is a folder, an opening or a writing
that fails: the call rejects and memory keeps the change. History (`mixed`,
`clean`) follows writings that overlap, since two writers of one file in place
may leave either list or a mixture, and writings that fail, since memory is then
ahead of the file and an addition that is tried again (`Add` of a name that is
in the list) is answered without writing. `ListIsKept` asks for the file of the
list once no update is under way, unless the last writing failed or was mixed:
the next one that succeeds also writes what a failed one left.

### TwoFactor

The record of one user (`rows`), the clock in TOTP periods, and requests that
need a code in one mode or both, ask for one themselves (a publish to a package
that requires it), log in, enrol, confirm, disable or reset. `store` is the
`TfaStore` a request uses: the registry API, the web login, the admin endpoint
and the profile endpoint each make their own, with queues of their own over the
same row. `tail` is a store's entry in `userQueues`, `after` the mutation one
waits for; `save` is two calls of the token database, a deletion and an
insertion, with an await between them. `StoresOverlap = FALSE` lets mutations of
different stores not overlap. `spent` and `misses` are history: the code that let
a request in, and the refusals since the last success or lockout.

### Htpasswd

A mutation takes the lock file, reads and parses, edits, truncates the file and
writes it; `text` is what it read, `place` where it is. A login reads without the
lock and keeps `users`. Without a user file `lockAndRead` finds nothing to lock
and the request goes on (`bare`). The setup link is a token in a file: it
registers an account past a closed registration and makes it an administrator.
Faults: a write that throws, a kill within a writing (`torn`), locks that the
dead leave and others break. `settled` is history: the accounts after all the
writings that ended.

### AccessTokens, LoginSession, AuthChain

`AccessTokens` follows a request with a bearer token through
`apiJWTmiddleware`: cache, waiters of an authentication in flight, plugin,
`enforceGeneratedTokenMetadata` (the row of a generated token, readonly), and the
handlers that create and revoke tokens or change the password. `legacy` chooses
encrypted tokens (which hold the password) or signed ones.

`LoginSession` has both implementations of a session, the rows of the registry
(`login.ts`) and the maps of the OIDC plugin, with polls that overlap, logins by
password and by provider, the sign-up of the web, and expiry at any moment. A poll
reads the rows (`ReadSession`), and deletes and answers after an await
(`DropSession`). That two of them get one token is the finding of `double_poll`;
what holds all the same is `HandedIsSpent`: a token that was answered is in no row
that a later poll reads, whatever logs in or completes the session meanwhile.

`AuthChain` asks the plugins one after the other, each of which may have no such
method, fail, agree, refuse or say nothing, then the built-in one; unpublish and
stage start anew as publish when nobody has an opinion.

### UplinkProxy, StorageQuota

`UplinkProxy`: `AskUplink` reads the breaker, `SendRequest` stamps
`last_request_time`, an attempt is answered, refused for good, or fails and is
tried again, which writes this request's own retry number over the shared
count.

`StorageQuota`: a publish uses the cached measurement while it is valid or walks
through the storage (what comes and goes meanwhile may be counted or not), is
accepted or refused, stores its tarball, and drops the cache at its end. Three
things change the storage without asking the quota or dropping the measurement:
reads that cache a tarball (`CacheTarball`), the staging of a version, whose
tarball lies in the measured tree until it is reviewed (`StageTarball`), and
removals (`RemoveTarball`).

### TarballDownload

A client's request goes from the local file (`OpenLocal`, whose descriptor
survives a removal) to the uplink, whose body streams at once to the client and,
if the uplink's `cache` is on, into a temporary file. `client` is what the
client sees, `writer` where its `writeTarball` is, `failed` the flag that keeps
the file from its final name. A body breaks, ends short, or is cut by a client
that leaves before, while or after the temporary file is open; creating the
folder, opening, writing and renaming may fail; the process may die; the tarball
may be removed. `framing` says how an uplink ends a body. A file is the number
of its chunks; backpressure only orders them. A stream is closed and its
temporary file removed in one step.

### PackageAccess

A request passes `allowWithCollaborators`, `requirePackagePublishOtp` and the
check of the `Storage` method, each on the manifest of that moment, and then
updates the manifest of the moment of the update, which is one step here
(`PackageStore` has the steps, and the lost update). Its kinds are a view of a
package that may be private, a star, a list of owners, a collaborator, the
visibility and the second factor of the package; `npm` sends one of them at a
time, and so does the model, although a body may carry stars and owners
together. `held` is history: what was true of the request at some time since it
came; `starred` are the requests that passed the check of the stars before
another one changed them.

### PackageFilter

`FilterMetadata` is `filter_metadata`: rules as `parseConfig` merges them, the
match of scope before package and of the name before patterns, exceptions, then
the block rules (`block` or `replace`), deprecation, the date, and the cleanup of
`dist-tags`, `time` and `_distfiles`. The content under a version is named by the
version it was published as, which makes a replacement visible. A manifest
without a `time` field is left out; one without a time of some version is not.
The plugin documents no order among rules that match one package, so the
property only asks for what any order gives. Where the filters change nothing, the
manifest is served as it came and the cleanup does not run; what is asked of tags,
times and tarball records is therefore asked of a manifest that was filtered.

### SearchPages

One search from its parameters to its page. `FindLocal` and `Gather` are
`append` of `Storage.searchPages` on the packages of the store and on a round;
`SkipDone` to `UplinkReturns` are the turns of the uplinks in a round of
`search-pages.ts`, each with its `state` (offset, done, keys seen) and the limits
on requests and candidates; `CheckBatch` and `RoundChecked` are the route, which
after every round starts again from the top of the ranking and remembers whom it
has checked. `CheckAccess` is what the route's check comes to: the chain of plugins
ends in the built-in one, which denies with 401 or 403, and the route drops the
item on any such error, so the collaborators it means to let through are never
looked at. A name is a package and may come from the store and several uplinks
in different versions. `SearchFails` stands for everything that ends the search
from outside: the client leaves, 30 seconds pass, the store or a plugin throws.
A source that fails before it has told anything is left out, as in the code, and
`PageIsWhole` speaks of those that have contributed.

### TrustedPublishing

A job has an identity token (issuer, signer, audience, claims), asks for one
package and then publishes one, perhaps another. `TryEntry` is one turn of the
loop over the candidates; keys of an issuer that cannot be fetched leave the turn
to the next entry. `Sign` and `SaveKey` are the end of the exchange. A publish
passes `Enforce` (the row, which gives the scope), `CanPublish`, `UserOtp`
(`requireOtp`) and `PublishOtp` (`requirePackagePublishOtp`); `Revoke` deletes
the row at any moment. Repository, workflow and environment are one set of
claims; patterns of packages are sets of names.

## The runs

Passing runs:

| Run | Instance | Shows |
| --- | --- | --- |
| `serial` | 3 requests, one after the other, each any operation on 2 versions, both stored or none, or the publish of a third; 1 fault (`error`, `reject`, `crash`) | `AckedStays`, `ServedIsInstallable`, `TagsResolve`, `RemovedIsGone`: publish, rollback, unpublish, tags and removal do what they promise in every order, and after a restart; `ServesAtOnce`: the store implements `Registry`, so a failed publish leaves what it found, an unpublish from a manifest that was changed since is refused, and one that `deprecate` takes, because its body has a deprecated version, does what its body says and no more |
| `overlapping` | 2 requests of any kind on 2 versions, both stored or none, interleaved, 1 fault of any kind, fair | `HandlerMutex`, `FolderHoldsFiles`, `EmptyOnlyWhileCreating`: what holds whatever overlaps; `EveryRequestAnswered` |
| `staging` | 3 requests, 2 versions, 1 fault (`error`, `timeout`, `crash`), fair | `StagedStays`, `IndexIsSound`, `NothingLeftBehind`; `EveryRequestAnswered`: a mutation that throws does not break the chain |
| `retention` | every manifest of up to 3 versions, 2 tags, 3 times, limits 0 to 2; and 3 packages, one excluded, cap 1; 2 runs, dry and not, 1 failure, fair | `TargetsStay`, `TagsResolve`, `ListedHasTarball`, `LimitsHold`; `SweepEnds` |
| `uplink_sync` | 3 requests of any kind, 2 versions, 2 uplinks with up to 2 and 1 revisions | `LatestResolves`, `EtagMeansMerged`, `SameSource`, `PublishSurvivesFetch` |
| `services` | one of fifteen services, 1 to 4 requests of it, fair | see below |

What `services` shows of each module:

| Module | Instance | Properties |
| --- | --- | --- |
| `TokenDatabase` | 3 calls of one row, overlapping first calls, 1 failing read, 1 failing write, 1 restart | `TokensAreKept`; `KeepsRows` |
| `DownloadStats` | 3 visits and up to 3 downloads of one package, 1 restart | `DownloadsAreKept`: none is lost, counted twice or left out of a read |
| `PackageList` | 3 updates of 2 names, 1 failing writing, 1 crash | `ListIsKept` |
| `TwoFactor` | 3 requests, 3 periods, 2 secrets, 1 recovery code, lockout after 2, 1 restart | `CodeSpentOnce`, `FailuresAreCounted` |
| `Htpasswd` | 3 requests on no file, an empty one or one account; 2 links, 1 failing write, 1 kill | `AccountsAreKept`, of which the last part is that the link makes an administrator only of the first account |
| `AccessTokens` | 3 requests with one generated token and one of a login, 2 passwords, a cache of one entry | `BearerIsCurrent` |
| `LoginSession` | 4 requests to one session | `HandedIsSpent` |
| `AuthChain` | 2 questions, no plugin or one of 6, every configuration | `FallbackIsPublish` |
| `UplinkProxy` | 3 requests, 2 retries, `max_fails` 2, 1 tick | `OfflineIsEarned` |
| `StorageQuota` | 3 publishes of size 1, quota 2, 2 ticks, 1 staging, cached tarball or removal | `QuotaIsKept` |
| `TarballDownload` | 2 clients, 2 chunks, with and without `cache`, 1 disk error, 1 removal, 1 end of the process | `TarballIsWhole` |
| `PackageAccess` | 3 requests of 2 people, the owner and another who may hold a role; the first hands the package over or stars it; `check_owners` on or off, a second factor asked or not | `AccessIsEarned` |
| `PackageFilter` | 4 manifests of 3 versions, one a prerelease; up to 2 of 11 block rules, 4 lists of exceptions, with and without a date and deprecation | `ShownIsAllowed` |
| `SearchPages` | a store with and without a package, up to 2 uplinks of 2 and 3 items with caps of 1 or 2, with and without a total and an offset; pages of 0 to 2 from 0 to 2; 4 requests, 5 candidates, 1 outage | `PageIsWhole` |
| `TrustedPublishing` | 2 jobs of 7 kinds; 2 entries in either order, without an audience, malformed or of another issuer; 1 key error, 1 failing row | `TrustIsEarned` |
| `TwoFactor`, `AccessTokens` | as above, fair | `EveryoneIsAnswered` |

Runs that find a disagreement between the code and what a comment of the code
says of it (`PROJECT.json`, *findings*, quotes the comment):

| Run | Property | What happens |
| --- | --- | --- |
| `leaked_lock` | `LockReleased` | a read that fails after the lock was taken leaves the lock |
| `mixed_publish` | `IntegrityDescribesBytes` | two publishes of one version: digest of one, bytes of the other |
| `double_approval` | `DroppedOncePublished` | of two approvals, the failing one rolls the other's version back; the staged copy is gone |
| `ci_otp` | `CiNeedsNoOtp` | the mark that exempts a CI token from one-time passwords is not signed into the token: the job is asked for a code |
| `double_poll` | `TokenHandedOnce` | two polls of one login session read its token before either deletes it, and both answer it |
| `stale_deprecation` | `DeprecationRefreshed` | what an uplink deprecates after a version was cached is dropped between the two merges |

Why the bounds are enough. A mixed publish or a double approval takes two
requests and one to set the scene; a rollback takes one fault; a choice of the
retention rules is decided by a version, its rival and the newest or tagged one,
so three versions and two tags meet every combination of the rules. A stale copy
of the cached manifest takes a read, a request that overtakes it and one that
set the scene, and a second revision is needed for an etag to be behind:
`uplink_sync` has three requests and two revisions. `allow_offline` is false
there, which is the longer path of a publish; the proofs cover both. The states
of three concurrent requests of `PackageStore` are too many for a run of a few
minutes; the serial run has three (1.6 million states), the overlapping one two
(0.6 million), and its invariants are proved for any number. In `services` a
snapshot of the token database can wait behind one that is written only with
three calls, and the same three show a row lost with a reading; a code is used
twice by two requests while a third changes the record; a setup link meets a
registration and a later change; a bearer's waiter needs a leader and someone
who revokes; a session is completed twice and polled twice with four requests;
the breaker is tripped by one request, reset by another and asked by a third; a
full storage takes two publishes and the one that must be refused; a download
overlaps another one, a removal and a fault with two clients, and is cut at the
start, the middle and the end with two chunks; a right is taken away between a
check and the change it was for with two requests, and given back with a third;
a version of three is replaced by its neighbour, by one further down or by none;
an uplink that breaks off after it has contributed takes a second round; a token
of one job meets the entry of another with two entries of one issuer. `services`
has 0.9 million states.

`CHECK_DEADLOCK FALSE` in `services`: each service really stops when its
requests were answered, the clock is at its bound and no fault is left. The
other modules have a `Terminated` step for the state in which every request was
served, so deadlock is checked in their runs. Symmetry is used for requests that
are interchangeable, and never in a run that checks liveness; `overlapping` and
`services` instead give the operations to the requests in a fixed order
(`Ahead`, `InOrder`), which leaves one of the assignments that differ only by
names. `staging` and `retention` start from fewer states: one request stages one
version (`SomethingStaged`), which is no restriction up to names; one package
has any manifest under any limits while the others wait for it (`RulesStart`),
or three packages have versions to lose, an excluded one among them, and sweeps
overlap (`RunsStart`).

Fairness. `FairSpec` of a module is weak fairness of each request's (run's)
steps: the event loop goes on with every callback it has. It is not assumed that
a file operation succeeds. In `PackageStore` a request that waits for a lock
gives up after its retries (`UpdateLockFails`), so no fairness of the lock is
needed. In `services` it is weaker still: as long as some request of the service
can move, one does. There are finitely many requests of finitely many steps, so
this is enough, and `EveryoneIsAnswered` can be stated as what happens again and
again: `[]<>` no two-factor request is queued and no caller waits.

## What the code does not keep

Beside the six findings, found while modelling. Some are why a property has a
hypothesis; TLC shows those when the hypothesis is turned off.

* *Lost update.* `updatePackage` unlocks before its caller writes
  (`local-fs.ts:97`): of two overlapping updates, the one that writes first is
  lost. What a request checked before its update is not checked again inside it:
  a publish (the version does not exist), an unpublish (the revision), the sweep
  (the version has no tag). `mixed_publish` shows one consequence.
* *Lost rename.* `renameTmp` (`local-fs.ts:49`) swallows an error: an
  acknowledged write can be undone, and a staged item stay listed after its files
  were dropped. It is a fault of `overlapping`, and of no run or proof whose
  properties it would make meaningless.
* *A stale unpublish that is not refused.* `unPublishAPackage` answers a conflict
  when the manifest changed since the client read it ("a stale revision is a
  conflict, not a silent success", `storage.ts:1798`), but `updateManifest` asks
  first whether any version of the body has the field `deprecated`
  (`storage.ts:1698`, `storage-utils.ts:372`): then the body is a deprecation,
  whose revision nobody compares. An unpublish that leaves a deprecated version
  behind, or a deprecation, made from a manifest that is no longer the stored one
  thus takes out the versions that came since, acknowledged ones included, and
  sets the tags back. `Takes` in `AckedStays`, and `Change` in `Registry`, say just
  that. The `npm` client reads right before it writes; the window is the time
  between.
* *First calls.* The database of the tokens is there before its file is read
  (`local-database.ts:339`): of two first calls of `getTokenDb`, the second works on
  the empty one. What it adds is lost with the read, or what it writes replaces
  the file. `exposed` has these calls. `getStatsDb` has the same shape:
  `FirstVisitsOverlap` is FALSE where `DownloadsAreKept` is checked and proved, and
  with TRUE it fails.
* *A token file that cannot be read.* `await this.tokenDb.read()`
  (`local-database.ts:340`) throws on an I/O error or a file that does not parse;
  the call fails, the next one finds the empty database, and the first save
  replaces every token, session and two-factor record of the file. The counters
  next to it (lines 394-400) catch the same error. `LoadFails` is the step, `Forget`
  what the abstract table says of it.
* *A list that could not be written.* When `_sync` fails, the name stays in memory
  (`local-database.ts:93`): the retry of the addition finds it there, answers
  success and writes nothing (97-99), so that an acknowledged name is only on disk
  once some other update is written. `clean` in `ListIsKept` is FALSE until then.
* *Codes over two endpoints.* Each endpoint makes its own `TfaStore`, and the
  queues that keep verifications of a user apart are in the store
  (`tfa-store.ts:372`): the registry API and the web login can accept one code
  twice, or count two refusals as one. Hence `StoresOverlap = FALSE`.
* *Login sessions.* Beside the finding of `double_poll`: with the default plugin
  the rows are read from memory, so both polls must arrive before the first of
  them goes on; with a plugin whose `readTokens` does I/O the window is as long as
  that. Two completions that overlap leave two rows, and the session is dead.
* *htpasswd.* Without a user file there is no lock: registrations that overlap
  drop each other's account. The file is written in place, so a kill tears it,
  although `htpasswd.ts:193-200` describes a `.htpasswd.tmp` that is moved. The
  flag of an administrator can outlive the account (`htpasswd.ts:294`).
  `changePassword` may call back twice (`auth.ts:159`).
* *Crashes of a publish.* Between `addVersion` and the upload: a version without
  a tarball, which cannot be published again. Between the answer and the rename
  nobody awaits (`local-fs.ts:297`): an answered publish without a tarball.
  Within `createPackage`: an empty `package.json`, on which every later publish
  fails (and leaves a stale lock) and the removal fails too, until someone
  deletes the file. The last one is why `EmptyOnlyWhileCreating` speaks of
  behaviours without a fault.
* *A publish that is seen too early.* A manifest update is visible at once, so
  a reader can get a version whose publish is refused later and taken back
  (`Glimpses` in `Registry`); an unpublish or a deprecation made from that page
  carries it. The first is refused, since the rollback changed the revision,
  unless a deprecated version is in it.
* *A tarball that a refused publish takes away.* An unpublish keeps the tarball
  and its attachment. Publishing the version again with other bytes is refused
  by `addVersion` (`storage.ts:2389`), and the rollback deletes the tarball
  (`storage.ts:2060`) while the attachment stays: a removal of the package then
  fails on the missing file, after the name has left the list
  (`storage.ts:1504-1511`). It takes no fault, and is why a removal is among the
  `Grounds` of `Registry`.
* *A name that stays.* A first publish that fails after `addVersion` removes its
  files and leaves the name in the package list (`storage.ts:2024`), although
  line 2018 wants no "phantom package".
* *Retention.* Tag targets count against `max_versions` (`lib/retention.ts:90`),
  although `configuration.ts:337` says they never do. A version that gets a tag
  between the plan of a sweep and its update is removed (`storage.ts:1171`).
* *Quota.* Publishes that overlap, staged versions and cached tarballs of uplinks
  can exceed `max_storage_mb`: the measurement is dated before its walk and a
  publish that is under way is not in it; staging stores its tarball where the
  measurement looks (`stage-storage.ts:164`), but only a publish asks the quota
  (`storage.ts:1970`) and only a publish drops the measurement. `QuotaIsKept` speaks
  of publishes that nothing of this kind disturbed for the minute a measurement
  lives.
* *Uplinks.* A publish during a fetch keeps its version and loses its entry in
  `time`, and its `latest` where the older copy had one (`storage.ts:2978`,
  `3003`). With `allow_offline: false` a publish goes on when an uplink fails with
  anything but a timeout (`storage.ts:2527` returns before the error below it),
  although line 2524 says "we report failure".
* *Breaker.* The failure of a request's last attempt is not counted, so with
  fewer retries than `max_fails` an uplink never goes offline; tarballs refresh
  `last_request_time` and keep an offline uplink offline.
* *Filter.* With two `replace` ranges on one package a version can be served with
  the content of one that a later range blocks, or with no content at all
  (`packageVersion.ts:125`: the second range has not been applied when the first
  takes its replacement). A second range without `strategy` turns an earlier
  `replace` into `block` (`config/parser.ts:39`). The date is that of the version
  and not of the content it was replaced with. Where every version that is left
  carries another tag there is no `latest` (`manifestUtils.ts:85`). A version
  without a time makes the date filter throw, and the manifest is then served as
  it came, blocked versions included (`filter-pipeline.ts:30`).
* *Downloads.* A body without length and without chunks ends when the connection
  is closed: a cut of it is not seen and stored as the tarball. Hence the
  hypothesis on `Framing`.
* *Stars.* Stars are sent as a whole map, compared with a manifest that may have
  changed when it is written (`storage.ts:1845`): the star another user set in
  between is lost, although line 1803 lets a user change only the own one. Hence
  `starred` in `AccessIsEarned`.
* *Search.* A collaborator of a package that the rules deny is not listed it,
  although `search.ts:59` says that a grant "still lets the user see it, same as
  the package GET route": the denial of the built-in plugin is an error with a
  status of 401 or 403 (`auth/src/utils.ts:189-197`), which line 50 turns into
  "not listed" before line 58 asks for the grant. Pages of one query at
  different offsets are different searches: a later one reads more rounds, whose
  items may rank before those of the earlier page, so that a client who pages
  may see a package twice or never.
* *CI tokens.* Their rows are never deleted when the tokens expire. The finding
  of `ci_otp` means that a package with the policy `automation` is one that no
  job can publish, and the user of an entry must not have two-factor for writes.
* *Rights.* `unpublish: []` and `unpublish: false` count as not configured and
  fall back to publish (`auth.ts:474`).

## The proofs

Checked with TLAPS for every value of the constants that satisfies the
assumptions of the modules (`...Assumption` in each). In `PackageStore`,
`RetentionSweep` and `UplinkSync` versions are naturals and finitely many
(stated as "every nonempty set of versions has a largest"), `latest` is a tag,
`None` is none of the values, the operations and faults are some of those
defined. In the services, operations are some of those defined, bounds and
lifetimes are numbers, limits and cache sizes positive ones. TLC evaluates every
assumption on the instances of the runs.

`PackageStoreProofs`
* `TypeCorrect`: `Spec => []TypeOK`. One lemma per group of steps; the
  invariant is inductive with the facts it contains (an attachment tied to a
  version has a shasum).
* `Mutex`: `Spec => []HandlerMutex`. Two requests are never between lock and
  unlock. The strengthening says that the request inside holds the lock file,
  and that a lock which may be broken as stale belongs to nobody inside: a read
  that fails or a crash leaves such a lock, and breaking it must not let a
  second request in.
* `Folder`: `Spec => []FolderHoldsFiles`. No manifest, lock, tarball or
  temporary file exists without the folder, though removals, rollbacks, crashes
  and unawaited renames interleave.
* `EmptyAlwaysCreating`: `Spec => []EmptyOnlyWhileCreating`. The step that ends
  a creation without the rename is a fault, and no other opens the file.

`SerialStoreProofs`, with `Serialised`: a request enters when the ones before it
have been answered and have no rename outstanding. What is proved is about whole
requests with any faults and crashes between their steps.
* `SerialInvariant`: `Spec => []SerialInv`. One request is at work
  (`OneAtATime`), in a phase of its operation (`Controlled`); then the manifest
  in its hands is what its handler makes of the stored one (`Fresh`), and each
  step of a publish is told by where it is: what it found (`Found`, `FoundNone`),
  what the stored manifest says of its version (`Entered`), that nothing it may
  take back was answered to anyone (`Unacked`). A revision is never used again
  (`RevisionsPast`), so a client that comes with a revision that is still the
  stored one comes with a manifest that differs by its own change
  (`BodyMatches`); without that, an unpublish that is held to its revision could
  drop what others published. One with a deprecated version is not held to it, and
  `TakenStays` says what it may take.
* `TagsAlwaysResolve`, `AckedAlwaysStay` follow from it.
* `RemovalsLeaveNothing`: a removal that was answered with success left neither
  folder, manifest nor list entry, after whatever failed or crashed before it.
* `FailedPublishesUndone` and `ServedAlwaysInstallable`, if no rename is lost
  (`NoneLost`): a failed publish leaves versions, tags and marks as it found them
  (`FailedPublishUndone`, which says of the files what the run checks as a part
  of `ServesAtOnce`); a version
  that is served has the tarball its digest describes. The second adds `Intact`:
  until a fault, every tarball in the folder is an attachment of the manifest or
  of the request at work (`AllRecorded`, `Clean`) and no lock is left
  (`LockHeld`); the tarball of the version being published or pruned is followed
  through upload, attachment, rollback and unawaited rename (`Uploaded`); and a
  version is excused while a request that may still repair it is at work
  (`InHand`).
* `StoreServesAtOnce`: `Spec => ServesAtOnce`, the refinement of `Registry`, if
  no rename is lost. The invariant is `ServingInv`: `SerialInv`, `Intact`, and
  for each request `Course` and `Relies`. `Course` says which page the file has
  at each phase of a publish, in terms of the page it found: that page, with the
  version (`Stored`), with the version and its tag (`Complete`), or any of these
  during a rollback. `Relies` is what the other requests take for granted: a
  sweep's version can still be pruned when it is about to be, a request past its
  read still has its manifest. Lemmas relate the handlers to operators of
  `Registry` (`TidyNormal`, `TidyChanged`, `WrittenPage`): `Handled` and
  `Normalize` together are `Tidy`. Then every step is shown to be one action of
  one request, a fault or a stutter: `PublishServes` for a publish,
  `UpdateServes`, `WriteServes` and `PlainServes` for the others, `EditShown` for
  a client's read, `CrashShown` for a crash. That a removal leaves its folder
  after a fault only (`FolderGoes`) takes most of `Intact`. `Serialised` is needed
  for the mapping itself: with two publishes under way there is no one page to
  show.

`StageStorageProofs`, as long as no rename is lost (`"lost" \notin Fault`)
* `StagedAlwaysStays`, `IndexAlwaysSound` from `StageInv`:
  only the head of the queue is past its start (`QueueOK`), so the index it read
  is the index it replaces (`SnapIsIndex`); ids that are dropped are of requests
  that are done and never list them again (`Targets`); files are written before
  the index (`Files`).
* `NothingEverLeftBehind`, with `CleanInv`: while nothing failed, every file is
  listed or some request that is under way accounts for it.

`RetentionSweepProofs`
* `SweepTypeCorrect`: with `AtPackage` (a run that is at a package has one).
* `SweepTargetsStay`: with `PlanSpares`: no removal that is still to be done is
  the target of a protected tag in the manifest before any sweep. A plan is made
  from the current manifest, whose protected tags are still those of the
  first; that is what `TargetsStay` itself says, so the two are inductive
  together, over any number of overlapping runs.
* `SweepTagsResolve`: from `TargetsStay`, and that a removal drops or moves the
  tags on the version it takes out.
* `SweepListedHasTarball`: with `GoneFirst`: when a run is about to delete a
  tarball, the version has left the manifest. It needs that the removal a run
  is at is determined by its plan (`OlderAsymmetric`).
* `SweepCapHolds`: with `Room`: a run in the middle of a removal is not full.
* `SweepOnlyWhatWasAsked`: with `NotExcluded`: a run is never at an excluded
  package. `SweepLimitsHold` is the two together.

`UplinkSyncProofs`, for any number of requests, versions, uplinks and revisions
and any proxy list
* The inductive invariant `IInv` is `TypeOK` with `Consistent`: what a request
  holds must be as good as what is stored, because it may be stored later. A
  local or merged copy is `Kept` (its `latest` resolves, its etags are covered),
  a manifest about to be written, like the stored one, is `Sound` (also its
  sources agree). One lemma per operator says that it turns the one into the
  other (`MergeKept`, `RefreshedSound`, `AddedSound`, `ChangedSound`), and
  `Grows` that neither a further revision of an uplink nor a further removal
  makes a copy bad. `StepSound` has one step per action, `StepAlone` says that
  an action touches only its own request, and `StepKeeps` and `RevisionKeeps`
  put the rest together.
* `TypeCorrect`, `LatestAlwaysResolves`, `EtagAlwaysMerged`, `SourcesAlwaysAgree`
  follow from `IInv`.
* `PublishesSurvive`: `Spec => []PublishSurvivesFetch`, with `Held`: a version
  that was acknowledged is in every manifest that is about to be written, and
  nobody is about to write the template of a new package.

`LocalStorageProofs`
* `TokensAlwaysKept`, for any calls, failing reads and writes, first calls that
  overlap and restarts, from `TokenInv`: one call reads the file (`OneLoader`); the
  last snapshot on its way is memory (`NewestWaits`), unless a change came before
  the reading, when every call it can cost is in `exposed`; so a call outside it
  that is told its rows were written has them in the file or in the snapshot that
  replaces it (`SavedOnTheWay`, `DeletedOnTheWay`).
* `RowsAlwaysDurable`: `TokenSpec => KeepsRows`, the refinement of
  `DurableRows`: every step is a change, the end of a writing, a crash, one of the
  two named losses, or a stutter of the abstract table.
* `DownloadsAlwaysKept`, if no first visits overlap, from `StatsInv`: pending and
  stored counts add up to the downloads; pending ones have a timer or a flush;
  the database in memory is its file once it was read.
* `ListAlwaysKept`, from `ListInv`: nothing serves before the `_sync` of `init` is
  through (`BootComesFirst`); once nobody is on the way to the file, each writer
  that has it open took the list as it is now, unless another one has it open too
  (`LastTakesAll`, `AloneUnlessMixed`). The last of several writers therefore
  brings the file up to date, although each takes its snapshot when it likes; a
  writing that failed makes the ones beside it, which took an older list, not count
  as clean.

`TwoFactorProofs`, if mutations of different stores do not overlap
* `QueueInv` says what the chain of promises in `userQueues` is: a first
  mutation, one successor of each, the last one in the map; an entry that was
  dropped has none. With `Places` one mutation runs, and `save` inserts into no
  rows.
* `CodesSpentOnce`, with `CodeInv`: the stored record and the one about to be
  saved have used up every code that let a request in, and a code that is about
  to do so is new.
* `FailuresAlwaysCounted`, with `CountInv`: the record about to be saved has the
  count that follows the stored one.

`ServicesProofs`
* `OfflineAlwaysEarned` for `max_fails` above zero.
* `QuotaAlwaysKept` for any quota, sizes and lifetime of the measurement, from
  `QuotaInv`: two publishes that meet are noted as a disturbance since the
  cached measurement, as stagings and cached tarballs are; an undisturbed walk
  misses nothing; an undisturbed cached
  measurement misses at most the publish that has not dropped it yet.
* `TarballAlwaysWhole` for any clients, size and number of faults, where uplinks
  announce a length or send chunks, from `DownloadInv`: a writer that has not
  failed has a client that is being streamed to, and its temporary file is what
  the client got; past the end of the body it is whole.
* `AccessAlwaysEarned` for any people, rules and requests, from `GrantInv`: what
  the checks a request has passed have found was true, and is still noted; the
  stars that were checked are the stars that are there, or their change is noted.
* `TrustAlwaysEarned` for any jobs, entries, rights and failures, from `TrustInv`:
  the entry a job has matched vouches for it and is the one whose user the token
  names (`VouchedFor`), the scope of a publish is what was asked (`ScopeIsAsked`),
  and a row that was deleted does not come back (`RowsStayDeleted`).
* `FallbackAlwaysPublish` for any plugins and questions: a question that is handed
  on to publishing has passed only plugins without an opinion, and the verdict on
  publishing is a function of the chain (`PublishVerdict`), so an answer that was
  given plugin by plugin is the one a publish would get.
* `HandedAlwaysSpent` for any guests and polls that overlap, from `LoginInv`: a
  token in the rows of the registry was saved, by a login that is over, and was
  handed to nobody, so it does not come back after a poll (`OnceInTheRows`); the
  session of the OIDC plugin has one guest to answer (`OneForTheSession`).
* `BearerAlwaysCurrent` for any requests, tokens, times and cache sizes, from
  `BearerInv`: an entry of the cache is for the key of its own token and expires
  no later than `ttlMs` after the plugin accepted it (`Vouched`), through every
  reordering and eviction of the cache; a key that was revoked has no row
  (`RevokedHaveNoRow`), and a request that passed the look at the rows carries
  the key that was looked up (`KnownByItsKey`).
* `AccountsAlwaysKept` for any requests, accounts, failing writes and kills, from
  `HtpasswdInv`: as long as no mutation ran without a user file, the one between
  its reading and its unlock holds the lock (`LockIsHeld`), what it read is what
  the file should have and what it makes of that is within the limit
  (`TextIsCurrent`); while registration is closed and the setup link is open or
  being used, there is no account and nobody else has anything to write
  (`OneLinkOneAccount`).
* `ShownAlwaysAllowed` for any versions, dates, rules, patterns and exceptions.
  The proof goes through the plugin: what a parsed rule says of a version some
  written rule says, and what a rule must mean the parsed one does
  (`ParsedRuleSays`, `MatchRulesSays`); what blocking and replacing leave
  (`UnblockedIsAllowed`), what deprecation and dates leave of that
  (`FilteredIsAllowed`); and that the five passes of the cleanup together leave a
  manifest that hangs together (`CleanupHangsTogether`). Assumed: versions and
  dates are numbers and there is a last date, every version is its own content at
  first, rules are those that parse (`FilterAssumption`).

Only model-checked:
* `EveryRequestAnswered`, `SweepEnds`, `EveryoneIsAnswered`: liveness under
  fairness is out of the prover's reach.
* `PageIsWhole` of `SearchPages`: what a page holds is the result of merging
  batch after batch into a sorted sequence, so that a proof would be by induction
  on the batches, which the installed provers cannot do.
* The properties of the runs that expect a violation.

## What is not modelled, and the plan

Parts of the modelled components that are left out: changes of visibility by the
admin and web endpoints, which ask for other rights and no owner; stars and
owners in one body; attestations, non-canonical tarball names; `getSecret` and
`setSecret` (written by the same `_sync` as the list); basic authentication, the
web middleware and the formats of tokens. Several processes over one storage are
not supported by the code for staging, and are not modelled. Of upstream
metadata: tags other than `latest`, `time`, readmes, plugin filters, uplinks
that take versions away.

Planned, in this order:

1. `StageStorage` with the publish of `PackageStore` in place of its
   abstraction, as `Registry!Publish`.
2. The copying of a storage by the administration command line (`admin-cli`).

Left out for good: configuration parsing, URL and tarball-name formatting,
routing, the user interface with its stores and components, hooks, the audit
proxy, the command lines, the HTTP server, which keep no state that requests
share; cryptography and HTTP clients, which are libraries. They are most of the
repository's lines, and a state machine of them would say nothing a unit test
does not: the share of mapped lines is small for that reason, and the parts
where requests meet are where it is spent.
