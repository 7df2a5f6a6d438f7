# mcp-hugo-server-go in TLA+

`mcp-hugo-server-go` is an MCP server through which agents edit a Hugo site: they
create, update and delete pages, build the site, verify what became public, and
authenticate through an OAuth server of its own. The source is the content tree on
disk; SQLite holds what has to survive a crash; several copies of the source (an
in-memory index, derived database rows, the public tree and its index) have to
follow it; the author edits the same tree over SSH or git without asking anyone.

This directory models the parts of the server whose correctness depends on order:
which step comes first, who runs in between, and where the process may die. TLC
checks them on small instances, TLAPS proves the central results for every size.

    tlc -workers 2 -config PageMutation.cfg MCPageMutation      # a run
    tlapm PageMutationProofs.tla                                # a proof

PROJECT.json lists the components, the runs, a mutant of the code for every property,
the source lines of every definition, the hazards, and the theorems.

## 1. Inventory

| part (files under `src/internal`) | state | operations | depends on | what is hard |
|---|---|---|---|---|
| page mutations (`tools/write/tools.go`, `validation.go`) | the language files of a page bundle; `ContentMu`, the content lock | `create_page`, `update_page`, `delete_page` | lock, journals, index, database, change sets | ten-second lock poll, stale reads before the lock, error returns after a change |
| recovery journal, startup (`tools/write/recovery.go`, `server/server.go` 180-455) | rows `recovery_operations`: intent, revisions before and after | begin, stage, commit; `prepareMutationRecovery`, `commitRecoveryReconciliation` | SQLite, source index | a crash between any two steps, entries that stay behind |
| idempotency journal (`tools/write/idempotency.go`, `db/db.go` 640-745) | memory cache and rows per (caller, tool, key) | replay, remember, lookup, purge after a TTL | recovery journal | retries while the first call runs, has finished or has died |
| source index (`hugosite/source_index.go`) | a slice of pages, three maps of positions, `BuildPending` marks | Upsert, Delete, DeleteLang, Reload, ClearAllBuildPending, PendingPages | content tree | Reload drops marks, overlaps with edits; nobody locks it for reading |
| files and resolution (`fileutil`, `contentmodel`) | - | atomic write and create, ResolvePageSource, revisions | - | crash inside an atomic write, ambiguous language |
| build and publication (`tools/admin/build.go`, `publish_changes.go`, `verify_publication.go`) | public tree, backup tree, last build status | `build_site`, `publish_changes`, `verify_publication` | content lock, Hugo, source index, callbacks | two renames, author's edits during Hugo, callbacks that outlive their time |
| change sets (`changeset`, `tools/admin/change_set_guard.go`) | owner of each mutated page | attribute, owner, guard, acknowledge | source index marks | owner read after the lock was given back |
| page plans and rollback (`tools/write/content_plan.go`, `rollback_change.go`) | plans and snapshots, each a map over SQLite rows | plan, apply, roll back | lock, source index | a plan waits for the lock while others write, expire or use it |
| bundle calls (`tools/write/bundle_plan.go`, `bundle_lifecycle.go`) | plans and snapshots, journal entries of several files | plan, apply, roll back, create and delete a bundle | lock, journal, index | several renames, undo in the process, crash inside, plans that miss an edit |
| assets and chunked uploads (`tools/write/page_assets.go`, `chunked_upload_*.go`) | upload entries per server, staging files in one directory | upload, begin, append, commit, abort, delete, sweep | content lock, idempotency journal | two commits, expiry during commit, a second server, a page that goes away |
| generated images (`tools/admin/image.go`, `image_render.go`) | `static/images/<slug>-featured.jpg` | `generate_hero_image`, removal by three tools | page mutations | written without the lock, removed with or after the page |
| previews (`previewstore`, `tools/admin/preview*.go`, `create_preview.go`) | leases in memory and SQLite, preview directories, sessions | create, list, exchange, fetch, revoke, expire, restart | quotas, Hugo | caps checked before the build, three copies removed in turn |
| Hugo upgrade (`tools/admin/hugo_upgrade.go`, `hugoruntime`) | staged binaries, the managed link, the activation record | stage, activate, roll back, bootstrap | file system | link and record are two writes, days between calls |
| OAuth server and its stores (`oauth`, `storage`) | clients, codes, agents and claims in memory; access and refresh tokens in one of three stores | register, authorize, exchange, refresh, agent registration, approval, purges | clock, store, random source | take-once, rotation when a save fails, a pair stored in two steps, expiry, what a restart forgets |
| public index (`site/index.go`, `backlinks.go`) | entries, slugs and aliases of the rendered site, cached backlinks and staleness | Reload, RemoveBySlug, UpsertPage, lookups, Backlinks, StaleAgainstDisk | public tree | two caches behind locks of their own, several owners of one slug, a full index |
| derived database (`db`) | pages and links, source and public facts per language, build runs, template fingerprint | sync of a page, of the start and of a build; begin and complete a run | source index, public index | single calls fail and the server goes on |
| read and anonymous tools (`tools/read`, `tools/anonymous`, `site/resolver.go`, `lifecycle_state.go`) | none | lookups, lists, search, health, validation | both indexes, database | pairs state that changes one copy at a time, answers in pages |
| rate limits (`tools/write/rate_limits.go`, `oauth/ratelimit.go`) | token buckets per caller | allow, purge | clock | boundary of a window, eviction |
| server assembly, integrations, configuration, commands | none that a property tells apart | - | all | - |

How they interact: a mutation takes the content lock, writes an intent to the
recovery journal, writes the source, updates index and rows, stages its answer,
records it under its idempotency key, commits the journal entry and attributes the
page to its change set. A build reads the pending marks and owners (the guard),
takes the same lock by a single try, reloads the index, hashes the tree, runs Hugo
into a new directory, hashes again, swaps two directories, runs callbacks (reload
of both indexes, reindexing, purge) under one thirty-second limit, and unlocks. A
start reads the index, repairs the source from the journal, reads the index again,
synchronises the rows, and commits the journal. Reads take no lock that mutations
take: they pair the public index with the source index and fall back on the database
or on the files. Previews, uploads, images, upgrades and tokens keep state of their own
and meet the rest in the content lock or not at all. PROJECT.json lists each hazard at
its line, and which property would notice it.

What makes each part correct:

* mutations: an idempotent call acts at most once over any history of retries and
  crashes; a revision-guarded call acts only on what its caller saw; copies equal
  the source when the lock is free; every call is answered and gives the lock back;
* recovery: a start records what landed, forgets what did not, and changes no page;
* plans: no edit is lost, whatever waited; what was replaced can be had again; all
  translations of a bundle change in one step or none, also when a write fails or the
  process dies between two files;
* files beside a page: they hold what was judged, go when somebody who saw them asks,
  and none is left without an owner;
* OAuth: a credential is redeemed once, an answered pair works until its time, no one
  gains a scope, what has expired is forgotten;
* builds: what becomes public is the source of one moment, that of the revision the
  caller expected, and of nobody who was not asked; a tree to return to exists
  always; "published" is said only of what is; builds end;
* previews: entry, row and directory account for each other; a link opens until it was
  used and never again; what is gone stays gone;
* upgrades: only a binary that was official is run, and a rollback undoes a move that
  took place;
* copies for reading: a slug finds its page, caches are about the present index, failed
  calls are repaired by the next build or start, and an answer is true of some page,
  source and state that belong together; a walk through a list skips nothing.

## 2. Modules

| module | models | proofs |
|---|---|---|
| `PageService` | what page mutations promise: one atomic change per accepted call | |
| `PageMutation` | the three handlers, lock, both journals, index, rows, crash, startup | |
| `PageMutationInvariant` | its inductive invariant, in named parts | |
| `PageMutationProofs` | | types, the invariant, the safety properties that follow, and that `PageMutation` implements `PageService` |
| `BundleService` | what the bundle calls promise: all translations or none | |
| `BundleMutation` | plan, apply, roll back, create and delete a bundle; plans, snapshots, file-by-file writes, undo, crash, `reconcileBundleFiles` | |
| `BundleMutationInvariant` | its inductive invariant, in named parts, and what the refinement needs besides | |
| `BundleMutationProofs` | | the invariant, at most one effect per key, records that agree, that `BundleMutation` implements `BundleService` |
| `BuildPublish` | guard, build, swap, callbacks, verification, outside edits, crash | |
| `BuildPublishInvariant` | two inductive invariants: of the lock and the swap, of the guard and what it let through | |
| `BuildPublishProofs` | | types, the invariants, and six safety properties |
| `OAuthTokens` | registration, codes, pairs, rotation, agents, purges, restart, over the memory, JSON and SQLite stores | |
| `OAuthTokensInvariant` | the parts of its inductive invariants | |
| `OAuthTokensProofs` | | types, and all its safety properties |
| `AssetUploads` | single and chunked uploads, deletes, expiry, several servers, restart | |
| `HeroImages` (extends `AssetUploads`) | the generated image of a page: two ways to write it, three to remove it | |
| `AssetProofs` | | the inductive invariants of both, and all their properties |
| `PreviewLeases` | previews from the quota check to the removed directory, links and sessions | |
| `HugoUpgrade` | stage, activate, roll back, bootstrap over managed binaries | |
| `AdminProofs` (extends `PreviewLeases`, `HugoUpgrade` and `ContentPlans`) | | the inductive invariants of the preview store, the upgrade manager and the plans, and all their properties |
| `ContentPlans` | plans, rollbacks and updates of one page, the two stores behind them | |
| `SiteIndex` | the public index and its two caches against concurrent readers | |
| `SiteIndexProofs` (extends `SiteIndex` and `ReadTools`) | | the inductive invariants of the index and of the database, and all properties of `SiteIndex`, `DerivedStore` and the reads |
| `DerivedStore` | the database through edits, builds, failures and starts | in `SiteIndexProofs` |
| `SiteReads` (extends `DerivedStore`) | the resolver, lifecycle states, health | in `SiteIndexProofs` |
| `ReadTools` (extends `SiteReads`) | what each read tool answers, lists and counts | in `SiteIndexProofs` |
| `SiteQueries` | paged lists, search, validation, lookups in the unlocked source index | |
| `SiteQueriesProofs` | | its inductive invariant, and all its invariants |
| `MC...` | the instances TLC runs, one per component | |

`PageMutation` and `BundleMutation` share the lock, the journals and the startup;
`BundleMutation` sees a page mutation as one step, `EditPage`, when the lock is free.
Mutations and builds meet in the content lock and the source index.
`PageMutation` opens one critical section of a mutation into its steps and leaves
builds out, which hold the same lock and do not write the source. `BuildPublish`
takes a mutation as one step under the lock: everything it changes besides the
source (index, marks, owner) is volatile, so a crash inside it equals a mutation
followed by a crash, or none. `DerivedStore` takes mutations as one step and builds
in the steps of their database calls, since a mutation never overlaps a build.
`SiteIndex` and `SiteQueries` open what both do to the two indexes into the
assignments a reader can see between. `ContentPlans` opens what happens between a
plan, its lock and its write, with the recovery journal left to `PageMutation`.

### 2.1 PageMutation

State and code: `disk`, `dir` are `content/<slug>/index*.md` and its directory;
`journal` is table `recovery_operations`, `idem` table `idempotency`; `shadow`
the rows `SyncSourcePage` derives; `idx` the `SourceIndex`; `lock` is `ContentMu`;
`phase`, `todo`, `resolved`, `landed` are `openSiteDB` during startup; `pc`, `req`,
`loc` a handler's position, parameters and locals. One action per step of a handler
that another process, a failure or a crash can come between: `Submit`,
`AcquireLock`, `LockTimeout`, `Replay`, `Refuse`, the admission of each tool,
`Begin` (intent), the write (`CreateWrite`, `UpdateWrite`, `DeleteUnlink`,
`DeleteTidy`, `DeleteBundleDir`, `WriteFails`), `Reconcile` (index and rows),
`Stage`, `Remember`, `Commit`; and at startup `BootIndex`, `PrepareEntry`,
`StartupSync`, `ReconcileEntry`, `BootDone`.

Abstractions:
* a revision is a hash of the file, so a revision is the content it names; hashing
  is taken as injective. The content `create_page` writes contains a timestamp; two
  contents are equal or not, whatever they contain;
* bundles share no files, so one bundle stands for each. Section indexes, hero
  images, the public output of a deleted page and the audit log are left out, and
  so are dry runs, which change nothing;
* a rate limit, an invalid front matter, or a symbolic link that `create_page` or
  `update_page` meets is `Refuse`: an error after the lock with nothing changed.
  `delete_page` looks for links after it has written its intent: that is `WriteFails`,
  an error that leaves its entry pending;
* the in-memory idempotency cache never knows more than the durable record and is
  not modelled apart. Records do not expire;
* startup handles journal entries in any order (the code uses the query's order);
  the states `in_progress` and `file_written` are one, recovery treats them alike;
* a refused `create_page` (`already_exists`) and a delete without a source file
  leave entries behind that stay pending, as in the code.

`PageService` has only pages, what is known under each key, and answers. The
refinement maps its effect on `disk`, with the answers and records the model keeps.

### 2.2 BuildPublish

State and code: `disk`, `public`, `backup` are the content tree, the public tree and
the directory the swap renames it to; `idx`, `pending` the source index and its
`BuildPending` marks; `listed` what the public index lists; `owner` the
`changeset.Registry`; `lock` is `ContentMu`; `late` holds the goroutines of
callbacks the build no longer waits for. The steps of a call follow
`guardForeignChangeSet` (`Look`, `Judge`), `buildRun.execute` (`TakeLock`, `Prepare`,
`Hash`, `Render`, `Verify`, `SwapOut*`, `SwapIn*`, `Cleanup`, callbacks, `Complete`)
and the verification (`Poll`, `Confirm`).

Abstractions:
* each write makes a fresh version, so equal trees and equal hashes coincide, and a
  version's number orders modification times. Contents that return (a file changed
  and changed back) cannot be stated in this model;
* each agent works in one change set. A delete leaves no mark, as in the code, so
  the guard is never about deletions;
* Hugo renders page by page, each page as it finds it; its output for a page is that
  page's version. `BuildFails` is any failure until the swap;
* a reload is four steps (public index, read of the tree, install, clearing of the
  marks); the read of the tree is one step. Torn results of the data race between a
  late reload and a later one are not represented;
* which error code a call answers makes no difference to the state: all are `error`,
  and `Error(a, code)` names the code. `build_succeeded_unverified` and
  `intentionally_unpublished` are `built`;
* the orphans of failed swaps beyond the last are not tracked: nothing removes them;
* permission preflights, `build_runs` rows, previews and webhooks are left out. The
  list of built pages in an answer without a database is empty for every build,
  because `prepare` reloads the index (dropping the marks) before `build.go:1197`
  reads them; it restates the order of two calls and has no property;
* a start needs the public tree (`main.go` calls `site.NewIndex` first, which fails
  without it), so `Restart` does, and `Rest` allows the server to stay down.

### 2.3 BundleMutation

State and code: `disk` is every file of one bundle directory, `Langs` its
translations and `Assets` the rest; `plans` and `kept` are `bundlePlanStore` and
`bundleSnapshotStore` with the rows (`ephemeral_records`) behind them; the journal,
records, copies, lock and startup are as in `PageMutation`, with entries of several
files. `Clients` are the calls that may be open at a time, and `CallerOf` says who
makes each: two calls of one caller may overlap, under one key too. `overlapped` is
history, the keys that two open `apply_bundle_plan` or `rollback_bundle` calls have both
found unused. The plan is two steps of a loop (`PlanRead` per translation, then `PlanMake`),
since it runs without the lock. `ApplyAdmit`, `RollbackAdmit`, `CreateAdmit`,
`DeleteAdmit` are what each handler does before the lock, the `...Check` actions what
it does again under it; `Snapshot`, `Begin`, one `WriteFile` per file, and on a failure
`WriteFails`, one `Undo` per file, `RolledBack`; then `Tidy`, `Consume`, `Reconcile`,
`Stage`, `Remember`, `Commit`. At startup `PrepareEntry` and `RestoreFile` are
`reconcileBundleFiles`, one step for each file it puts back.

Abstractions:
* a bundle's revision hashes all its files: here it is their contents, read in one
  step. A file changed while `BundleRevision` walks the directory under the lock would
  have to come from outside the server;
* the files of a call are written in any order (the code uses the order of the request
  or of the names), and a directory exists with its first file;
* memory and rows of the two stores are one set, from which anything may expire; the
  limits on entries in memory (128 plans, 512 snapshots) matter without SQLite only, as
  one more way to expire;
* a page edit (`EditPage`) writes or removes one file under the lock with its copies, in
  one step;
* missing translations are captured as empty files (`Captured`), as in the code, and
  an empty file is no page (`RollbackCheck`);
* dry runs, quotas, policy and the public index are left out or part of `Refuse`.

`BundleService` has the bundle, the open calls and which of them has taken effect. The
refinement (`Whole`) shows the bundle as before the call while files are being written
or undone and while a torn bundle awaits the start; the effect is the last write.
`damaged` records what the code leaves without repair, and from then on nothing is
promised: an undo or a repair that fails, an undo that turns a missing translation into
an empty one, and a crash that finds an entry that has outlived its call, or an
unkeyed create that met a file of its own.

### 2.4 OAuthTokens

State and code: `clients`, `codes`, `regs`, `claims` are the maps of `oauth.Service`
(`clients`, `codes`, `agentRegs`, `agentClaimTokens`), `claimed` the agents whose
registration has `Claimed`; all of them are lost with the process. `access` and
`refresh` are the token maps or tables, `diskAccess` and `diskRefresh` the JSON file or
the SQLite database. A pair is an access token with the refresh token stored after it;
`pairs` and `grants` keep what the server files with a token or a code, and, as
history, what a pair was minted from. Every entry of a map is random and its data never
change while it is there, so a map is the set of the numbers it holds.

The requests run concurrently, one action per step between which another can come:
`TakeCode` (the look-up and deletion under the mutex, with all checks after it),
`AddAccess`, `AddRefresh` (the two stores of `issueBearerPair`), `PresentRefresh`,
`Rotate` (`ExchangeRefreshToken`), `PresentClaim`, `Approve`, `PresentAssertion`,
`AddAgentAccess`, `Answer`. A store operation is one step: the memory and JSON stores
hold a mutex, SQLite has one connection. They differ in what a failure leaves
(`FailsToSave`, `KeepsOld`): JSON has already changed its maps when adding or purging
and saves a copy first when rotating; SQLite rolls back, and its purge can stop between
two tables. `Restart` is a new process: registry and token store are read again.

Abstractions:
* PKCE, redirect and client checks after the code is taken are one Boolean of `Takes`;
  requests refused without a change of state are no steps;
* scopes are `read` and `write`; `ResolveScope` has the effect of `requestedScope`,
  `allowedScope` and the clamp, not the parsing of the string;
* a lost answer is a request whose pair nobody presents: `answered` are those a
  caller may present, and a new process over the memory store answers for none of
  them;
* claim attempts (`initiateClaim` files them, nothing reads them), agent events, rate
  limits, the client table of SQLite (written, never read) and HTTP are left out;
* time is a counter of ticks, and each lifetime a constant number of them.

### 2.5 AssetUploads and HeroImages

State and code: `page`, `assets` are the bundle's directory, `staging` the staging files
in it, `entries` the `chunkedUploadStore` of each write server (a server may be
assembled twice over one directory, `server.go:1239`), `journal` the idempotency
records, `calls` what each request has in its hands. Between steps of a call another
may come: the look-up of the entry, the check of the assembled bytes, the lock, the
rename, the removal of the entry. `Expire` and `Prune` are the TTL and its sweep.
`hero` is the inode at the image's path and `images` what each inode holds: local mode
truncates and writes in place (`StartLocal`, `Truncate`, `WriteImage`, `WriteStops`),
API mode fetches and renames (`StartApi`, `Install`). It is removed by
`delete_page_asset` with scope "generated" (`HeroCheck`, `HeroRead`, `HeroRemove`), by
`delete_page` after the source (`DeletePageSource`, `RemoveHeroImage`), and on the
advice of `get_storage_health` (`ScanPages`, `ScanImages`).

A delete of an asset first scans the pages for references (`Scan`). A scan that fails, or that
cannot read the file with the reference, finds none and the delete goes on
(`page_assets.go:532-535`, `:942-946`): it is `blind`, and counts as one of the faults.

Abstractions: a file is a sequence of pieces, the bytes of one chunk each; what decides
about it is its first piece (the signature, or `<svg>`) and whether a piece is barred. A
behaviour is either about the bundle or about the image (`scene`, a bound). The keyed
delete of an image follows the same code as that of a file and has no keys here.
Temporary files that an atomic write leaves when the process dies, legacy png images,
references from other pages, byte quotas and the audit log are left out.

### 2.6 PreviewLeases

State and code: `entries`, `rows`, `dirs` are `Store.entries`, table `preview_leases`
and the directories; `calls` what `create_preview` has in its hands from the check of
the caps through the build, `Put`, the external probe and its reset; `removals` the
directories a call still has to remove; `visits` a browser between the two critical
sections of `GetBySession`. `Expire` is the clock, `DropExpired` any of the calls that
prune. `Restart` reads the rows.

Abstractions: the preview id stands for its directory and entry token; a session token
is there or not; all previews have one size; the build of a preview is an outcome.
`build_preview`, which keeps nothing, and the rewriting of URLs are left out.

### 2.7 HugoUpgrade

State and code: `binary` is what `versions/<v>/hugo` holds, `link` where the managed
symlink points, `record` the activation record, `op` the call that holds the manager's
mutex. `Stage` downloads, verifies and installs; `Activate` checks and runs the canary
build, `Swap` moves the link, `Record` writes the record; `Rollback`, `SwapBack` and
`Forget` undo it; `Bootstrap` does stage and activation for the first version. `Crash`
and failing writes come between the steps; `Alter` and `PruneVersion` are hands on the
host between calls.

Abstractions: versions are numbers in the order of their precedence. Releases are
outcomes (what the download answers). Refused releases and dry runs end before the
first effect and are left out, as is `get_hugo_update`, which reads releases and caches
the answer.

### 2.8 ContentPlans

State and code: `file` and `index` are the page and its entry in the source index;
`plans`, `planRows` and `snaps`, `snapRows` the two stores, each a map over rows of
`ephemeral_records` with its own expiry; `call` what a request has in its hands between
the look-up of its plan, the lock (up to ten seconds), the write, the consumption of
the plan and the update of the index. The page may have a translation, `Twin`, and
`shadowed` says whether `GetBySlug`, which takes a slug and no language, answers with that
one. `apply_content_plan`, and `update_page` for a page without a language of its own, start
from the entry it answers with (`LanguageBlind`, `StartEntry`) and set its tags only if the
call has some (`retags`). `keeper` is history: whose call last retained each content.

Abstractions: a content is a set of marks, its tags and whether it is a draft; a
revision is a hash of the content and stands for it; the eight edit operations are
"turn these marks on or off". Rate limits, change sets, keys and the recovery journal
are `PageMutation`'s; a request for the content the page has already is left out. The
translation itself does not change.

### 2.9 SiteIndex

State and code: `disk` is the rendered tree, `index` the fields of `site.Index`,
`mutator` the step the holder of the content lock is at in `Reload` (file by file, then
the assignments under `mu`, then the two caches), `RemoveBySlug` or `UpsertPage`;
`backlinks` and `staleness` the caches and who holds their mutex; `reader` what a tool
has in its hands.

Abstractions: a rendered file is its own slug, the slug its canonical link names, the
slugs it links to and its modification time. Parsing HTML, dates, and conversion to
Markdown are pure and left out. `Walk` and `Sorted` are given by their order, not by an
algorithm: lexical for the walk of the tree, newest first for the list of pages.

### 2.10 DerivedStore, SiteReads, ReadTools

State and code: `source`, `public`, `idx`, `template` are the files, the published
tree, the public index and what Hugo renders with; `db` holds tables `pages`, `links`,
`content_representations_v1`, `build_runs`, `build_pages` and the fingerprint; `step`
is where a build is among its calls (`BeginBuild`, `Render`, `ReloadIndex`,
`Fingerprint`, `SyncPages`, `Prune`, `CompleteBuild`), each of which may fail alone;
`Start` is the synchronisation of a start; `shown` is history, what the last completed
build published. `SiteReads` and `ReadTools` add no state: they are the functions that
answer, evaluated in every state. A lookup tries its candidate keys in turn and is given
the first that finds a file (`Labelled` with a language, `OfBundle` without).

Abstractions: a slug is a sequence of path segments, since languages are told by the first one,
and `_index` and `_index.<lang>`, the one file name whose label stays in its key, are its
possible ends (`IndexName`); the candidates `<slug>.<lang>` of rows (`extended.go:2902-2906`)
are left out, since no bundle of the model has such a name; a text is its draft mark, its `url`
and its links. Front matter is valid, so the score of the content is 100. Left out: titles
edited in the rows (`UpsertPage`), statistics of the shadow tables, exemptions of aliases,
static files and pagination from link checks, callbacks that outlive their build and edits by
hand while Hugo runs (both `BuildPublish`), failures of a statement inside a call, a
configuration that changes its technical slugs, the scope migration, and `BuildPending`
(`BuildPublish`).

### 2.11 SiteQueries

State and code: `files` is the files; the source index is an array of pages and three
maps of positions in it, which `Upsert`, `Delete` and `Reload` rebuild in the steps
`ShiftSlot`, `Truncate`, `ClearMaps`, `FillMap`, `ReloadMaps` while a reader looks a
position up (`FindSlot`), reads the slot (`ReadSlot`) and then the file's revision
(`ReadRevision`); `MapFault` is what Go's runtime does to a program that reads a map
while another goroutine writes it. The public index is replaced as a whole, the
search rows follow it. `Ask...` and `Answer...` are one call of a list, a search or a
validation with the `next_offset` of the one before.

`search_content` asks the rows for the best `MaxHits` that match (1000 in the code, 2 in the
runs) and only then drops those of another language or type (`Hits`).

Abstractions: a page is its slug, bundle, language, date, terms and words. Search hits are
looked up in one step (in the code one by one). A sorted list is a set of pages in the order of
the sort, which its ties make total (`Ordered`, `Picked`). The factor by which search fetches
more than was asked for is 2 here for two languages. It is 8 in the code, and at most 200 hits,
which is never reached: the limits an agent may ask for end at 20. Snippets, taxonomy aliases,
related impact, `explain_structure`, the scan for broken links in memory and the shaping of
responses are left out.

## 3. What TLC checks

| run | instance | distinct states |
|---|---|---|
| `page_mutation` | two clients (one with keys), two languages, two contents, 3 calls, 2 crashes, 1 failure | 504 thousand |
| `build_publish` | two agents, two pages (one published at first), 2 writes, 2 builds, 1 fault | 277 thousand |
| `bundle_mutation` | one caller with two calls open (one that uses keys, one that does not), two translations, 3 calls, 1 crash, 1 failed write or edit by another tool | 1.34 million |
| `oauth_tokens` | a registry client, a dynamic one and an agent, 2 requests, 1 code, 2 pairs, 2 ticks, 1 fault, each store | 703 thousand |
| `asset_uploads` | an upload of two pieces beside a single call, two servers, one name, one key; or two generations of an image; 1 failure or restart | 1.98 million |
| `preview_leases` | two concurrent calls, three ids, cap 1, one browser, 1 failing statement, 1 restart; ids and calls symmetric | 1.87 million |
| `hugo_upgrade` | three releases, 2 faults | 105 thousand |
| `content_plans` | two concurrent calls, 3 calls, 1 fault: of one token, with one tag and the draft mark and a translation with the tag; or of two tokens, with the draft mark alone and 1 tick; symmetric in calls | 721 thousand |
| `site_index` | three files, three slugs of which one is a list, two readers, at most two entries, 2 ticks; readers symmetric | 1.85 million |
| `derived_store` | a page in two languages and the French home page (`_index.fr.md`), four slugs, 2 edits, 1 failing call or unheard edit, 1 restart | 718 thousand |
| `site_queries` | three bundles, four files, 2 edits, 1 database failure, limits 1 and 2, searches that read two rows | 1.23 million |
| `site_queries_lost_edit` | two edits beside one look-up | `UpdatesReplaceWhatWasRead` violated |

`page_mutation` shows: a keyed call acts once (`ExactlyOnce`); index and rows equal
the source whenever the lock is free (`CopiesAgreeWithSource`); no startup step changes
a page (`RestartKeepsPages`); the handlers implement `PageService`
(`ImplementsService`); the lock is given back (`LockIsFreed`). Those about startup,
records and copies assume that no write has failed (`~Degraded`): after a failed SQLite
write or file operation the code says so in the answer and the next start repairs what
it can; what it may then do to other pages is in section 6.

`build_publish` shows: `GuardedPublication`, a page of a change set that was not
acknowledged becomes public only if it was edited after the guard looked, or had
lost its mark or its owner by then; `PromotedIsStable`, what is swapped in was the
source throughout; `PublishesWhatWasRead`, expected revisions are those of what was
published and replaced; `OldTreeRetained`, without a public tree there is a backup;
`PublishedMeansLive`, "published" is answered only while the public tree is the source,
if no write has failed (a deletion whose public cleanup fails can undo a creation
unnoticed); `CallsAreAnswered`, every call ends.

`bundle_mutation` shows: the five bundle calls implement `BundleService`
(`ImplementsService`): whichever write fails and wherever the process dies, the bundle
is the one before the call or the one after it, the answer says which, and a start
completes neither half. A keyed call acts once over its retries (`ExactlyOnce`), but for an
`apply_bundle_plan` or `rollback_bundle` repeated while the first is still open: such keys
(`overlapped`) are exempt, since one can act twice (section 6). `RecordsAgree` says that
the copies equal the source when the lock is free, that a snapshot holds what the bundle
held at the revision it is filed under, and that an entry that is pending belongs to
the call in flight (an unkeyed create that finds a file leaves one behind).
The comment at `bundle_plan.go:31-37` names a crash between two renames as a limitation;
the code has since gained the journal and the start repairs it, and so does the model.

`oauth_tokens` shows: a code or a refresh token yields one pair however often and in
how many requests it is presented (`RedeemedOnce`); a pair that was answered is in the
store, and in the file of a persistent one, until it expires or is exchanged
(`AnsweredSurvives`); a rotation that fails half way loses neither the old token nor
half of the new pair, in memory and in the file (`RotationIsAtomic`); expired codes,
registrations and tokens are forgotten again and again (`ExpiredAreForgotten`). An
access token whose refresh token could not be stored stays in the store until it
expires, unknown to any caller; a code is spent whatever happens after it was taken.

`asset_uploads` shows: what stands in the bundle is what was judged, and the image what
one generation drew, unless two had the file open at once (`FilesAreWhole`); a staging
file goes with its entry on every path, and no image outlives its page but one made
when it was gone or that `delete_page` failed to remove (`NothingIsLeftBehind`); a keyed
upload or delete takes effect once (`KeyedOnce`); a file or image is removed only for
somebody who had seen it, and a file that the page refers to only by force or after a scan
that could not read the reference (`RemovedOnRequest`).

`preview_leases` shows: the cap is exceeded by no more than the calls in flight, an
entry has its directory and row, and what is called residue is an expired preview's
(`LeasesAreAccountedFor`); an entry URL opens until a browser comes back with its session and the
probe does not spend it (`LinksOpenOnce`); what is gone never comes back, not by a
restart between row and directory (`GoneStaysGone`).

`hugo_upgrade` shows: the link is moved only to a binary that is official or was altered
while active (`OnlyKnownBinaries`), and a rollback leads back along an activation that
took place, whatever crashed between link and record (`RollbackUndoesAMove`).

`content_plans` shows: a call replaces exactly the content its plan or revision names
(`NoEditLost`); when the lock is free the index has the page's tags, or those of the translation
that a look-up by slug alone answers with, and never others (`TagsAreIndexed`). A content
replaced within the promised time is listed for and found by exactly one caller, the last whose
call retained it, across evictions, failures and restarts (`SnapshotsHaveOneKeeper`).

`site_index` shows: a slug leads to the page that owns it, and a file that was read is
found (`SlugsFindTheirPages`); a cached reverse map is that of the present index
(`BacklinksAreCurrent`); a cached "nothing changed" is about the present index and
misses no edit (`EditsAreNoticed`).

`derived_store` shows: what a run records as published is public (`LastBuiltIsPublished`);
the report of a build names every page whose output changed since the last completed
one, failed builds in between notwithstanding (`ChangesAreReported`); undisturbed builds
or a start repair what failures left (`TablesSettle`); a build that finds a new template
leaves no count of the old one (`RecheckReachesEveryPage`); pages, sources, states and
counts that tools answer belong together (`ReadsAreTrue`), where no bundle lies in a
directory named like a language and no page is published as `x/_index` or `fr/fr`
(`NamesAreTold`; section 6 has what becomes of the others).

`site_queries` shows: a walk through a list returns each page once while the site is at
rest, and skips none while it only grows (`WalksMissNothing`), where the list of a search is
what is of the language among the best `MaxHits` rows (`MaxHits` is smaller than the site
here, so that the cap is met); a look-up that no writer
overlaps finds its page (`QuietLookupsFindTheirPage`).

`site_queries_lost_edit` is a disagreement, see section 6.

The bounds let each hazard happen: three calls are a call, a retry and a third party's; two
crashes are one in a handler and one in the startup after it; two languages are what tells a
bundle from a file; two agents and two builds are the guard's race and a late reload against a
later build; one fault is enough since the properties either exclude a second (`failures = 0`)
or it only repeats the first; two pages are what a torn rendering needs. For bundles, two
translations are what a torn write needs, three calls a plan, its application and a rollback or
retry, which may overlap. For OAuth, two requests are a replay at the same time, two pairs a
code's pair and its renewal, the fault a failed save, a failed draw or a restart; lifetimes are
short enough for each to end within the ticks. Two pieces are what lies between two chunks; two
servers what a sweep can take from another; two generations what can mix. Two previews in flight
over a cap of one are the excess; the third id is drawn after a revocation. Three releases are
an upgrade, a second one and the way back; two faults a crash between link and record and a
binary altered afterwards. A plan that expires at once and a snapshot that lives one tick longer
are both cases of each; tokens take each other's snapshots only when they come back to a
content, which `InScope` lets two of them do between contents that differ in the draft mark,
while the clock runs; tags matter to the index, whoever calls and whenever, so with tags about
it lets one token call and the clock stand. Two files that claim one slug and room for two entries
of three are every demotion and a full index. In `derived_store` one page takes the slug another
had, in each of two languages. Four files and limits up to two are a walk of several calls, an
addition before and after its offset, and a bundle that would fill an answer with its
translations.

Fairness. `PageMutation`, `BundleMutation`: weak fairness of each handler's own steps and of startup,
because the process runs on, the poll for the lock ends after ten seconds, and
nothing a handler waits for after that depends on another; none of `Submit`, of
crashes and of failures. `BuildPublish`: weak fairness of each call's steps
(`Running`), because Hugo and the callbacks have time limits, the try for the lock
does not wait, and the read lock the guard takes is granted in turn; none of edits,
late reloads and `Restart`. `OAuthTokens`: weak fairness of the two purges, because
`Server.Run` (`server.go:1362-1390`) starts a ticker for each that runs as long as the
server; none of requests, the clock and faults. That saves do not fail for ever is the
bound `MaxFaults`. The other modules state no fairness and no liveness: what their
calls wait for is the content lock, whose return the two runs above show.

Runs with CHECK_DEADLOCK FALSE end where their bounded clocks, edits and calls are used
up and nobody has anything left to do.

## 4. What TLAPS proves

For any sets of clients, languages, contents, keys, agents and pages and any bounds.
The assumptions are those named in the modules: distinct names (`NamesDiffer`,
`FilesDiffer`), requests that passed validation (`RequestsAreValid`, `AsksAreValid`),
natural or finite bounds (`BoundsAreNatural`, `NumbersAreNatural`, `BoundsAreFinite`),
slugs that come in one finite order with the URL of each file among them
(`DerivedStoreAssumption`), language codes that are strings and index keys that carry the
label of their file (`SiteReadsAssumption`), a
value that is no tree (`NoTreeIsNoTree`), clients and agents that differ, with writers
among the registry's clients (`KindsDiffer`), the kinds of token store there are
(`BackendsAreKnown`), and placeholders that are none of the
things they stand in for, with sizes no larger than the limits (`PlansAssumption`,
`PreviewAssumption`, which also makes the calls in flight finitely many,
`HugoAssumption`, `AssetAssumption`, `HeroAssumption`), and pages that a slug, or a key and
a language, tell apart (`SiteQueriesAssumption`). TLC evaluates each of them in the run of its
component. One theorem has a hypothesis besides: see `OnePerKeyIsEnough` below.

`PageMutationProofs`: `TypeCorrect`, then `Invariant`. `IInv` is needed because none
of the properties is inductive: that a keyed call acts once depends on where the
knowledge of it is in each phase (`OnceInv`: recorded, in flight, or about to be
recorded by startup), which depends on the entry being the handler's own (`OwnInv`),
on the file being as before or as after the write (`FlightInv`), and on the lock
(`LockInv`). The proof has a lemma per part and a case per action; the safety
properties follow from `IInv` (`KeyedCallActsOnce`, `CopiesAgree`, `PendingInFlight`:
an entry that could still act belongs to the call in flight), the action properties
from `IInv` and a step (`RestartKeeps`, and `KnownKept`: what is recorded under a key is
not replaced, except at startup for `create_page` and `delete_page`, whose entries can
outlive their call while `RememberMutation`, `db.go:706`, overwrites).

`Refinement`, in the same module: under `IInv` each step of `PageMutation` is a step of
`PageService` or a stutter: the write actions are its effects, `Answer` its answers,
`Remember` and startup's `ReconcileEntry` what becomes known.

`BuildPublishProofs`: `TypeCorrect`, `BuildInvariant`, and from it `OneBuild` (mutual
exclusion), `PromotedStable`, `PublishesRead`, `OldTreeKept`. `PromotedIsStable` is not
inductive: while Hugo runs a rendered page may differ from the hash, but then the
source does too and, versions never returning (`ClockInv`), still will when it is
hashed again (`RenderInv`). The swap needs that a failed restore has something to
restore (`SwapInv`), and what the caller expected is carried from the hash to the
rename (`ExpectInv`). `Sound` states all of it of one call; a step of another call
preserves it because the lock excludes that call from the steps that matter.

A second invariant (`GInv`, `GuardInvariant`) gives `GuardedBuilds` and `PublishedIsLive`.
For the guard: a mark and an owner stay until somebody takes them away, so a page that was
not vetted while its caller judged is news to it, and a page edited after the caller hashed
it has a version newer than the hash. For the answer "published": what a call has installed
stays current because a later edit makes a fresh version, and because a build that replaces
it has hashed, under the lock, what it found. A deletion is the exception, and the reason
for the premise that no write has failed.

`BundleMutationProofs`: `BundleInvariant`, one `HandlerInv` for each client with what files,
entries and journal say of each other. Most steps are a `QuietStep` of a call that has no
entry yet, or a `HolderStep` of the one that has the lock. While a call writes, each file is
as it was captured or as it is to be; so at a crash the only entry that can act is that of
the call in flight, and a start that finds every file written may take it as done.
`BundleCallsExactlyOnce` then rests, as for pages, on where the knowledge of an effect is in
each phase (`OnceInv`), and on what two calls may have in common: two that are past their look-up of
one key have that key in `overlapped` (`OverlapInv`), so a key outside it is in one hand at a
time from the look-up to the record. `BundleRecordsAgree` rests on the lock.

`BundleRefinement`, in the same module, needs a second invariant (`RInv`, which TLC checked
on the bounds of the run too): a handler writes what its request asks for (`ClaimOf`), to
the bundle the request names, however many of its files are written or undone (`BaseOf`);
its entry asks for the directory to be swept exactly if no translation stays (`SweepOf`);
after a crash that misled nobody the journal holds one entry at most, whose files are as
before or as after (`TornInv`). `Shows` says what `Whole`, the bundle of the refinement
mapping, is in each phase. Then admission opens or closes a call, the last write is the
effect (`TakesEffect`), every other write, undo and restored file is invisible, and a crash
is the service's `Die`: in it one call may have taken effect, that with all its files
written whose handler had not noticed.

`OAuthTokensProofs`: `TypeCorrect`, then one theorem per safety property.
`EachRedeemedOnce` needs that a code which a request has taken is in no other's hands
and has yielded nothing (`TakenByOne`), that what a pair came from is gone from store and
file (`SourcesSpent`), and that a pair between its two halves is held by one request
(`HeldByOne`); most steps are `Quiet`, they add to none of these sets. `RotatesAtOnce`
and `AnswersStand` need that the file holds no live token the running store lacks
(`FileIsHeld`): then a later save of another request takes nothing live away. For
`AnswersStand` the pair a request holds is kept from its first half on (`Kept`).
`WriteIsConfigured`, that the scope `write` comes only from the registry file through any
chain of renewals, carries over the codes (`WritersOnly`); `ClaimsWait`, that a claim
token stands for a registration not yet approved, over the identifiers that were drawn
(`AgentsDrawn`).

`AdminProofs`, for the plans: `NoEditIsLost` needs that a call past its check holds the lock (so
that no other call is) and that what it checked is still the file; `TagsIndexed` follows from
the same invariant, since only the holder of the lock has a file and an index that differ, and
what it leaves in the index are its own tags, those the entry had, or the translation's where
the slug answers with it. `SnapshotsSurvive` is about the rows, from which the map in memory is
read again: the row of a snapshot is written before the file it replaces, and nothing but its
expiry removes it. It holds for any callers and says that the snapshot is kept for the last of
them that replaced the same content, and for no other.

In the same module, for previews, `LeaseInvariant` says who accounts for whatever is out of step: an
entry without a row is the call's that makes it, a row or a directory without an entry is
that of a removal under way, of a failed statement, or expired. `LeasesAccounted` bounds the
previews counted plus the calls let through by the cap plus the calls, over which a restart,
which counts anew from the rows, adds no more than one per call it stops. `LinksOpen` needs
that the mark of a browser that used its session is the preview's once it was answered, and
`GoneForGood` that an id nobody lists and no call has in hand has no row.

`SiteIndexProofs`: `Invariance` says that each entry of the index is that of the file that
wins its slot among the files read so far, by the order of the walk; that a slot not taken
has no such file; that a file whose alias another's slug took has lost it to that file; and
the same of the index a reload has in the making. How a removal, an upsert and the scan of
one file change who wins is the bulk of the proof. That the walk and the sorted list of
pages exist at all, and that reading the files in their order ends in such an index, are
inductions over the number of files, done through the least number of a set (`LeastNat`).
`BacklinksStayCurrent` needs that who fills a cache holds its mutex, so that it read the
index as it is unless whoever changed the index has still to evict what was cached, for
which it needs that mutex; `EditsStayNoticed` that the files newer than the index are those
edited since they were read (`NewerInv`).

In the same module, for the database, `StoreInvariant`. Its parts speak of a build under way
and of the time after it: its record stays what it would be if the build began now, since
nothing is edited meanwhile (`PhaseInv`); no revision is newer than the last edit, so that
the next one is nobody's (`RevisionInv`); from the rendering on the tree is what Hugo makes of
the sources, and once reloaded the index is that tree (`TreeInv`); then the rows are those of
the index, and with a new template none keeps a count of the old one (`RowsInv`). Hence
`LastBuiltStaysPublished` and `RecheckIsComplete`. `ReportsAreComplete` needs what the last
report was told, which is no news to the record: a file it showed is recorded, and one with
the recorded revision was shown with it, by whatever name its language now goes (`ShownInv`).
`TablesAreRepaired` is the longest: one build that nothing disturbed makes the public facts
exactly the true ones, one per published file (`TrueFacts`); the next one gives a record in
which no source and no fact drifts (`SettleInv`). The facts are made by folds over the slugs
in their order, whose result is had as for the walk: a recursive function from the number of
slugs done, and the least number at which a claim about it would fail (`UpTo`, `LeastNat`).
`StoreInv` was checked by TLC on the instance of the run before it was proved. It depends on
`Contested`, that two files ask for one URL, only where the properties do.

`ReadsStayTrue`, in the same module, is about the answers. A lookup tries several keys,
and each of its branches falls back to another; the proof first shows that of the keys it
tries only one can answer (`ExactIs`, `UnlabelledIs`, `OfBundleIs`): the others begin with
a language or end in `_index`, and where `NamesAreTold` no file lies there. So what
`resolve` finds for a slug and a language is the file of that slug and language or none
(`ImplicitFacts`, `WithLangFacts`), the page rendered from it is the one asked for
(`KeyLeads`), and asking with and without the language leads to the same pair
(`EitherWay`). Language, quality, rows and lists follow. "Fresh" needs a fact about
times, `PagesTellTheirSource`: an edit is newer than every build before it, so that a
page whose file is no newer than the build has that file's revision (`MadeInv`). After an
undisturbed build the index is the tree and the tree is what the files make
(`SettledIndex`): no file is missing (`NothingMissing`), and sending each file to its URL
is a bijection of the publishable ones and the published pages (`CountsAgree`).

`SiteQueriesProofs`: a list is a set in a total order, so that where a page stands is the
number of pages before it (`Place`), which only grows while the site does. `QueriesInvariant`
has two halves. Of the array and its maps it says where they agree while a writer takes them
apart and puts them together again, step by step; with no writer about, every page is found
where its maps say, hence `LookupsFindTheirPages`. Of a call it says what has been told so
far: if nobody wrote since the first answer, the beginning of the answer in one piece, up to
the offset; if the site only grew, whatever was there at the start and is not yet told is
still at the offset or beyond it. `WalksAreComplete` is both at the end of the walk. For a
search the list is what is left of the first `MaxHits` rows, for any `MaxHits`: `HitsFacts`
says that those are the ones with fewer than `MaxHits` matching rows before them.
`OnePerKeyIsEnough` says that related pages and suggestions fetch enough to fill the answer
after the translations of one page were dropped, for which there is no run. It is a count: of the hits fetched at most as many as there are languages
share a key, so that `Headroom` times the limit of them have `limit` keys, or are all the
hits there are. Its hypothesis is that the site has no more languages than `Headroom`, 8,
which the code says of itself (`read/tools.go:1357-1365`).

`AssetProofs`: nothing under the content lock looks at the staged bytes again, so why a
commit renames what it judged has to be said of every other call (`CallInv`): an upload that
is complete takes no chunk, an id is drawn only if no call has it in hand, and an entry goes
together with its file. `WholeFiles` adds that a staging file is longer than its chunks once
one was cut short (`EntryInv`), which a declared hash excludes. `AssetsKeyedOnce` needs that
between the look-up of the key and its record the lock keeps others out (`AppliedInv`). For
the image, which is written without the lock, the argument is about inodes: one that is in
use was made by a generation that will not make it again (`InodesInUse`), and one with a
single writer since it was emptied ends whole (`OneWriter`). `RemovalsAreAskedFor` needs what
a delete found under the lock to be so when it removes (`DeleteOf`, `RemoverOf`).

For the Hugo binaries, `UpgradeInvariant` says of each place that keeps an old version (the
link, the call in flight, the record) that the binary there may be run. From it `KnownBinaries`;
`RollbackUndoes` needs that record and link disagree only as a crash between the two writes
leaves them.

Only model-checked:
* liveness (`LockIsFreed`, `CallsAreAnswered`, `ExpiredAreForgotten`), which rests on
  fairness and ENABLED and is out of the prover's reach;
* `UpdatesReplaceWhatWasRead` of `SiteQueries`, which its run refutes (section 6).

## 5. What is not modelled, and why

* Reading and writing of formats (front matter, HTML, Markdown, TOML), of paths and of
  URLs: pure functions, covered by unit tests. Where their result decides a step it is an
  outcome (`Refuse`, `Answers`, `Takes`).
* Rate limits: token buckets over real time whose state nothing else reads.
* Configuration, contracts, registries, discovery documents, middleware, commands and
  packaging: no state that changes, or none that two steps could disagree about.
* Integrations (Cloudflare, IndexNow, Google): calls outward whose failure is logged. A
  slow one is what uses up the time of the callbacks in `BuildPublish`.
* Dry runs: they return before the first effect. `get_mutation_status`, retention and
  trimming of the journals, and records that expire: a keyed call retried after that is
  a new call, as documented.
* Section indexes as mutation targets, the audit log, and ownership of change-set ids.
* Taxonomy reports, snippets, related-page scores and the other reports of the read
  tools that are functions of one copy alone.

Contents that return (a file changed and changed back while Hugo runs) cannot be stated
in `BuildPublish`, whose versions are fresh; backups that failed swaps leave behind are
not counted there.

## 6. Disagreements with the project's own words

Only the first is a run; of the others those with a name are stated as properties beside
the ones that hold, and TLC finds each violated when it is put in the place of those of its
module's run.

* `UpdatesReplaceWhatWasRead`, run `site_queries_lost_edit`
  (`docs/mutation-coordination-model.md:95-106`, `expected_revision` "prevents a *queued* write
  from silently overwriting a change that landed while it was waiting"): `get_page_for_edit`
  takes the text from the index and the revision from the file, and `update_page` writes the
  file (`tools.go:1309`) before the index (`:1320`). A read in between returns old text with the
  new revision; an update made from it passes its check and overwrites the change. A file edited
  on the host since the last build gives the same without any race.
* `DeleteShowsRevision` in `PageMutation` (description of `delete_page`, `tools.go:1699`,
  "Non-dry-run calls require `expected_revision` ... unless the page has no source file to
  protect"): an unkeyed delete that found no source file before the lock (`:1814`) removes the
  directory after it (`:2223`), with a page created meanwhile, without a revision.
* `RestartSparesPages` in `PageMutation` (same description, "other translations are left
  untouched"): a delete whose directory removal failed leaves an entry; a translation created
  later is removed by the next start (`server.go:411-424`).
* `KeyActsOnce` in `BundleMutation` (`bundle_plan.go:733`, "Single-use; `idempotency_key`
  safely replays"): `apply_bundle_plan` looks its key (`:780`) and its plan (`:792`) up
  before it waits for the lock (`:805`) and neither again under it, where it compares the
  revision (`:816`) and only warns of a plan that is gone (`:900-909`); `rollback_bundle` is the
  same (`:1035`, `:1044`). A call repeated while the first is open acts a second time if the
  bundle has come back to its base meanwhile.
* `PlanSawWhatItReplaces` in `BundleMutation` (`bundle_plan.go:731`, "Fails whole with
  `bundle_conflict` if the bundle changed since the plan"): the plan reads its translations
  (`:656`) before it takes the revision (`:689`), so an edit in between is overwritten.
* A `create_bundle` without a key checks for existing files before the lock; if it meets
  one under it, it removes what it made and answers, but its journal entry stays
  (`bundle_lifecycle.go:324-333`). What the handler promises ("leaves no partial bundle on
  disk", `docs/tools.md:117`) the next start may break: if some of the
  entry's files have come to hold what it meant to write, it takes the create for a torn one
  and removes them (`server.go:343-351`), also when another call had written them, whose
  retry then acts a second time. `ExactlyOnce` and `RecordsAgree` end there
  (`damaged`).
* `PreviousIsAnother` in `HugoUpgrade` (`hugo_upgrade.go:241`, "preserves the previous
  managed target for rollback"): activating the version that is active writes a record in
  which it is its own predecessor, and the way back is lost.
* `MarkedUntilPublished` in `BuildPublish` (`source_index.go:337-340`, the pages "an MCP
  mutation changed since the last build cleared the flags"; `change_set_guard.go:33`, "nothing
  but a full server restart clears BuildPending"): a build that fails has dropped the marks already
  (`build.go:1066`). The same comment's other half holds: the marks of another principal
  cannot be acknowledged, so two principals with pending pages keep each other from
  building until a restart or a failed build.
* `OldOrNewTree` in `BuildPublish` (`server.go:215`, "The public swap is an atomic directory
  rename"): it is two renames (`build.go:372`, `:380`); a crash between them leaves no tree, and
  the server does not start without one (`site/index.go:987`).
* `PlanAppliedOnce` in `ContentPlans` (`docs/mcp-contract.md:454`, "A plan is single-use after a terminal
  apply attempt"): two calls look the plan up before either consumes it
  (`content_plan.go:890`); the second passes its check if the page is back at the base.
* `SnapshotsAreKept` in `ContentPlans` (`docs/tools.md:128`, "caller-isolated"):
  there is one entry per file and revision whoever owns it (`rollback_change.go:96`,
  `db.go:536`), so a second caller that replaces the same content takes the first one's
  snapshot over. `SnapshotsHaveOneKeeper` says what is true of several.
* `TagsAreThePages` in `ContentPlans` (`docs/partial-failure-matrix.md:22`, no "clean
  success when the committed primary state and the derived/read/public state diverge"):
  `apply_content_plan` starts from the index entry of the slug, whatever its language
  (`content_plan.go:972`), and sets its tags only if the plan has some (`:986`); so does
  `update_page` for a page without a language of its own (`tools.go:1247`). The page's entry
  then has the tags of its translation until the index is next read from the files.
* `SearchesFindEveryMatch` in `SiteQueries` (`extended.go:733`, "Filtered search
  across published content ... with total count"): `search_content` reads at most 1000 rows
  (`:769`) and filters by language and type afterwards (`:776-786`), so that a page may match
  and be in no answer and in no count.
* `DraftsAreIndexed` in `ContentPlans`: `apply_content_plan` (`content_plan.go:971-1000`) leaves
  draft mark and dates of the index entry as they were, which `rollback_change.go:509-524`
  documents having fixed for its own tool. Its `set_field` of an empty description is reported
  as applied and ignored.
* Chunked uploads: the sweep takes staging files because "there is no live entry it
  could still belong to" (`chunked_upload_store.go:294`), but a second server assembled
  over the directory sweeps those of the first (`server.go:1239`). A commit repeated after
  it succeeded answers `not_found` (`chunked_upload_tools.go:338`), not what `:288` calls
  "safely replay the exact same commit after a timeout".
* `delete_page_asset` without `force` refuses while pages refer to the file, but a scan for
  references that fails is logged and the delete goes on (`page_assets.go:532-535`), and a
  file the scan cannot read has none (`:942-946`).
* A preview's session counts as used at any request with its cookie, also one that is
  answered with a redirect or not found (`previewstore/store.go:342-351`, `:757-763`), where
  `:360` says "on the first content fetch".
* `get_storage_health` calls a directory "safe to remove" (`storage_health.go:355`) also
  while `create_preview` is still building into it.
* Generated images: local mode writes in place without the content lock, so two
  drawings, or one that stops, leave a torn file; a body larger than `maxImageBytes` is cut
  silently; an image generated between the read and the removal of `delete_page_asset` is
  removed although `expected_sha256` named another; a crash between the removal of the
  source and that of the image, or a generation that overlaps, leaves an orphan
  (`docs/operator-guide.md:729-741`, "No new orphans of this class can form"); a delete that
  found no page before the lock skips the check for references after it.
* The template's fingerprint is stored before the rows are checked again
  (`server.go:936-948`, `rendered_checks.go:85-94`): a synchronisation that fails after it
  leaves stale counts until the template changes again. `RecheckReachesEveryPage` is about
  undisturbed builds.
* The database's link graph is renewed with the source page's hash (`db.go:914-930`), so
  links to a page that appeared or vanished are reported as they were; the scan in memory
  says otherwise.
* Resolution of pages (`SiteReads` states what does hold, with these exempted): a source in a
  bundle whose first segment looks like a language code ("go/intro") and that has a label is
  never resolved (`resolver.go:41-43`) and counts as missing for ever; a page that takes
  another's slug by `url` is missing at every build; a page whose `url` differs from its slug is
  matched at the second build; drafts count as claimants of a URL; lists fall back to a source
  in another language (`extended.go:2911-2955`); the language of an unlabelled page may be taken
  from a sibling (`content_shadow.go:182-193`); deleting an unlabelled translation leaves its
  fact under the default language, and `delete_page` drops the facts of languages whose output
  remains. It also removes the directory of the slug (`tools.go:1942-1943`), and with it a page
  of another bundle whose `url` lies under it, until the next build; a page that Hugo still
  generates at a deleted slug leaves the state "deletion_incomplete" (`build_runs.go:234`).
* Lifecycle states compare the times of the two files only (`lifecycle_state.go:65`): a page
  whose file was removed or moved since may be called fresh with another file's text beside
  it. A page published by `url` at a slug that names another language than its own may not
  be the one its slug opens; rows of lists find no source for the home pages.
* Validation and health: a slug with a language prefix and no `lang` makes `get_page_for_edit`
  report the quality of another file (`extended.go:1926-1975`); a section index with a `url`
  counts as published and not as publishable; a degraded runtime hides the status "critical"
  (`extended.go:2316-2318`); for the home page, whose slug is empty, it judges the first of all
  files (`extended.go:1936-1947`), and without `lang` on a bundle with labelled files only, the
  alphabetically first translation; after a reload of the index that failed, reads call a page
  fresh with the old entry.
* Public index: `RemoveBySlug` leaves aliases that point at the removed page until the
  next reload; demoting a squatter skips the tags of the real page; a removed file or one
  that keeps an old modification time is not noticed by `StaleAgainstDisk`; the classifier
  reads the entries without the lock (`backlinks.go:50`).
* `LookupsFindTheirPage` in `SiteQueries`: read tools use the source index without the
  lock that `source_index.go:19-22` and `change_set_guard.go:83-92` say protects it: a
  lookup beside a change may return another page or none, a validation may skip or repeat
  one, and the runtime may stop the process.
* Lists and search: an upsert appends and a reload sorts, so a `validate_site` walk across a build
  may skip a page; pages without a date take the file's time and move with every build;
  more than eight times `limit` better hits in another language crowd out those asked for,
  although the comment on #1041 promises headroom; `search_content` changes its order
  when the database fails. The hash of a keyed `create_page` omits `test_content` and
  `normalize_taxonomy_casing`.
