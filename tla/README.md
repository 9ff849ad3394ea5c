# smrt: a TLA+ model of the modpack mirror

smrt is a modpack mirror: curators edit a pack together in a web panel, the
service keeps the pack's config and its commit history, fills in the libraries
the mods need, and builds a commit into a published manifest that launchers
install. Beside the packs it keeps a cache of jars that operators may take down,
a registry of mod identities that a background harvester rewrites, and the
discussions, access lists and notifications of the people involved. This
directory models the parts of the service whose correctness depends on the order
in which requests, background tasks, failed writes and restarts happen, and the
algorithms (identity, version choice, required-ness, diffs, paging) the rest
relies on.

Paths below are relative to the repository (`src/...` is the Rust crate,
`web/...` the panel).

## 1. The system

| component | state | operations | what makes it correct |
|---|---|---|---|
| pack authoring handlers (`src/http/admin.rs`) | none of their own | read and save the config, join and update the live document, commit, restore, revert, merge a proposal, visibility, duplicate, delete | nothing saved is lost, server-owned fields move only through their own door |
| pack files and commit log (`src/storage.rs`, `src/authoring/commits.rs`) | `config.json`, `summary.json`, `commits/*`, `HEAD`, `pending.json`, one config lock per pack | load, save, `save_commit`, `note_pending_author` | the log is readable, linear and append-only, and each commit is what was on disk |
| live documents (`src/authoring/packdoc.rs`) | one CRDT document per pack in memory, a ticket counter per pack | `get_or_seed`, apply, `touch`, `is_current`, `forget` | what was accepted is materialised; what is materialised drops nothing |
| build jobs (`src/jobs.rs`, `src/http/jobs.rs`) | job registry (50 jobs), one build lock per pack, `jobs/<id>.json` | start, poll, tail, evict, sweep after a restart | publications do not mix, pollers and tails learn the outcome |
| manifests (`src/storage.rs`) | `manifests/<version>.json`, `latest`, the per-commit index of builds | `save_manifest`, `set_latest_manifest`, `save_pack_summary`, `builds_by_commit` | a published version does not change, `latest` resolves |
| harvest scheduler (`src/authoring/harvest_sched.rs`) | `dirty`, `running`, `force_now`, one stored wake | `poke`, `force`, `is_unsettled`, `await_settled`, the worker | no poke is lost; builds do not classify against a registry about to be rewritten |
| harvest (`src/authoring/harvest.rs`) | none between runs | known sets, scan of cache, manifests and Modrinth, one transaction | curated rows survive, one jar ends under one mod, an unchanged world comes to rest |
| registry (`src/registry/`) | SQLite tables behind one connection | upserts, folds, authored overrides, queries | references land on rows, authored facts win, reads agree |
| dependency fill (`src/authoring/depfill.rs`) | none; pulled rows in the config | fill, `merge_pulled`, prune | pulled rows live exactly as long as something needs them |
| resolver, gate, builder (`src/authoring/resolve.rs`, `gate.rs`, `build.rs`, `modsource.rs`) | loader windows on record | placement, report, gate, required-ness, manifest | a build that cannot start is refused, what is locked is closed |
| diffs (`src/authoring/configdiff.rs`, `src/domain/diff.rs`) | none | config diff, commit status, manifest diff | what changed is named, and counted alike everywhere |
| jar cache, uploads, takedowns (`src/storage.rs`, `src/http/public.rs`, `admin.rs`, `member.rs`) | cached jars, `removed.txt` and its lock, icons, staged uploads | save, serve, delete, take down, restore, stage, approve, reject | a jar taken down is not let in or handed out |
| events and pack rooms (`src/events.rs`, `src/authoring/packstream.rs`) | broadcast channels, rosters | publish, subscribe, enter, leave | a page that falls behind notices |
| accounts, grants, threads (`src/accounts/mod.rs`, `src/http/auth.rs`, `member.rs`) | SQLite tables | sign in, grant, invite, block, suspend, open, comment, settle, notify | a level is never exceeded, decisions are made once, everyone involved is told |
| public reads (`src/http/public.rs`, `page.rs`) | none | read, page | every door answers alike, pages cover the list once |
| editor session (`web/src/lib/packdoc.ts`, `packsession.svelte.ts`) | the panel's copy of the document | send, receive, rejoin | what was typed reaches the mirror |

How they interact. Every handler is a task of a multi-threaded runtime and
suspends at each disk or database access, so two handlers of one pack interleave
at those points. The config lock (`lock_pack_config`) covers some of these
stretches and not others: whole-config saves compare `If-Match` inside it, the
document is read and seeded outside it. Document updates go to memory and are
written out by a spawned task after a quiet window, if it still holds the newest
ticket. A build reads a commit, waits for the harvester, and publishes under a
build lock of its own; a publication and every cache write poke the harvester.
A restart loses memory (documents, tickets, locks, jobs, flags) and keeps the
files, each of which is written atomically (`atomic_write`), but only one at a
time.

The registry has one connection, so a transaction is a step; but a harvest reads
the registry, works for minutes on what it read and on the network, and writes
in one transaction at the end, with operators editing in between. The cache is
plain files without a lock: only the takedown list has one. The accounts
database is the same as the registry in this respect; a request is gated in one
statement and written in another.

The hard behaviours, each with its line and the properties aimed at it, are the
"hazards" of `PROJECT.json`.

## 2. Modules

| module | what it is |
|---|---|
| `PackAuthoring` | one pack: config, document, commits, proposal, and the handlers that move them |
| `PackAuthoringProofs` | type correctness; the history, what a write may drop, and the document, for all constants |
| `HarvestSched` | the harvest worker and its flags |
| `BuildJobs` | jobs, publication, snapshots, tails; extends `HarvestSched` and composes with it |
| `BuildJobsProofs` | the four publication properties; the settled registry, types and log tails, for all constants |
| `Accounts` | users, roles, terms, suspensions, the access list and the gate |
| `Discussions` | requests about threads, comments and access, step by step; extends `Accounts` |
| `DiscussionsProofs` | types, decisions, who is told, and the one gate, for all constants |
| `Reads` | every public, member and authoring read, as operators on the state of `Discussions` |
| `Semver` | version comparison |
| `Loops` | a loop of the code as a recursive function of its rounds |
| `Iteration` | what every round of a loop keeps, the loop keeps: proved once, instantiated per loop |
| `Registry` | the registry's tables as a value, with its writers and queries; uses `Semver` and `Loops` |
| `Harvest` | the harvest against operators, uploads and publications; extends `Registry` |
| `HarvestProofs` | no reference of the registry dangles, what operators said survives every harvest, and a jar's aliases end up on one mod, for all constants |
| `Resolve` | placement, report, gate and graph; extends `Registry` |
| `PackFill` | saves with the dependency fill, and builds, under failing endpoints; extends `Resolve` |
| `PackFillProofs` | types, what a save and a build may require, and outages, for all constants |
| `Takedowns` | the abstract promise of a takedown |
| `Streams` | the event channel and the rooms |
| `JarCache` | cache, uploads, takedowns, icons, inventory; extends `Streams`, implements `Takedowns` |
| `JarCacheProofs` | the refinement of `Takedowns`; types, pages and the inventory walk, for all constants |
| `PackDiffs` | the three diffs, commit status and the gate on uncommitted work |
| `PackDiffsProofs` | what the diffs tell, and the panel against the gate, for all constants |
| `MC...` with their cfg files | instances for TLC |

A handler that suspends is a slot or caller with a program counter; there is one
action per stretch between two points where another task can touch the same
state. What a module takes from the outside (bytes of a jar, an answer of
Modrinth, a workload) is a constant or a choice.

### PackAuthoring

The config lock is keyed by pack id, so one pack is the whole interaction. A
config is the set of edits it contains (`body`), the dependency rows the fill
pulled in (`pulled`) and its visibility, which stands for the four server-owned
fields. A handler is a slot with a program counter and locals; there is one
action per stretch between two points where another task can touch the same
state. `lock` is the holder of the config lock.

| state | code |
|---|---|
| `file`, `summary`, `released` | `authoring/config.json`, `summary.json`, the latest manifest |
| `snaps`, `metas`, `head`, `pending` | `commits/<id>.snapshot.json`, `commits/<id>.json`, `HEAD`, `pending.json` |
| `live`, `docs`, `ticket` | `PackDocs.docs` and `tickets`; a handler may keep a document after it was forgotten |
| `thread` | the proposal's row in `accounts.db` |
| `seat`, `author` | which document each editor joined, who made each edit |

| action | code |
|---|---|
| `PutRead`, `PutEnter`, `PutRefused`, `Save`, `Note` | `put_pack_config`, `store_edited_config` with the fill |
| `JoinLoad`, `JoinSeed` | `get_pack_doc`: loads without the lock, then seeds |
| `PostGet`, `PostSeed`, `PostApply`, `Debounced` | `post_pack_doc` and the task it spawns |
| `MatEnter`, `MatSkip` | `materialise` |
| `CommitEnter`, `Checkpoint`, `WriteSnapshot`, `WriteMeta`, `WriteHead`, `ClearPending` | `create_commit`, `checkpoint`, `save_commit` in its order of writes |
| `RestoreLoad`, `RevertLoad`, `OverwriteEnter` | `restore_commit`, `revert_pack_config` |
| `MergeLoad`, `MergeEnter`, `MergeGone`, `Settle`, `CloseThread` | `merge_proposal`, `settle_thread`, `close_thread` |
| `VisLoad`, `VisSummary`, `VisEnter`, `DuplicateEnter`, `Store`, `Bootstrap`, `Delete`, `Publish` | the remaining doors to the same files |
| `Fail`, `Crash` | a write that fails at any point; a restart |

`Applied` stands for the yrs library: an update made on the same document
integrates, one made on another document's history may or may not.

### HarvestSched and BuildJobs

`HarvestSched` has the worker as a program counter and the four flags as they are
stored, one action per store, because builds read two of them separately.
`poked`, `claimed` and `covered` number the pokes requested, observed by the
current run and observed by a finished one. `Notify` is separate from `Poke`:
the flag is stored before the wake.

`BuildJobs` is one pack's jobs. Jobs are numbered in the order their ids sort.
`pc` follows `spawn_build`, `run_build` and `spawn_bootstrap` line by line: lock,
first snapshot, the two loads of `is_unsettled` (`ProbeDirty`, `ProbeRunning`),
load, resolve, the check and the write of `save_manifest`, dropping the index,
pointer, card, finish, poke, last snapshot. What the enrichment passes, the
classification and the gate decide is a choice between going on and failing; an
override of the gate is the same choice. The handler's choice of commit is the
commit in the request. `TailOpen` and `TailRead` are `job_events`, `IndexList`
and `IndexInsert` the two halves of `builds_by_commit`, `Swept` the restart
sweep, `Answer` what a poll returns.

The card has a second writer. `set_pack_visibility` loads `summary.json`, changes the
visibility and saves it an await later, without the build lock: `VisLoad` and
`VisWrite` of a toggler, who holds in `toggle` the version the card had. `reverted` are
the builds whose card such a write replaced before they turned Done.

### Accounts, Discussions and Reads

`Accounts` is `accounts.db` without its threads: `roles`, terms, suspensions,
grants, blocks, and `Authorize`, `MyLevel`, `FilterMay` as the code composes them
from the namespace, the grant and the block. A caller of `Discussions` goes
through `Arrive` (middleware and gate), then the write of its handler, then for
a thread that moved the audience and the telling (`Audience`, `Tell`): the code
computes whom to notify after the row is stored and inserts notifications one
transaction later. `Crash` drops requests between these steps. `WindowPasses`
ages the rate-limit windows.

`packs` gives each pack its visibility, or "unbuilt" (a config and no summary: a pack just
made or cloned, until its first build) or "absent". `ForkPack` makes an unbuilt pack, as
`duplicate_pack` does. Which of the two a door asks is part of its translation: the
authoring listing asks for the config (`HasConfig`), the public doors load the summary
(`HasSummary`), and the gate of threads asks for neither.

`Reads` has one operator per reader and per handler, giving the set of its
answers ({} is a refusal). A read takes no step: it is asked in the states where
no request is in flight. That loses nothing, since `Crash` reaches every state of
the store with the requests gone. Paging follows a listing to its end in one
state; a listing that changes between two pages is the inventory walk of
`JarCache`. Threads are taken to be opened within one second, the case in which
their order needs its tiebreak.

### Registry, Harvest, Resolve and PackFill

`Registry` holds the tables in one record `db`; each upsert is an operator from
tables to tables whose precedence (curated over harvested, better artifact over
worse, `COALESCE` of names) is the SQL's, and a failed statement sets `ok`, which
the transaction of `Harvest` turns into a rollback. `BeginHarvest`, `ScanWorld`
and `WriteHarvest` are the three stretches of a run; `Operator` is any curator's
edit of a mod, file, relation, release or class, also between scan and write.

The loops of `write_scan` are `Loop(Step, context, start, n)`: over the jars (`JarStep`, in
any order the hash set may yield them), over the rows a collision folds (`FoldStep`)
and over the splits (`SplitStep`). What the code does row by row on a set without one
row seeing another (`infer_edges`, the file dependencies, the flags) is one operator on the
set. `EnvFlags` gives a mod of several projects the flags of one of them, as the code gives
it those of the project written last. The fill's passes, its inserts and the report are loops of the same
form.

`Resolve` is pure. `PackFill` steps a pack through `Save` (fill, merge and prune,
with the Modrinth endpoints `up` of the moment), `Build` (gate, sources, manifest),
`Learn` (a harvest that has read what was pinned) and `Evict` (a takedown of a
cached jar). A pack also has assets, a list of `Extras` that a save replaces: `ResolveAsset`
asks Modrinth or the disk and has no registry behind it, as `ResolveMod` has. What the
registry knows of a pinned version may be any file of it, not the one Modrinth ships
first (`Learned` is free in this). The fill's loop is a recursive function bounded as in the code.

### Takedowns, Streams and JarCache

`JarCache` has the takedown list as the file the code reads and rewrites whole
under `removed_lock`, requests that first ask the list (`pc = "serve"` or
`"write"`: cleared, not done) and then touch the file, staged uploads with their
records, icons and the picture of a project with its age. Every request
publishes its event after its write, as its last step. A read of the list may fail: a request of `Misreads` may find the file
unreadable at any of its reads (`Readings`), upon which a check clears, a takedown starts
from an empty list and a restore gives up (`RestoreNothing`). `Streams` is the channel
it publishes to: a listener holds a position, and one that is further behind
than `Backlog` skips to the oldest event kept. A page keeps one view per kind of
event, as the panel's lists do: `stale` are the kinds it has heard of and not
refetched yet, `missed` the kinds of which an event was dropped before it came
for it and which it has not refetched since.

`Takedowns` says what the mirror promises: a jar is served or stored only by a
request cleared at an instant when it was not blocked, and the list changes by
one jar at a time. The refinement maps
`removed` to the list, `disk` to what is held and the requests past their check
to what is cleared (`Cleared`). `BlocksTakenDown == Promise!Spec` holds where `Misreads`
is empty; `KeepsPromise` is the promise broken, if at all, by a step of a request in `Misreads`,
so that one whose reads fail cannot make another break it. `JarCacheProofs` proves both.

### PackDiffs

The live config, the newest checkpoint with its snapshot, and the builds of clean
configs. `Save` replaces the config by an edited body and whatever rows the fill
of the moment leaves (any set of `Libraries`: the diff must not see them), and
`Damage` loses a snapshot. `DiffConfigs`, `CommitStatus`, the gate's `Uncommitted`
and `DiffManifests` are operators on these. A field of the config is a list of texts, a
text a sequence of pieces: the name and the version of the loader, the tags, one text or
none for an optional field. `Shown` is what `pack_rows` makes of it, one line (`OneLine`) without
the boundaries, so that tags "a", "b" and the tag "a, b" show alike, and a missing version like an empty
one; `OpaqueFields` are compared as they are. `Rendered` is a config as its rows can show
it. `Bumps` compares the loader of two builds by its version alone. A `BTreeMap` of rows is a function on keys,
and `Keys` is its order: `Place` is how far down that order a key stands, so the greedy
pairing of `mod_rows` (each departure with the first arrival of its pin not yet taken) is
the pairs of equal place among the departures and the arrivals of one pin.

## 3. Runs

Deadlock is not checked: when the bounded requests are spent the system is idle.

| run | distinct states | shows |
|---|---|---|
| `authoring_saves` | 77 thousand | `ConditionalSaveKeeps`, `ServerOwnedKept`, `DuplicateNeverClobbers`, `PulledKept` under saves, live editing, visibility toggles, clones and failing writes |
| `authoring_history` | 1.5 million | `HistoryReadable`, `HistoryAppends`, `CommitCapturesDisk` under saves, commits, restores, merges, failures and a restart |
| `authoring_all` | 326 thousand | `TypeOK` with every operation, deletions and bootstraps included |
| `authoring_live_edit` | 34 thousand | `AcceptedReachesDisk` (fair) and `MaterialiseKeeps` with two editors, commits and toggles contending for the lock |
| `jobs_publish` | 451 thousand | `LatestResolves`, `AutoNeverCollides`, `TailComplete`, `PublishedImmutable`, `DoneMeansPublished`, `PollersLearn` (fair), `TypeOK` with two jobs of any kind, a visibility toggle, a failing write, eviction and a restart |
| `jobs_harvest` | 609 thousand | `SettledMeansHarvested`, `HarvestCatchesUp` (fair) with two builds, uploads, a forced harvest and a restart |
| `discussions_all` | 228 thousand | `TypeOK`, `VoicesHear`, `DecidedOnce`, `DoorsAgree`, `PagesCover` with three people, 20 workloads, a restart and three shelves, packs reached at every visibility, unbuilt ones included |
| `harvest_all` | 54 thousand | `TypeOK` (no dangling row), `PreciousKept`, `IdentityCollapsed`, `ReadsAgree`, `Settles` with up to three harvests, an operator's edits, changes of cache and publication, and Modrinth up, half up and down; over the world of three jars, and over four artifacts of one mod of which one has a version that does not read |
| `fill_all` | 10 thousand | `TypeOK`, `FillStable`, `RequiredSound`, `OutageBuilds` with two saves of rows or assets, a build, a harvest that learns the primary file of a version or its second, a takedown, and Modrinth up, down or answering for pins only |
| `jarcache_all` | 306 thousand | `KeepsPromise` (the refinement), `WalkComplete`, `CaughtUpIsCurrent`, `TypeOK` with two requests in flight in 12 workloads, one of which may fail to read the list |
| `diffs_all` | 92 thousand | `DiffTells`, `StatusMatchesGate`, `LauncherTold` over two edits or toggles, before, between or after checkpoints and publications |
| `diffs_launcher` | violation | `OneModEverywhere`: two blank slugs are one mod to a launcher |

A passing run shows its properties on the instance of its cfg. Section 6 has the
disagreement behind the violation, and the cfgs of the other properties that TLC refutes.

Bounds and why they are enough. Two slots: every property relates one handler to
what another did meanwhile, and the handlers of one slot repeat, so longer chains
appear in sequence; the theorems of section 5 remove the bound. Two or three
edits: one already stored, one in flight, one offered by a proposal. Three
commits: a log in which the second HEAD can be replaced. Two documents: one
forgotten and its successor. Two jobs with `Capacity = 1` and `Keep = 1`: the
registry is full, a finished job is evicted and a snapshot is pruned. `Named =
{0}`: a hand-named version that collides with the first automatic one. One fault
and one restart may happen at every point. `jobs_publish` runs without a
harvester (`BuildDeps.harvest` is optional), `jobs_harvest` without tails; the
two are independent but for the wait and the poke, which the second has. One toggler: it may
load and write the card at any two points of the two publications, and again.

Bounds of the others. `discussions_all`: a workload (`Menus`) is a bag of two or
three operations that contend for the same rows; every pair of operations that
read or write a common table is in one of them, and within a workload all
callers and all interleavings are explored. Three people: the operator, the owner
and a stranger, the three answers the gate can give. Three rows: an issue with two
comments, or two threads. `harvest_all`: three jars are one mod under two names
and one that depends on it, the smallest world in which an identity is folded
while edges name both halves; two harvests of an unchanged world to come to rest
and a third to show it. Each of its `Budgets` says which jars are in play: four rows of
one mod are the least in which the walk of a slice can go wrong at a version that
does not read and right at the rest, and they meet without the other three. `fill_all`: 13 rows, targets and versions chosen so that
each branch of the fill is taken (bare modid, project, pinned version, shadowed
package, a library of a library, what the loader ships); the second save starts
from what the first left. The registry it learns has one version under its primary file
and one under its second, and the assets are none, or a static one beside one of Modrinth.
`Apart` keeps a save from moving rows and assets at once, as nothing in a fill or a build
reads both; the theorems do without it. `jarcache_all`: three jars in two directories (the walk
crosses a directory and meets one that changed), `Backlog = 1` so that a page
falls behind at the second event. `diffs_all`: seven rows that pairwise share a
file, a hash, a slug, a blank slug or nothing, four assets that share a path,
content or a pin under two projects, which is every way two rows can be taken for one
another, and fields of which two values render alike; a toggle of the visibility counts as one of
the two edits.

Some conditions are part of properties and worth knowing. `LauncherTold` speaks of
builds whose entries have identities of their own; where they do not is section
6. `FillStable` and `OutageBuilds` speak of configs whose pins the harvest has read;
before that an outage changes what the fill knows (section 6 again). `OutageBuilds` allows a
refusal for a Modrinth asset while the version endpoint is down, and other bytes for a pin
of which the registry has another file. `DiffTells` and `StatusMatchesGate` speak of
configs as their rows render them. `ReadsAgree` asks of a slice's pick what a walk in row
order can give (`PickStands`): the best channel, no later row that beats it, and no row at
all where every version reads. `DoneMeansPublished` excepts the card of a build whose card a
toggle put back.

Symmetry: slots and users are interchangeable in the safety runs; no symmetry is
used with liveness.

Fairness. `FairSpec` of both modules is about started tasks only: the runtime
polls a ready task and sleeps end. In `PackAuthoring` it is strong fairness of each
started handler, because the config lock is a tokio `Mutex`, which hands itself on
in arrival order, so a waiting handler is not overtaken forever; in `BuildJobs`
weak fairness is enough, since the jobs that can hold the build lock are finitely
many. Nobody is obliged to send a request, and no fairness is assumed of
failures or restarts. Pokes are bounded in the runs: the quiet window of the
harvester restarts with every poke and the code does not bound that.

Every property has a mutant: a form of one definition with a plausible bug, defined
beside it under a comment beginning "Mutant", under which TLC refutes the
property in the same instance.

## 4. Which properties guard what

- A conditional save loses nothing (`ConditionalSaveKeeps`): the revision is
  compared inside the lock and nothing writes the file outside it, bootstraps and
  deletions excepted.
- Server-owned fields (`ServerOwnedKept`), pulled rows (`PulledKept`) and the target
  of a clone (`DuplicateNeverClobbers`) survive writes computed before they changed.
- The history (`HistoryReadable`, `HistoryAppends`, `CommitCapturesDisk`): the order of
  `save_commit`'s writes and the lock around read-parent and write-HEAD.
- Live editing (`AcceptedReachesDisk`, `MaterialiseKeeps`): the newest ticket always
  has a holder that writes.
- Publication (`LatestResolves`, `PublishedImmutable`, `AutoNeverCollides`,
  `DoneMeansPublished`): the build lock joins numbering, check and writes, all but the
  card's, which a toggle rewrites without it.
- Jobs as seen from outside (`PollersLearn`, `TailComplete`).
- The harvester (`SettledMeansHarvested`, `HarvestCatchesUp`): the order of the two
  stores and the wake that is kept.
- Access and discussion (`DecidedOnce`, `VoicesHear`, `DoorsAgree`, `PagesCover`):
  decisions in the WHERE of one update, the audience read after the comment, one
  rule of visibility asked in eight places (of a pack's summary, which a pack that was
  never built has not), and orders that are total.
- The registry (`PreciousKept`, `IdentityCollapsed`, `ReadsAgree`, `Settles`): the
  precedence of every upsert, and the fold of two identities in the middle of a
  transaction that goes on writing about both.
- The fill and the build (`FillStable`, `RequiredSound`, `OutageBuilds`): endpoints that fail
  one by one inside a save or a build.
- The cache (`KeepsPromise`): the check precedes the act, and the lock spans the read
  and the write of the list; a request that cannot read it harms no other's. `WalkComplete`, `CaughtUpIsCurrent`: paging over files
  that come and go, and a channel that drops events.
- Diffs (`DiffTells`, `StatusMatchesGate`, `LauncherTold`): keys that must tell apart
  what a person tells apart, and renderings that must show what moved.

## 5. What is proved

All theorems are of `Spec` (no fairness) for every value of the constants, under
named assumptions on them: `ConstantsOK`, `MaxPokesOK`, `JobConstantsOK`, `RowsAssumption`
and `BacklogAssumption` (bounds are numbers, absence is not a value, the version bound
leaves room for every job, the channel keeps at least one event); `JarsAreNumbers`,
`FinitelyManyJars`, `PrefixIsOrdered`, `IconsAreKnown`, `ShelfHoldsJars`, `NoneIsNoSlot` (hashes
are ordered, a directory is a prefix of them, what is cached at the start is jars);
`UidAssumption`, `NamespaceAssumption`, `BearerAssumption`, `ShelvesAssumption` and
`MenusAssumption` (accounts, packs, roles and workloads are what their columns can
hold); `ListsAssumption`, `LearnedAssumption` and
`CatalogueAssumption` (what a curator may declare are
rows, what the harvest may learn are tables whose ranks are those of a source, and in
which no mod is both a client's and required to match); `NoneAssumption` of `Registry` and `ScanAssumption` (absence
is no severity, a cache holds finitely many jars and a manifest lists its mods);
in `PackDiffs`, `RowsAssumption`, `LibrariesAssumption`, `KeysAssumption`,
`FieldsAssumption`, `NoneAssumption` and `StartsAssumption` (rows, keys and configs are of
their types, there are finitely many fields, a history starts with a config the
duplicate check accepts) and `SourcesAssumption`: a hash is no path. A
theorem about workloads without some operation says so in its hypothesis.

- `TypeCorrect` (`PackAuthoringProofs`). `TypeOK` is not inductive: a handler stores a
  config it took before waiting. The invariant adds `SlotInv`: a slot inside the
  lock is its holder, and what it carries at each point is a real config, document
  or commit.
- `HistoryStaysReadable`, `HistoryOnlyAppends` (`PackAuthoringProofs`, no deletions):
  `HistInv` says that a commit being written is not reachable yet, that its parent is
  the current HEAD while the lock is held, and what of it is on disk at each point.
- `CommitsCaptureDisk`, `ConditionalSavesKeep` (no deletions or bootstraps):
  `DiskInv` says that from its write to the end of the handler a slot's config is the
  one on disk, and that a conditional save inside the lock contains what is there.
- `PulledRowsKept`, `ClonesClobberNothing` (no bootstraps) and `ServerFieldsKept` (no
  restores or reverts either, which bring an older visibility back): `KeepInv` says
  what a slot carries into its write. A save made of a body or a document already
  holds every pulled row on disk and, as a merge does, the visibility on disk; a
  clone about to land found its id free. `FileWriters` and `LockedFile` say that only
  the slot inside the lock moves the file, so what it compared stays true until it
  writes. `Issued` keeps a handler the operation it started as.
- `MaterialisedWorkKept` (`DocumentOnly`: a pack edited through its document, with commits,
  toggles, clones, publications, failed writes and restarts beside it): `DocInv` says
  that the registered document contains the file and that a materialise inside the
  lock holds what is between the two. The hypothesis is the one the code needs: a
  whole-config write forgets the document before it writes: `MaterialiseKeeps` in
  section 6.
- `SettledBuildsAreHarvested` (`BuildJobsProofs`): `FlagInv` ties the flags to the
  numbering of pokes (a clear `dirty` says everything is claimed, a clear `running`
  says what was claimed is covered) and `ProbeInv` says what a build between its two
  loads has already seen. The order running-then-dirty is what makes it inductive.
- `LatestAlwaysResolves`, `AutoNumbersAreFree`, `PublishedStaysPut`,
  `DoneBuildsArePublished` (`BuildJobsProofs`): `PubInv` says that a working build
  holds the lock and what each point of a publication may rely on in the public
  files. That max plus one is free needs that a nonempty set of counters has a
  maximum, proved from the well-foundedness of the naturals. Of the card it says that
  from its own write on it names the build's version, or the build is in `reverted`: a
  toggle's write is a step of its own, at any time.
- `TailsAreComplete`, `BuildTypeCorrect` (`BuildJobsProofs`): `TailInv` says that a job whose
  status moved has no line left to write (it is at `poke`, `persist` or `end`), which is
  what the order of `FailLine` before `Failed` gives. The types rest on `PubInv`: what a
  job writes into the pointer and the card is the version it resolved.
- `PromiseKept` (`JarCacheProofs`): `JarCache` implements `Takedowns`, for any jars,
  slots and workloads. `InitKeeps` and `StepKeeps` are the two halves of the
  refinement; they rest on `CacheInv`, which is inductive (`CacheInvAlways`) because of
  `LockInv`: the request inside `removed_lock` is its holder, and the list it is about
  to write back is the list on disk. Without it a takedown's write could undo another,
  which is no step of the promise; of a request whose reads may fail it says only that it holds the
  lock, and a step of such a request is excepted. `ReadableKeeps`: where no read fails the
  promise is implemented as it stands. `RequestInv` says that a request past its check is a
  download or a write of a jar. `Marks` is the one fact about `Cleared`: a request that
  moves adds or removes its own mark and no other.

- `ViewsCatchUp` (`JarCacheProofs`): `HearInv` says that a view that is not to be reread and
  missed nothing is right, or a handler is about to announce a change of it, or the
  announcement is in the channel past the page's position, kept or not. That every
  handler stores before it announces (`Announces`) is what makes it inductive.
- `PagesMissNothing`: `PageInv`. Of the page in the making, what was listed is up to the
  cursor, what was found is past it, and a jar there from the first page on is
  listed, found, or in a directory still to be opened, which sorts after all that was
  found. The step where a page is cut (`SplitKeeps`) needs the greatest element of a
  finite set and the first n of it.
- `JarTypeOK`: the types of `JarCache`, from the invariants above and `HolderInv` (a taken
  `removed_lock` is held by a takedown or a restore).
- `DiscussionsTypeOK` (`DiscussionsProofs`): `TypeOK` is not inductive, because a request
  writes what it was gated with; `CallInv` says what a request carries at each point,
  `NotesBounded` that notification numbers can go on.
- `DecisionsStand`: from the same invariant, that no write moves a decided thread except
  a reopening of a closed issue (`ThreadsMove`).
- `CommentsReachVoices` (workloads that delete no pack): `VoiceInv` says that comments are
  about threads, that a comment request keeps the opener of the thread it loaded, then
  the row it made, then everyone who was there before it. It rests on `Grown`: without
  deletions rows stay, and a new comment's id is past every one there is. With
  deletions it is false (section 6).
- `GatesAgree`: in every reachable state `filter_may`, `authorize` and `my_level` give a
  signed-in person one answer for every pack and level (`ListingMatchesGate`, the part of
  `DoorsAgree` that is about the gate).

- `HistoryIsSound` (`PackDiffsProofs`): what is stored, checkpointed or published is a
  config the duplicate check accepts (`HistorySound`, the inductive invariant of the
  three theorems below); every save checks the config it is about to write, the fill
  included.
- `DiffsTell`: the argument is about two lists of rows by key, `Rowwise` and `Listed`, of
  which `mod_rows` and `asset_rows` are two instances. `KeysApart`, `KeyedMods`: since file
  names are unique, the fallback key gives every authored row a key of its own and
  loses none. `PairsMatch`: pairing by place is one to one and leaves no departure and
  arrival of one pin over. `PairsCount`: so departures and arrivals add up.
  `ModChangesTell`: two rows have no changes exactly when a person sees no difference.
  Assets are compared by what renders of them (`RenderedSeen`), fields by `Shown`.
  From these, `ListedEmpty` (an empty list means the same rows) and `ListedAccounts`.
  The converse, no change reported where there is none, needs that a row's identity
  decides its key in both configs (`SameKeys`).
- `StatusAndGateAgree`: configs of one revision have an empty diff (`SameRevision`), and a
  diff is finite, so that a count of zero is an empty one (`DiffEmpty`).
- `LaunchersAreTold`: `OlderOf` says that among entries with identities of their own the
  one read last is the only one; `ToldOf` goes through the six clauses, of which the one on
  defaults is by cases on whether the bytes changed.

- `Kept` (`Iteration`): a loop has, after its last round, what its start has and every
  round keeps. The library states induction with an operator as its hypothesis, which
  cannot be instantiated; `Steps` gets it from the well-foundedness of the naturals, on a set,
  and a loop of the model takes an INSTANCE of the module with its body and what holds
  after each round. The seven loops of the fill and of the harvest go through it.
- `FillTypeCorrect` (`PackFillProofs`): no two rows of a stored config claim one file or one
  source, and every recorded requirement names a row that is there. `Rowed` is what each
  step of the fill keeps of the declared rows: a list of rows without duplicates. That a
  pass appends only what nobody claims is `AddedRowed`, that eight of them keep it
  `PassesRowed`, that a prune keeps every row some kept row requires `PrunedRowed`, by the
  closure of what is reachable (`ReachClosed`). A save adds what a stale body brings
  (`MergedRowed`).
- `RequiredIsSound`: what a published manifest locks is closed under the edges that may
  lock, and holds no mod that must never be (`DerivedSound`: the backstop of `derive_required`
  never fires, whatever the entries, once no class says both "client" and "must match",
  `PackSided`); and the graph has every unmet dependency and every recorded edge
  (`GraphExplains`, from what the ranked edges of a mod are, `EdgesDrawn`).
- `OutagesBuild`: of a row the harvest has read, the registry has some file, the one Modrinth
  ships if it is the one registered (`SourceStands`). So a build of harvested pins lacks
  at most an asset, and since what is required is derived from classes and edges and not
  from bytes, it locks the same mods in all weathers (`DerivedAlike`).
- `ReferencesLand` (`HarvestProofs`): `Sound` (`Lands`, and that rows have their columns and
  ids are row numbers) is proved of every writer of the registry: the interesting one is
  `FoldSound`, where a release that collides hands its files to its twin, which is the
  survivor's own and so is not lost itself. The loops follow by `Kept`; of the loop that
  folds collided rows the invariant says that the survivor is still there, which is why
  no row that is to be folded may be the survivor (`OrderOf`: a set written as a sequence has
  its members and no others). `TypeOK` is not inductive: a write is trusted with finitely
  many jars, which the scan has because a cache and the manifests are finite
  (`KnownFinite`), and `Consistent` carries that from scan to write.
- `OperatorsKept`: a harvest keeps every mod, file, channel, relation and class an operator
  vouched for, and its Modrinth relations when Modrinth did not answer. `Spares(d, e)` says
  that of two values of the tables, in a form that composes (`SparesOn`): a relation is
  followed from mod to mod through the aliases of the mod it starts from, so it also says
  that mods which share an alias go on sharing it, and that a mod without one is neither
  folded nor given one (`AliasesStay`, `StraysStay`). Every writer of the harvest spares;
  the wipe alone does not, and what it takes is looked at last (`PreciousWritten`). Only
  `FoldSound` has a condition, that nobody vouched for the folded row and that an alias names
  both; the loops meet it because a collision folds no vouched row (`CollisionSound`) and
  finds its rows by their aliases (`CollisionLed`, `SplitRound`). An authored relation keeps
  its very rank because only one is ever given to it (`Stated`, a part of `Sound`).
- `IdentitiesCollapse`: after a committed harvest the aliases of every scanned jar name one
  mod, or two that were vouched for. `UpsertModByAlias` brings it about for the jar at hand
  (`AliasSound`), whatever is spared keeps it (`StaysCollapsed`), so it holds of every jar
  met so far (`JarsHold`), and an order of the jars meets them all (`FullOrder`).

Only model-checked: the liveness properties (the prover does not do fairness);
`DoorsAgree` beyond the gate and `PagesCover` (`Reads` sorts and pages sequences, and what a
sort yields is an induction over its input); `ReadsAgree` (the slice of a world is a fold
in row order, the listing walk another, and which clauses survive an unreadable version
is shown on four artifacts only); `Settles`, which compares three whole harvests of
one world, and holds of jars of one mod that agree on their project; and `FillStable`, which is about the code's bound of eight passes: a
longer chain of libraries needs a second save, so it holds of the catalogues in which no
chain is that long and not of all.

## 6. Known disagreements between the code and what is said of it

Each is a stated property that TLC refutes. The first is the violation run of section 3;
the cfg named with each of the others is kept beside the modules and reproduces the
trace. A cfg with two properties stops at the first that falls: leave one name in it to
see its own trace.

- `OneModEverywhere` (`diffs_launcher`): `src/authoring/configdiff.rs:502` says one mod reads
  as one mod wherever the mirror is asked, but `src/domain/diff.rs:94` takes a slug of
  spaces for an identity, so two cached jars with blank slugs are one mod to the
  launcher's diff and two to the commit box. Dropping one of them is in no list
  of the update dialog.
- `CleanIsHead` (`MCPackDiffs_untold.cfg`): `src/http/jobs.rs:190` says that the gate on uncommitted work
  keeps a build from shipping "something older than what the person pressing it is
  looking at". The gate counts rows, and a row compares renderings: the tags joined by
  commas (`src/authoring/configdiff.rs:214`), a missing version as an empty one (`:201`), name
  and version of the loader on one line (`:185`), an asset by its pin without the project
  (`:439`; `mod_changes` has a branch for just that, `:350`). Such an edit moves the revision,
  panel and gate both call the pack clean, and HEAD is built without it.
- `FlipsTold` (`MCPackDiffs_untold.cfg`): `docs/api.md:91` has the update dialog list the defaults that
  flipped, but the arm for changed bytes comes first (`src/domain/diff.rs:124`), so a mod
  re-pinned and switched off in one build is in `mods_updated` alone, which carries no
  default.
- `CardNamesLatest` (`MCBuildJobs_card.cfg`): `docs/api.md:37` says the card names the current version.
  `set_pack_visibility` loads and saves the whole summary without the build lock
  (`src/storage.rs:555`), so a toggle that loaded it before a build wrote it puts the old
  version back until the next build.
- `DiscussionStays` (`MCDiscussions_clone.cfg`): `src/http/public.rs:500` says an unpublished pack's
  discussion stays with whoever can see the pack. A clone, or any pack before its first
  build, has no `summary.json` (`src/storage.rs:596`): issues may be opened on it, since that
  asks the gate alone (`src/http/admin.rs:2643`), and read by nobody (`src/http/public.rs:492`). The
  authoring listing, which looks for the config, shows the pack all the same.
- `SliceIsLatest` (`MCHarvest_folds.cfg`): `src/registry/queries.rs:746` says the better version wins
  where both compare, but the walk keeps a winner by a comparison that is not transitive
  once a version does not read (`src/registry/queries.rs:786`): 5.0, rv6-stable-8, 2.0 gives 2.0.
- `OutageKeepsBuilding` (`MCPackFill_outage.cfg`): `src/authoring/sources.rs:71` says a pack built before keeps
  building through an outage. Its mods do; an asset from Modrinth does not
  (`src/authoring/sources.rs:177`).
- `FallbackIsTheFile` (`MCPackFill_outage.cfg`): the registry's record of a version id is said to be "the
  same file the build would have downloaded" (`src/authoring/sources.rs:70`). The harvest registers
  whichever file of a version it met (`src/authoring/harvest.rs:698`), the build downloads the
  primary one.
- `BlocksTakenDown` and `OnlyRestored` (`MCJarCache_unread.cfg`): `docs/architecture.md:178`
  says `removed.txt` blocks a jar from serving and from coming back, `:48` that a listed one
  must never serve again. A list that cannot be read blocks nothing (`src/storage.rs:1228`,
  `src/authoring/sources.rs:263`), and a takedown that cannot read it writes it back with its own jar
  alone (`src/storage.rs:1238`).
- `MaterialiseKeeps` with whole-config saves (`MCPackAuthoring_stale_seed.cfg`): a
  document seeded while a save is between forgetting the old one and writing the
  file puts the old content back with the next keystroke (`src/http/admin.rs:1324`).
- `ContributorsNamed` (`MCPackAuthoring_typed_names.cfg`): of several people who type
  within one quiet window only the last is credited (`src/http/admin.rs:1377`).
- `DeclinedNotApplied` (`MCPackAuthoring_declined_merge.cfg`): a proposal declined while its
  merge is in flight ends declined and merged (`src/http/admin.rs:2893`).
- `IndexCurrent` (`MCBuildJobs_index.cfg`): a listing of builds made before a publication
  and inserted after it hides the build from the commit log until the next
  publication (`src/storage.rs:296`).
- `ReadersMayJoin` (`MCDiscussions_join.cfg`): the thread of an unlisted pack is public to
  read, but a comment on it is refused (`src/http/admin.rs:2777`), although the comment
  there says that anyone who can read a discussion can join it.
- `ListShowsReadable` (`MCDiscussions_revoked.cfg`): a revocation forgets what the person was
  told (`src/accounts/mod.rs:888`), but a thread whose audience was computed before it
  tells them afterwards.
- `HarvestCommits` (`MCHarvest_folds.cfg`): a fold can delete the row that later edges of
  the same transaction name; the transaction rolls back, and so does every later
  harvest of that world (`src/authoring/harvest.rs:1057`).
- `FillComplete` (`MCPackFill_complete.cfg`): a library pulled in one pass and pruned in
  the same fill leaves the report with something the fill could have pulled
  (`src/authoring/depfill.rs:21`).
- `RosterSettles` (`MCJarCache_roster.cfg`): rosters are sent after the lock is released,
  so two of them may arrive in the other order and the older one stays on the
  screen (`src/authoring/packstream.rs:36`).
- `LagLosesNothing` (`MCJarCache_lag.cfg`): `src/events.rs:29` says that falling behind is not a
  loss, because the next event says the same. The events still kept may be of
  another kind, and the panel's lists watch one kind each
  (`web/src/lib/mirror.svelte.ts:53`), so a page that fell behind may show an old list
  until the next change of that very list. `CaughtUpIsCurrent` and its theorem except
  the kinds a page lost.

Met while modelling, and why the properties above except them:

- A row id is used again after a deletion (`INTEGER PRIMARY KEY`): a comment whose thread
  was loaded before its pack was deleted (`src/http/admin.rs:2796`) lands in whatever
  thread took the id since, and the people of that thread are not the ones told.
  `CommentsReachVoices` excludes deletions for this.
- The panel rereads everything on a reconnection, not on its first opening: a change
  between the first fetch and the first opening is not heard. The model starts a
  page at the opening.
- `restore_commit` brings back the visibility of the commit (`ServerOwnedKept` is
  checked without restores), and a rebuild publishes the visibility of the commit it
  builds (`src/jobs.rs:486`) although `src/storage.rs:545` says a later rebuild keeps
  the one set since.
- A restart inside the quiet window loses updates already answered 202
  (`AcceptedReachesDisk` is checked without restarts).
- `run_bootstrap` writes the config with neither the lock nor the document forgotten,
  and `delete_pack` removes files under running handlers (the theorems of section 5
  name the operations they exclude).
- A queued build has no snapshot, so a restart turns its id into a 404, although
  `src/jobs.rs:33` says snapshots are written at spawn so that ids survive; and a
  build that published just before a restart is swept to failed.
- A failed last snapshot write leaves an evicted job reading "running" until the
  next restart (`PollersLearn` excepts such jobs).
- A manifest published over a blocking check whose pointer or card then fails to be
  written is public without an audit row.
- A failed harvest counts as settled.
- `src/jobs.rs` waits five minutes for the harvest and then builds: `SettledMeansHarvested`
  speaks of builds that were told it had settled.
- A snapshot of HEAD that no longer reads: commit status answers clean from the
  revision where the build gate refuses (`StatusMatchesGate` asks for a snapshot that
  reads).
- Two rows of one slug that trade places show as changed in the commit box, and a
  changed slug alone is listed by the launcher's diff while its `content_changed` is
  false.
- The launcher's diff compares the loader of two builds by its version (`src/domain/diff.rs:193`):
  another loader under the same version number is no row of it, though
  `content_changed` is true.
- The upload and takedown handlers publish their event after the write; a request that is
  cancelled between the two (a client that hangs up) is not modelled, and pages would
  not hear of its change.
- The list of one's packs goes by the recorded owner, the gate by the namespace in
  the id; the two agree for community packs.
- A fill during an outage drops a pulled row whose dependant is a pin the harvest has
  not read yet (`src/authoring/depfill.rs:221`).
- The next harvest overwrites an edited release, and folding two mods drops a release
  an operator wrote on the loser. The newest build of a pack is taken by text order
  in one query. A modid that differs in case is not found by the edges query. Two
  jars of one mod that spell its name differently take turns (`Settles` excepts the
  name).
- A jar whose write was cleared before its takedown and lands after it stays on disk,
  though it is no longer served; `Takedowns` promises no more than that.
- A jar that vanishes between the listing and the stat fails the inventory page
  (`src/storage.rs:1027`).

## 7. Not modelled, and the plan

Not modelled: parsers of class files, bytecode, mixins, jar metadata and archives;
HTTP clients of Modrinth, loader sites and GitHub; SQL text and migrations; sign-in,
session tokens and the audit log; the field-by-field validation of a config;
search, entity tags and byte ranges; the panel, its editor session included; the
command line; wording of logs and errors. Where a modelled handler uses one of
them, its outcome is a choice or a constant.

Planned, in this order:

1. Theorems: `FillStable` under an assumption on how deep the catalogue's libraries are;
   `PickStands` of the slice of a world, as what its walk keeps.
2. `EditorSync`: the panel's session against the mirror's document (lost sends, a
   forgotten document, rejoin), with the abstract specification "all connected editors
   converge on what was accepted", which it should implement.
3. Validation of a config, and the caches of version lists.
