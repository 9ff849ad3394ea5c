------------------------------ MODULE PackFill -------------------------------
(***************************************************************************)
(* What a save does to a pack's dependencies and what a build makes of the *)
(* result.  A save carries over the pulled libraries the body lost, pulls  *)
(* what is missing (Modrinth first, the cache second), records the hard    *)
(* edges and prunes; a build asks the gate, resolves every source and      *)
(* derives what the launcher must install.  Meanwhile the registry learns, *)
(* jars leave the cache and Modrinth's endpoints fail one by one.          *)
(***************************************************************************)
EXTENDS Resolve, Loops

CONSTANTS
    MrVersions,     \* version id -> [project, file, sha, loaders, deps], as Modrinth answers
    MrListing,      \* project -> its versions for the pack's Minecraft version, newest first
    Selectors,      \* the dependency targets in play, in lexical order
    Learned,        \* registry snapshots, each what the next harvest makes of the last
    Catalogue,      \* the rows a curator can declare
    Loader,         \* [name, pin, mc] of the pack
    NamedAfter,     \* the file name made of a bare modid or of a content hash
    JarWindows,     \* artifact key -> the loader windows written inside the jar
    Jars,           \* the cached jars at the start
    Doomed,         \* the cached jars a takedown may reach
    Weathers,       \* sets of the Modrinth endpoints that answer
    Extras,         \* the asset lists a curator can declare: dest -> source
    Statics,        \* a pack's static file -> its content hash
    Apart,          \* bound: whether no save moves mods and assets at once
    MaxSaves, MaxBuilds

\* Lists are lists.
ASSUME ListsAssumption ==
    /\ Selectors \in Seq(Range(Selectors))
    /\ \A v \in DOMAIN MrVersions : MrVersions[v].deps \in Seq(Range(MrVersions[v].deps))

\* A snapshot is the registry's tables, their ranks the ones source_rank gives
\* and the one a manifest's own dependency gets; and no classifier says both
\* "client" and "must match".  A file may be registered under a version whose
\* primary file is another one: the harvest looks versions up by hash.
ASSUME LearnedAssumption ==
    /\ Learned \in Seq(Range(Learned))
    /\ Learned # <<>>
    /\ \A i \in DOMAIN Learned :
        /\ DOMAIN Learned[i] = DOMAIN EmptyDb
        /\ \A r \in Learned[i].rels : r.rank \in 0..SourceRank("curator")
        /\ \A s \in DOMAIN Learned[i].jarClass :
              ~(Learned[i].jarClass[s].side = "client" /\ Learned[i].jarClass[s].policy = "must_match")

\* A row a curator declares is nobody's library and records no edge yet.
ASSUME CatalogueAssumption ==
    \A c \in Catalogue : /\ DOMAIN c = {"file", "on", "source", "requires", "pulled"}
                          /\ c.on \in BOOLEAN /\ c.pulled = FALSE /\ c.requires = {}

Endpoints == {"pins", "version", "listing"}

MaxPasses == 8

VARIABLES
    mods,       \* the saved config's declared mods, in order
    assets,     \* and its assets, dest -> source
    stage,      \* how far the registry has learned
    windows,    \* artifact_loader_req: the loader windows read so far
    cached,     \* jars in the cache
    builds,     \* published version number -> manifest
    last,       \* the save that just happened: its body, the endpoints up, whether it filled
    job,        \* how the last build ended
    used        \* [saves, builds]

vars == <<mods, assets, stage, windows, cached, builds, last, job, used>>

Db == [Learned[stage] EXCEPT !.windows = windows]

ConfigOf(rows) == [mods |-> rows, loader |-> Loader.name, pin |-> Loader.pin, mc |-> Loader.mc]

-----------------------------------------------------------------------------
(* resolve.rs: the fill's plan *)

\* A row of the plan: what is missing, the window asked of it and the exact
\* version, when the requirer named one.
Target(t, range, pin) == [target |-> t, range |-> range, pin |-> pin]

\* An inferred edge to a mod whose class is known is an integration.
SoftTarget(db, e, m) == m # None /\ InferredEdgeDowngraded(e, ClassifyTargetMod(db, m))

\* <<index of the requirer, edge>> of all that is asked of somebody else.
Demands(db, present, answered) ==
    UNION {{<<i, e>> : e \in {x \in FillEdgesOf(db, present[i]) :
              /\ x.kind = "requires" /\ ~IsLoaderDep(x.target) /\ Bare(x.target) \notin answered
              /\ ~SoftTarget(db, x, ModIdForSelector(db, x.target))}} : i \in DOMAIN present}

Recommended(db, present) ==
    {e.target : e \in {f \in UNION {FillEdgesOf(db, present[i]) : i \in DOMAIN present} :
        f.kind = "recommends" /\ Ships(db, present, f.target) = 0 /\ ~IsLoaderDep(f.target)}}

\* One row per target, in order, with the window of the first that asks.
MissingTargets(unmet) ==
    LET asked == Picked(Selectors, {i \in DOMAIN Selectors : \E x \in unmet : x[2].target = Selectors[i]})
        first(t) == CHOOSE x \in unmet : x[2].target = t /\ \A y \in unmet : y[2].target = t => x[1] <= y[1]
    IN  [i \in DOMAIN asked |-> Target(asked[i], first(asked[i])[2].range, None)]

\* requires are <<requirer, required>> filenames.
FillPlanOf(db, placed, present, demands) ==
    [missing |-> MissingTargets({x \in demands : /\ Ships(db, present, x[2].target) = 0
                    /\ ~(x[2].target[1] = "modrinth" /\ x[2].target[2] \in placed.pinned)}),
     requires |-> {<<present[x[1]].file, present[Ships(db, present, x[2].target)].file>> :
                     x \in {y \in demands : Ships(db, present, y[2].target) # 0}},
     suggested |-> Recommended(db, present)]

FillPlan(db, placed, loader) ==
    FillPlanOf(db, placed, placed.present,
               Demands(db, placed.present,
                       LoaderProvidedCapabilities(loader) \cup BridgedApiProvided(db, placed.present)))

DependencyFillPlan(db, cfg) == FillPlan(db, PlaceMods(db, cfg), cfg.loader)

-----------------------------------------------------------------------------
(* depfill.rs *)

Pins(rows) == {i \in DOMAIN rows : rows[i].source[1] = "modrinth"}

\* What a version says it needs: required, and naming a project other than
\* its own.
Required(d) ==
    LET deps == MrVersions[d.source[3]].deps
    IN  Picked(deps, {i \in DOMAIN deps : deps[i].type = "required" /\ deps[i].project \notin {None, d.source[2]}})

Said(d) ==
    LET deps == Required(d)
    IN  [i \in DOMAIN deps |-> [by |-> d.file, project |-> deps[i].project, version |-> deps[i].version]]

\* c = [db, rows]: what the pins no harvest has read say of themselves.
SayStep(c, said, k) ==
    IF /\ c.rows[k].source[1] = "modrinth" /\ ShaOfModrinthVersion(c.db, c.rows[k].source[3]) = None
       /\ c.rows[k].source[3] \in DOMAIN MrVersions
    THEN said \o Said(c.rows[k])
    ELSE said

WireDeps(db, rows, up) ==
    IF "pins" \notin up THEN <<>> ELSE Loop(SayStep, [db |-> db, rows |-> rows], <<>>, Len(rows))

OfProject(p) == <<"modrinth", p, "">>

\* A project the pack pins is an edge; another is missing, once.
MergeWireDeps(plan, db, rows, up) ==
    LET deps == WireDeps(db, rows, up)
        pinned(p) == {i \in Pins(rows) : rows[i].source[2] = p}
        new == Picked(deps, {k \in DOMAIN deps :
                   /\ pinned(deps[k].project) = {}
                   /\ \A i \in DOMAIN plan.missing : plan.missing[i].target # OfProject(deps[k].project)
                   /\ \A j \in 1..(k - 1) : deps[j].project # deps[k].project})
    IN  [missing |-> plan.missing \o
             [i \in DOMAIN new |-> Target(OfProject(new[i].project), None, new[i].version)],
         requires |-> plan.requires \cup
             {<<d.by, rows[Least(pinned(d.project))].file>> : d \in {x \in Range(deps) : pinned(x.project) # {}}},
         suggested |-> plan.suggested]

Usable(v) == (\E l \in MrVersions[v].loaders : Fold(l) = Fold(Loader.name)) /\ MrVersions[v].file # None

Row(file, source) ==
    [file |-> file, on |-> TRUE, source |-> source, requires |-> {}, pulled |-> TRUE]

PulledFromVersion(project, v) == Row(MrVersions[v].file, <<"modrinth", project, v>>)

NewestOf(db, fits) ==
    CHOOSE s \in fits : \A r \in fits :
        \/ Collate[db.files[r].version] < Collate[db.files[s].version]
        \/ /\ Collate[db.files[r].version] = Collate[db.files[s].version]
           /\ db.files[r].n <= db.files[s].n

\* Without a stored name it takes the bare modid's.
PulledFromCache(db, t, newest) ==
    Row(Coalesce(db.files[newest].filename, NamedAfter[IF t[1] = "modid" THEN t[2] ELSE newest]),
        <<"cache", newest>>)

\* A cached artifact the pack can load and the window does not plainly exclude.
FitsPack(db, s, range, cfg) ==
    /\ \E t \in db.files[s].targets : t = "any" \/ Fold(t) \in LoaderChain(cfg.loader)
    /\ db.files[s].mc = {} \/ cfg.mc \in db.files[s].mc
    /\ range # None => InRange(Parts[db.files[s].version], range) # FALSE

PickCached(db, t, fits) == IF fits = {} THEN None ELSE PulledFromCache(db, t, NewestOf(db, fits))

\* The newest of them.
ResolveFromCache(db, target, cfg, jars) ==
    PickCached(db, target.target,
        {s \in VersionsOfMod(db, ModIdForSelector(db, target.target)) \cap jars :
            FitsPack(db, s, target.range, cfg)})

\* The newest build Modrinth lists that the pack can load.
NewestUsable(project) ==
    LET listed == IF project \in DOMAIN MrListing THEN SelectSeq(MrListing[project], Usable) ELSE <<>>
    IN  IF listed = <<>> THEN None ELSE PulledFromVersion(project, listed[1])

ProjectOf(db, t) ==
    IF t[1] = "modrinth" THEN t[2]
    ELSE LET m == ModIdForSelector(db, t) IN IF m = None THEN None ELSE ModrinthIdForMod(db, m)

\* A pinned version is honoured when it answers and is usable.  A listing
\* that fails ends the search: the cache answers only for what Modrinth
\* says it cannot provide.
PickUpstream(project, pin, fallback, up) ==
    IF project = None THEN fallback
    ELSE IF pin # None /\ "version" \in up /\ pin \in DOMAIN MrVersions /\ Usable(pin)
    THEN PulledFromVersion(project, pin)
    ELSE IF "listing" \notin up THEN None
    ELSE Coalesce(NewestUsable(project), fallback)

ResolveTarget(db, target, cfg, jars, up) ==
    IF target.target[1] = "external" THEN None
    ELSE PickUpstream(ProjectOf(db, target.target), target.pin, ResolveFromCache(db, target, cfg, jars), up)

\* A re-pin is still the same dependency.
SourceIdentity(source) == <<source[1], source[2]>>

AlreadyPresent(rows, d) ==
    \E i \in DOMAIN rows : rows[i].file = d.file \/ SourceIdentity(rows[i].source) = SourceIdentity(d.source)

Plan(db, rows, up) == MergeWireDeps(DependencyFillPlan(db, ConfigOf(rows)), db, rows, up)

Added(rows, d) == IF d = None \/ AlreadyPresent(rows, d) THEN rows ELSE Append(rows, d)

\* One target after another; one that cannot be resolved costs the others nothing.
AddStep(c, rows, k) ==
    Added(rows, ResolveTarget(c.db, c.missing[k], ConfigOf(rows), c.jars, c.up))

FillPass(db, rows, jars, up) ==
    LET missing == Plan(db, rows, up).missing
    IN  Loop(AddStep, [db |-> db, missing |-> missing, jars |-> jars, up |-> up], rows, Len(missing))

ApplyRequires(rows, requires) ==
    [i \in DOMAIN rows |-> [rows[i] EXCEPT !.requires = {e[2] : e \in {f \in requires : f[1] = rows[i].file}}]]

\* Everything reached from start, one step after another: the least set that
\* holds it and all it steps to.
Reach(all, start, StepsTo(_)) ==
    LET closed == {S \in SUBSET all : start \subseteq S /\ \A f \in S : StepsTo(f) \cap all \subseteq S}
    IN  {f \in all : \A S \in closed : f \in S}

Files(rows) == {rows[i].file : i \in DOMAIN rows}

\* What the curator's rows reach through the recorded hard edges.
Reached(rows) ==
    LET needs(f) == UNION {rows[i].requires : i \in {j \in DOMAIN rows : rows[j].file = f}}
    IN  Reach(Files(rows), {rows[i].file : i \in {j \in DOMAIN rows : ~rows[j].pulled}}, needs)

PruneOrphanedPulled(rows) ==
    LET reached == Reached(rows)
    IN  Picked(rows, {i \in DOMAIN rows : ~rows[i].pulled \/ rows[i].file \in reached})

Recorded(db, full, up) == PruneOrphanedPulled(ApplyRequires(full, Plan(db, full, up).requires))

\* A mutant: the loop ends after its first pass.
FillOnce(db, rows, jars, up) ==
    Recorded(db, FillPass(db, rows, jars, up), up)

\* A pass that adds nothing ends the loop: the passes after it add nothing either.
PassStep(c, rows, k) == FillPass(c.db, rows, c.jars, c.up)

FillDependencies(db, rows, jars, up) ==
    Recorded(db, Loop(PassStep, [db |-> db, jars |-> jars, up |-> up], rows, MaxPasses), up)

\* A mutant: a save takes the body as it came.
MergeNothingPulled(saved, body) == body

MergePulled(saved, body) ==
    body \o Picked(saved, {i \in DOMAIN saved : saved[i].pulled /\ ~AlreadyPresent(body, saved[i])})

\* What a save would add, and which of the filled pack's rows the registry
\* knows to need each.
PreviewOf(rows, filled, requires) ==
    {[file |-> d.file, from |-> d.source[1], by |-> {e[1] : e \in {f \in requires : f[2] = d.file}}] :
        d \in {x \in Range(filled) :
            \A k \in DOMAIN rows : SourceIdentity(rows[k].source) # SourceIdentity(x.source)}}

PreviewFilled(db, rows, filled) == PreviewOf(rows, filled, DependencyFillPlan(db, ConfigOf(filled)).requires)

PreviewFill(db, rows, jars, up) == PreviewFilled(db, rows, FillDependencies(db, rows, jars, up))

-----------------------------------------------------------------------------
(* loaderreq.rs: the windows jars declare on the loader *)

ArtifactKey(source) ==
    CASE source[1] = "cache" -> source[2] [] source[1] = "modrinth" -> source[3] [] OTHER -> None

\* A mutant: a jar that could not be read is recorded as demanding nothing.
ReadOrSilent(keys, jars, up) ==
    [k \in keys |-> IF k \in jars \/ "pins" \in up THEN JarWindows[k] ELSE {}]

\* A cached jar is read off the disk, a pin over the network; one that cannot
\* be read is left out, not recorded as silent.
ReadArtifacts(keys, jars, up) ==
    [k \in {j \in keys \cap DOMAIN JarWindows : j \in jars \/ (j \in DOMAIN MrVersions /\ MrVersions[j].file # None
                                                                /\ "pins" \in up)} |-> JarWindows[k]]

KeysOfRows(rows) == {ArtifactKey(rows[i].source) : i \in DOMAIN rows} \ {None}

\* Known rows first, the misses read and remembered.
LoaderWindows(rows, jars, up) ==
    LET keys == KeysOfRows(rows)
        read == ReadArtifacts(keys \ DOMAIN windows, jars, up)
    IN  [k \in DOMAIN windows \cup DOMAIN read |-> IF k \in DOMAIN windows THEN windows[k] ELSE read[k]]

\* The windows the report judges, by source.
KnownFor(rows, known) ==
    [s \in {rows[i].source : i \in {j \in DOMAIN rows : ArtifactKey(rows[j].source) \in DOMAIN known}} |->
        known[ArtifactKey(s)]]

-----------------------------------------------------------------------------
(* sources.rs and build.rs: resolving and deriving *)

\* A mutant: the registry never stands in for the network.
ResolveModUpstream(db, d, jars, up) ==
    CASE d.source[1] = "modrinth" ->
            IF "version" \in up /\ d.source[3] \in DOMAIN MrVersions THEN MrVersions[d.source[3]].sha ELSE None
      [] d.source[1] = "cache" -> IF d.source[2] \in jars THEN d.source[2] ELSE None
      [] OTHER -> None

\* The content hash a declared row ships, or None: a pin is asked of Modrinth
\* first and of the registry when it does not answer; a static mod is refused.
ResolveMod(db, d, jars, up) ==
    CASE d.source[1] = "modrinth" ->
            IF "version" \in up /\ d.source[3] \in DOMAIN MrVersions
            THEN IF MrVersions[d.source[3]].file = None THEN None ELSE MrVersions[d.source[3]].sha
            ELSE ShaOfModrinthVersion(db, d.source[3])
      [] d.source[1] = "cache" -> IF d.source[2] \in jars THEN d.source[2] ELSE None
      [] OTHER -> None

ClassIn(class, f) ==
    IF f \in DOMAIN class THEN class[f]
    ELSE [by |-> None, side |-> None, policy |-> None, confidence |-> None, optionalBoth |-> FALSE]

NonMod(class, f) == ClassIn(class, f).by = "jar-kind"

\* A mutant: a hard edge locks whatever it names.
LockableAlways(class, f) == TRUE

\* The content hash an asset ships, or None: nothing stands in for Modrinth
\* here, a static file is read off the disk and a cached jar is refused.
ResolveAsset(source, up) ==
    CASE source[1] = "modrinth" ->
            IF "version" \in up /\ source[3] \in DOMAIN MrVersions THEN MrVersions[source[3]].sha ELSE None
      [] source[1] = "static" -> IF source[2] \in DOMAIN Statics THEN Statics[source[2]] ELSE None
      [] OTHER -> None

\* A hard edge into a mod that is optional on both sides, or confidently
\* client-side, never locks it.
Lockable(class, f) ==
    /\ ~ClassIn(class, f).optionalBoth
    /\ ClassIn(class, f).side = "client" => ClientVerdictIsSoft(ClassIn(class, f))

\* A mutant: the walk stops at the direct dependencies.
DeriveDirect(entries, class) ==
    LET on(f) == entries[f].on /\ ClassIn(class, f).side # "server"
        locked == UNION {{g \in entries[f].requires \cap DOMAIN entries : Lockable(class, g)} :
                           f \in {h \in DOMAIN entries : on(h)}}
        required == {f \in locked : ClassIn(class, f).side # "server" /\ ~NonMod(class, f)}
    IN  [mods |-> [f \in DOMAIN entries |->
                     [sha |-> entries[f].sha, on |-> entries[f].on, requires |-> entries[f].requires,
                      required |-> f \in required, presence |-> None]],
         ok |-> TRUE]

\* What a manifest says of a jar's side.
Presence(class, f, required) ==
    CASE NonMod(class, f) -> "coremod"
      [] ClassIn(class, f).side = "client" /\ ~required -> "optional_client"
      [] ClassIn(class, f).side = "server" -> "optional_server"
      [] required -> "required"
      [] ClassIn(class, f).side = "both" -> "optional_both"
      [] OTHER -> None

WithVerdicts(entries, class, required) ==
    [mods |-> [f \in DOMAIN entries |->
                 [sha |-> entries[f].sha, on |-> entries[f].on /\ ClassIn(class, f).side # "server",
                  requires |-> entries[f].requires, required |-> f \in required,
                  presence |-> Presence(class, f, f \in required)]],
     ok |-> \A f \in required : ClassIn(class, f).side = "client" => ClientVerdictIsSoft(ClassIn(class, f))]

\* entries: filename -> [sha, on, requires].  The set the launcher must
\* install; a client mod left in it by anything but the soft verdict fails
\* the build.
DeriveRequired(entries, class) ==
    LET on(f) == entries[f].on /\ ClassIn(class, f).side # "server"
        deps(f) == {g \in entries[f].requires \cap DOMAIN entries : Lockable(class, g)}
        seed == {f \in DOMAIN entries : on(f) /\ ~NonMod(class, f) /\ ClassIn(class, f).policy = "must_match"}
        start == seed \cup UNION {deps(f) : f \in {g \in DOMAIN entries : on(g) \/ g \in seed}}
    IN  WithVerdicts(entries, class,
            {f \in Reach(DOMAIN entries, start, deps) : ClassIn(class, f).side # "server" /\ ~NonMod(class, f)})

\* What lands in an instance, whatever order or label it had.
ContentFingerprint(entries, placed) ==
    {<<f, entries[f].sha, entries[f].required, entries[f].on>> : f \in DOMAIN entries}
        \cup {<<a, placed[a]>> : a \in DOMAIN placed}

ExistingVersions == DOMAIN builds

\* One past the highest number still published.
NextAutoVersion(existing) == IF existing = {} THEN 0 ELSE 1 + Largest(existing)

\* The backstop of the derivation fails the build.
Derived(d, placed) ==
    IF ~d.ok THEN [end |-> "backstop"]
    ELSE [end |-> "built", mods |-> d.mods, assets |-> placed, fingerprint |-> ContentFingerprint(d.mods, placed)]

\* Every source is tried before the build gives up.
BuildManifest(db, rows, extras, jars, up) ==
    LET entries == [d \in Range(rows) |-> [sha |-> ResolveMod(db, d, jars, up), on |-> d.on, requires |-> d.requires]]
        placed == [a \in DOMAIN extras |-> ResolveAsset(extras[a], up)]
    IN  IF (\E d \in DOMAIN entries : entries[d].sha = None) \/ (\E a \in DOMAIN placed : placed[a] = None)
        THEN [end |-> "sources"]
        ELSE Derived(DeriveRequired([f \in {d.file : d \in DOMAIN entries} |->
                                       entries[CHOOSE d \in DOMAIN entries : d.file = f]],
                                    ClassifyPack(db, ConfigOf(rows))), placed)

-----------------------------------------------------------------------------
(* The handlers *)

NoSave == [body |-> <<>>, up |-> {}, filled |-> FALSE]

Init ==
    /\ mods = <<>> /\ assets = <<>> /\ stage = 1 /\ windows = <<>> /\ cached = Jars /\ builds = <<>>
    /\ last = NoSave /\ job = "none" /\ used = [saves |-> 0, builds |-> 0]

\* duplicate_declaration
Distinct(rows) ==
    \A i, j \in DOMAIN rows : i # j =>
        rows[i].file # rows[j].file /\ SourceIdentity(rows[i].source) # SourceIdentity(rows[j].source)

\* A client sends some of the rows it last read, maybe with new ones.
Bodies ==
    LET kept == {Picked(mods, at) : at \in SUBSET DOMAIN mods}
    IN  kept \cup {Append(rows, c) : rows \in kept, c \in Catalogue}

\* put_pack_config and the document's save: merge, fill when the declared
\* rows moved, store.  The assets are the body's.
Save(body, extras, up) ==
    LET merged == MergePulled(mods, body)
    IN  /\ used.saves < MaxSaves
        /\ Apart => body = mods \/ extras = assets
        /\ Distinct(body)
        /\ mods' = IF merged = mods THEN mods ELSE FillDependencies(Db, merged, cached, up)
        /\ assets' = extras
        /\ last' = [body |-> body, up |-> up, filled |-> merged # mods]
        /\ used' = [used EXCEPT !.saves = @ + 1]
        /\ UNCHANGED <<stage, windows, cached, builds, job>>

Conclude(checks, built, override) ==
    IF checks.blocking # {} /\ ~override
    THEN job' = "refused" /\ UNCHANGED builds
    ELSE /\ job' = built.end
         /\ builds' = IF built.end # "built" THEN builds
                      ELSE Put(builds, NextAutoVersion(ExistingVersions),
                               [mods |-> built.mods, assets |-> built.assets, print |-> built.fingerprint,
                                checks |-> checks, class |-> ClassifyPack(Db, ConfigOf(mods))])

\* The gate reads the report with the windows; a blocking line stops the
\* build unless the caller publishes over it.
Build(up, override) ==
    LET known == LoaderWindows(mods, cached, up)
    IN  /\ used.builds < MaxBuilds /\ mods # <<>>
        /\ windows' = known
        /\ Conclude(Check(ResolvePack(Db, ConfigOf(mods), KnownFor(mods, known))),
                    BuildManifest(Db, mods, assets, cached, up), override)
        /\ used' = [used EXCEPT !.builds = @ + 1]
        /\ last' = NoSave /\ UNCHANGED <<mods, assets, stage, cached>>

\* A harvest commits what it learned.
Learn ==
    /\ stage < Len(Learned)
    /\ stage' = stage + 1
    /\ last' = NoSave /\ UNCHANGED <<mods, assets, windows, cached, builds, job, used>>

\* A jar is taken down.
Evict(sha) ==
    /\ cached' = cached \ {sha}
    /\ last' = NoSave /\ UNCHANGED <<mods, assets, stage, windows, builds, job, used>>

Next ==
    \/ \E body \in Bodies, extras \in Extras, up \in Weathers : Save(body, extras, up)
    \/ \E up \in Weathers, override \in BOOLEAN : Build(up, override)
    \/ Learn
    \/ \E sha \in cached \cap Doomed : Evict(sha)

Spec == Init /\ [][Next]_vars
-----------------------------------------------------------------------------
(* Properties *)

Harvested(rows) == \A i \in Pins(rows) : ShaOfModrinthVersion(Db, rows[i].source[3]) # None

\* Whatever saves, fills, prunes and weather come, no two rows of the stored
\* config claim one file or one source, every recorded requirement names a
\* row that is there, a loader window on record is the one in the jar, and
\* the derivation's backstop never has to fire.
TypeOK ==
    /\ Distinct(mods)
    /\ \A i \in DOMAIN mods : /\ mods[i].on \in BOOLEAN /\ mods[i].pulled \in BOOLEAN
                              /\ mods[i].requires \subseteq Files(mods)
    /\ stage \in DOMAIN Learned /\ cached \subseteq Jars /\ assets \in Extras \cup {<<>>}
    /\ \A k \in DOMAIN windows : k \in DOMAIN JarWindows /\ windows[k] = JarWindows[k]
    /\ job \in {"none", "refused", "sources", "built"}

\* fill_dependencies is a fixpoint: filling what a save just stored, with the
\* same endpoints up, pulls nothing, drops nothing and records the same edges,
\* and the preview of it is empty.  And merge_pulled: a body that still declares
\* every curator row but never saw the libraries the server pulled does not
\* delete one of them, with nothing upstream answering, once the harvest has
\* read every pin.
FillStable ==
    [][used'.saves # used.saves =>
        /\ last'.filled => /\ FillDependencies(Db, mods', cached, last'.up) = mods'
                           /\ PreviewFill(Db, mods', cached, last'.up) = {}
        /\ (/\ last'.up = {} /\ Harvested(mods) /\ Harvested(last'.body)
            /\ \A i \in DOMAIN mods : ~mods[i].pulled => \E j \in DOMAIN last'.body : last'.body[j] = mods[i])
           => \A i \in DOMAIN mods : \E j \in DOMAIN mods' : SourceIdentity(mods'[j].source) = SourceIdentity(mods[i].source)]_vars

Explains(graph, placed) ==
    /\ \A m \in MissingDeps(Db, placed, Loader.name) :
          \E e \in graph.edges : e.kind = "requires" /\ e.target = m.target /\ e.to = None
    /\ \A r \in DependencyFillPlan(Db, ConfigOf(mods)).requires :
          \E e \in graph.edges, i, j \in DOMAIN placed.present :
              /\ e.from = placed.present[i].mod /\ e.to = placed.present[j].mod
              /\ placed.present[i].file = r[1] /\ placed.present[j].file = r[2]

\* derive_required: what a published manifest locks is closed under the edges
\* that may lock, and never holds a server mod, a jar that is no mod, or a
\* client mod whose verdict is firm.  The pack's graph shows why: every
\* dependency the report calls unmet dangles in it, and every requirement a
\* build would lock by is an edge of it.
RequiredSound ==
    /\ Explains(PackGraph(Db, ConfigOf(mods)), PlaceMods(Db, ConfigOf(mods)))
    /\ \A v \in DOMAIN builds :
           LET m == builds[v].mods
               class == builds[v].class
               Never(f) == NonMod(class, f) \/ ClassIn(class, f).side = "server"
           IN  \A f \in DOMAIN m :
                 /\ m[f].required => /\ ~Never(f)
                                     /\ ClassIn(class, f).side = "client" => ClassIn(class, f).confidence = "low"
                 /\ m[f].on \/ m[f].required =>
                       \A g \in m[f].requires \cap DOMAIN m :
                           \/ m[g].required \/ Never(g) \/ ClassIn(class, g).optionalBoth
                           \/ ClassIn(class, g).side = "client"

FromModrinth(extras) == {a \in DOMAIN extras : extras[a][1] = "modrinth"}

\* The bytes the registry has for a pin are the ones the version ships.
Primary(row) ==
    row.source[1] = "modrinth" /\ row.source[3] \in DOMAIN MrVersions =>
        ShaOfModrinthVersion(Db, row.source[3]) = MrVersions[row.source[3]].sha

\* The saved pack as a build makes it with these endpoints up.
BuiltIn(up) == BuildManifest(Db, mods, assets, cached, up)

\* A build made with these endpoints up, beside the one with all of them up: it
\* lacks an asset to be had from nowhere else, or lists the same mods and locks
\* the same of them, each the same file unless the harvest registered another
\* file of that version.
Withstands(out, full, up) ==
    \/ out.end = "sources" /\ "version" \notin up /\ FromModrinth(assets) # {}
    \/ /\ out.end = "built" /\ out.assets = full.assets /\ DOMAIN out.mods = DOMAIN full.mods
       /\ \A f \in DOMAIN out.mods :
            /\ out.mods[f].required = full.mods[f].required /\ out.mods[f].on = full.mods[f].on
            /\ (\A i \in DOMAIN mods : mods[i].file = f => Primary(mods[i])) => out.mods[f].sha = full.mods[f].sha

\* The same of every weather, of all the builds of one state.
StandsOutages(outs) ==
    outs[Endpoints].end = "built" => \A up \in Weathers : Withstands(outs[up], outs[Endpoints], up)

\* resolve_mod and resolve_asset: once the harvest has read every pin, a pack
\* that builds still builds with any part of Modrinth down, and to the same
\* content, but for what Withstands names.
OutageBuilds == Harvested(mods) => StandsOutages([up \in Weathers \cup {Endpoints} |-> BuiltIn(up)])

\* sources.rs says of the registry's answer: "A pack that has been built before
\* therefore keeps building through an outage (#57)".
OutageKeepsBuilding ==
    Harvested(mods) /\ BuiltIn(Endpoints).end = "built" => \A up \in Weathers : BuiltIn(up).end = "built"

\* And that it is "the same file the build would have downloaded".
FallbackIsTheFile ==
    Harvested(mods) /\ BuiltIn(Endpoints).end = "built" =>
        \A up \in Weathers : BuiltIn(up).end = "built" => BuiltIn(up).fingerprint = BuiltIn(Endpoints).fingerprint

\* fill_dependencies promises to pull "each declared mod's missing hard
\* dependencies"; what neither source can provide is left to the report.  So a
\* save with everything up leaves nothing in the report it could have pulled.
FillComplete ==
    [][used'.saves # used.saves /\ last'.filled /\ last'.up = Endpoints =>
        \A m \in MissingDeps(Db, PlaceMods(Db, ConfigOf(mods')), Loader.name) :
            LET d == ResolveTarget(Db, Target(m.target, None, None), ConfigOf(mods'), cached, Endpoints)
            IN  d = None \/ AlreadyPresent(mods', d)]_vars
=============================================================================
