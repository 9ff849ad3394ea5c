------------------------------ MODULE Harvest --------------------------------
(***************************************************************************)
(* The harvest: what it reads of the cache, the published manifests and    *)
(* Modrinth, how it reconciles that into the registry in one transaction,  *)
(* and the operators who edit the registry between its steps.  A run is    *)
(* three steps: the known sets are read (BeginHarvest), the world is       *)
(* scanned (ScanWorld), and the scan is written (WriteHarvest).  The       *)
(* scheduler never runs two at once.                                       *)
(***************************************************************************)
EXTENDS Registry

CONSTANTS
    JarBytes,       \* content hash -> what read_jar finds in the bytes
    ByHash,         \* content hash -> the Modrinth version of those bytes
    Projects,       \* project id -> [slug, title, env]
    Manifests,      \* bound: the published manifests in play
    Outcomes,       \* bound: how the Modrinth lookups of one scan may go
    Names,          \* bound: display names and slugs an operator may type
    Channels,       \* CHANNELS, the ones in play
    Budgets         \* bound: <<operator writes, changes of cache and publications, harvests, jars in play>>

\* A cache holds finitely many jars, and a manifest lists its mods.
ASSUME ScanAssumption ==
    /\ IsFiniteSet(DOMAIN JarBytes)
    /\ \A p \in DOMAIN Manifests : \A x \in Manifests[p] : x.mods \in Seq(Range(x.mods))

VARIABLES
    db,         \* the registry's tables
    cache,      \* content hashes whose jar is on disk
    latest,     \* pack -> its latest published manifest
    run,        \* the harvest in flight
    edits, world, harvests,  \* how many of each this behaviour still has, and the world's jars
    quiet       \* harvests in a row that read the whole of an unchanged world

vars == <<db, cache, latest, run, edits, world, harvests, quiet>>

NoRun == [pc |-> "idle"]
AllUp == [hashes |-> "up", projects |-> TRUE, jars |-> TRUE]
MANIFEST_DEP_RANK == 55
INTEGRATION_HOSTS == {"jei", "hwyla"}

\* A change of the world or of the tables, seen from the harvest in flight.
Disturb == quiet' = 0 /\ run' = IF run = NoRun THEN run ELSE [run EXCEPT !.still = FALSE]

At(f, k, default) == IF k \in DOMAIN f THEN f[k] ELSE default

-----------------------------------------------------------------------------
(* The scan *)

ModrinthRelKind(type) ==
    CASE type = "required" -> "requires" [] type = "optional" -> "optional_dep"
      [] type = "incompatible" -> "conflicts" [] OTHER -> None

\* A selector with its namespace and its version window dropped.
IsIntegrationHost(target) == target[2] \in INTEGRATION_HOSTS

\* A jar nobody opened: no metadata, no bytecode.
NoBytes == [modid |-> None, extra |-> {}, version |-> None, loader |-> None, mc |-> {}, name |-> None,
            requires |-> {}, declared |-> {}, owned |-> {}, hard |-> {}, opt |-> {}, classes |-> {},
            needs |-> {}, class |-> None, windows |-> None, needsRt |-> {}, providesRt |-> {}]

NoVersion == [project |-> None, id |-> None, version |-> None, loaders |-> {}, mc |-> {}, channel |-> None,
              deps |-> {}]

\* One jar as the seed carries it: the jar's own word first for identity,
\* name and version, Modrinth's for loaders and Minecraft versions, and the
\* project a manifest names when the hash is unknown upstream.
SeedOf(sha, opened, mrv, named, projects, learned, filename) ==
    LET jar == IF opened THEN JarBytes[sha] ELSE NoBytes
        pid == Coalesce(mrv.project, named[1])
        project == At(projects, pid, [slug |-> None, title |-> None, env |-> None])
    IN  [sha |-> sha, modid |-> Coalesce(jar.modid, learned), extra |-> jar.extra,
         version |-> Coalesce(Coalesce(jar.version, mrv.version), "unknown"), project |-> pid,
         loaders |-> IF mrv.loaders # {} THEN mrv.loaders ELSE {jar.loader} \ {None},
         mc |-> IF mrv.mc # {} THEN mrv.mc ELSE jar.mc, requires |-> jar.requires, filename |-> filename,
         name |-> Coalesce(jar.name, project.title), slug |-> project.slug,
         mrv |-> Coalesce(mrv.id, named[2]), channel |-> Coalesce(mrv.channel, "unknown"),
         owned |-> jar.owned, classes |-> jar.classes, needs |-> jar.needs, hard |-> jar.hard,
         opt |-> jar.opt, class |-> jar.class, mdeps |-> mrv.deps, windows |-> jar.windows,
         declared |-> jar.declared, needsRt |-> jar.needsRt, providesRt |-> jar.providesRt]

ModsOf(manifest) == {manifest.mods[i] : i \in DOMAIN manifest.mods}

\* incompatible_with names a file of the same manifest.
ConflictsOf(manifest) ==
    {<<q[1].sha, q[2].sha>> : q \in {p \in ModsOf(manifest) \X ModsOf(manifest) : p[2].file \in p[1].bad}}

\* What the latest manifests ship, and every hash worth asking about.
Published == UNION {ModsOf(latest[p]) : p \in DOMAIN latest}
KnownShas == cache \cup {m.sha : m \in Published}

\* The project a manifest itself names, for bytes Modrinth does not know.
NamedBy(s) ==
    LET ms == {m \in Published : m.sha = s /\ m.modrinth # None}
    IN  IF ms = {} THEN <<None, None>> ELSE (CHOOSE m \in ms : TRUE).modrinth

FilenameOf(s) ==
    LET ms == {m \in Published : m.sha = s} IN IF ms = {} THEN None ELSE (CHOOSE m \in ms : TRUE).file

\* up is how the lookups went: [hashes |-> "up" | "down", projects, jars |->
\* BOOLEAN]; a leg that fails is empty and the rest of the scan goes on.
Identified(up) == IF up.hashes = "up" THEN [s \in KnownShas \cap DOMAIN ByHash |-> ByHash[s]] ELSE <<>>

\* No match at all to a question that had hashes counts as no answer.
LegOk(up) == up.hashes = "up" /\ (Identified(up) # <<>> \/ KnownShas = {})

WantedProjects(hashed, envless) ==
    {hashed[s].project : s \in DOMAIN hashed} \cup {NamedBy(s)[1] : s \in KnownShas} \cup envless

DepProjects(hashed, known) == {d.project : d \in UNION {hashed[s].deps : s \in DOMAIN hashed}} \ known

\* The modid of a re-upload nobody cached, fetched once per project.
LearnedModid(s, hashed, modids, up) ==
    IF s \in DOMAIN hashed \ cache /\ up.jars /\ hashed[s].project \notin modids
    THEN JarBytes[s].modid ELSE None

Scan(known, up) ==
    LET hashed == Identified(up)
        fetched(P) == IF up.projects THEN [p \in P \cap DOMAIN Projects |-> Projects[p]] ELSE <<>>
        projects == fetched(WantedProjects(hashed, known.envless))
        deps == fetched(DepProjects(hashed, known.projects))
    IN  [jars |-> [s \in KnownShas |->
                    SeedOf(s, s \in cache, At(hashed, s, NoVersion), NamedBy(s), projects,
                           LearnedModid(s, hashed, known.modids, up), FilenameOf(s))],
         packs |-> latest,
         slugs |-> [p \in {q \in DOMAIN deps : deps[q].slug # None} |-> deps[p].slug],
         envs |-> [p \in {q \in DOMAIN projects \cup DOMAIN deps : Projects[q].env # None} |-> Projects[p].env],
         legOk |-> LegOk(up)]

-----------------------------------------------------------------------------
(* write_scan: the reconciliation, in one transaction *)

\* A mutant: the Modrinth layer is rewritten whether or not it answered.
WipeAllDerived(d, legOk) ==
    [d EXCEPT !.packages = {}, !.rels = {r \in @ : r.source \notin {"inferred", "modrinth"}}]

\* The Modrinth layer goes only when Modrinth answered.
WipeDerived(d, legOk) ==
    [d EXCEPT !.packages = {},
              !.rels = {r \in @ : r.source # "inferred" /\ ~(legOk /\ r.source = "modrinth")}]

AliasesOf(jar) ==
    ({<<"modid", m>> : m \in {jar.modid} \cup jar.extra} \cup {<<"modrinth", jar.project>>})
      \ {<<"modid", None>>, <<"modrinth", None>>}

\* Modrinth's list is authoritative when it is not empty.
IsModrinth(jar) == jar.project # None /\ jar.mdeps # {}

\* What the jar says of itself: manifest first, it keeps the dedupe slot.
JarRelations(d, m, n, jar) ==
    LET clean == [d EXCEPT !.rels = {r \in @ : ~(r.file = n /\ r.source = "jar-meta")}]
        declared == {Relation(m, n, x.target, x.range, x.kind, x.severity, "jar-meta", MANIFEST_DEP_RANK) :
                       x \in jar.declared}
        required == {Sourced(m, n, <<"modid", k, "">>, None, "requires", None, "jar-meta") : k \in jar.requires}
    IN  IF IsModrinth(jar) THEN clean
        ELSE UpsertRelationRanked(UpsertRelationRanked(clean, declared), required)

\* The capabilities it brings or needs: a loader it bridges, a language.
Capabilities(d, m, n, jar) ==
    UpsertRelationRanked(d,
        {Sourced(m, n, <<"loader", Bridges[p], "">>, None, "provides", None, "harvested") :
            p \in {jar.project} \cap DOMAIN Bridges}
        \cup {Sourced(m, n, <<"runtime", l, "">>, None, "provides", None, "inferred") : l \in jar.providesRt}
        \cup {Sourced(m, n, <<"runtime", l, "">>, None, "requires", None, "inferred") : l \in jar.needsRt})

SeverityOf(dep) == IF dep.type = "incompatible" THEN "hard" ELSE None

\* Dependencies on a project; the ones on a bare file wait for the end.
ModrinthRelations(d, m, n, jar) ==
    UpsertRelationRanked(d,
        {Sourced(m, n, <<"modrinth", x.project, "">>, x.version, ModrinthRelKind(x.type), SeverityOf(x), "modrinth") :
            x \in {y \in jar.mdeps : y.project \notin {None, jar.project} /\ ModrinthRelKind(y.type) # None}})

FileDepsOf(jar) ==
    {x \in jar.mdeps : jar.project # None /\ x.project = None /\ ModrinthRelKind(x.type) # None}

Derives(jar) == ~IsModrinth(jar) /\ jar.declared = {} /\ jar.hard \cup jar.opt # {}

\* The artifact's row and its release, and what the scan read of the bytes.
FileJar(d, m, jar) ==
    SetHarvestedRelease(
        SetModVersionModrinth(UpsertModVersion(SetModMeta(d, m, jar.name, jar.slug), m, jar.sha, jar),
                              jar.sha, jar.mrv),
        jar.sha, m, jar.version, jar.channel)

KeepClasses(d, jar) ==
    IF jar.classes = {} THEN d ELSE SetMixinNeeds(SetClassDigest(d, jar.sha, jar.classes), jar.sha, jar.needs)

KeepWindows(d, jar) ==
    IF jar.windows = None THEN d ELSE SetArtifactLoaderReqs(d, jar.sha, jar.windows)

\* Its edges; st carries what waits for a later pass.
RelateJar(st, d, m, n, jar) ==
    [db |-> ModrinthRelations(Capabilities(SetModPackages(JarRelations(d, m, n, jar), m, jar.owned),
                                           m, n, jar), m, n, jar),
     derived |-> st.derived \cup (IF Derives(jar) THEN {<<m, n, jar>>} ELSE {}),
     files |-> st.files \cup {<<m, n, x>> : x \in FileDepsOf(jar)}]

PlaceJar(st, d, m, jar) == RelateJar(st, KeepWindows(KeepClasses(d, jar), jar), m, d.files[jar.sha].n, jar)

IdentifyJar(st, at, jar) == PlaceJar(st, FileJar(at.db, at.id, jar), at.id, jar)

ClassifyJar(d, jar) == IF jar.class = None THEN d ELSE SetJarClass(d, jar.sha, jar.class)

\* One jar: its readout and class whoever it is; its identity, file, release
\* and edges when it has an alias.
RegisterJar(st, jar) ==
    LET classed == ClassifyJar(SetJarRead(st.db, jar.sha, jar.modid, jar.filename), jar)
    IN  IF AliasesOf(jar) = {} THEN [st EXCEPT !.db = classed]
        ELSE IdentifyJar(st, UpsertModByAlias(classed, AliasesOf(jar)), jar)

\* The owner's modid, else its project; nothing for oneself or for a prefix
\* several mods share.
ResolveEdgeTarget(d, prefix, from) ==
    LET owner == OwnerModForPrefix(d, prefix)
    IN  IF owner \in {None, from} THEN None
        ELSE IF ModidForMod(d, owner) # None THEN <<"modid", ModidForMod(d, owner), "">>
        ELSE IF ModrinthIdForMod(d, owner) # None THEN <<"modrinth", ModrinthIdForMod(d, owner), "">>
        ELSE None

\* Hard references first; one to an integration host is only optional, and
\* a hard one silences the same artifact's soft one.
InferEdges(d, derived) ==
    LET targets(refs, m) == {ResolveEdgeTarget(d, p, m) : p \in refs} \ {None}
        hard(x) == {t \in targets(x[3].hard, x[1]) : ~IsIntegrationHost(t)}
        soft(x) == (targets(x[3].hard, x[1]) \cup targets(x[3].opt, x[1])) \ hard(x)
        edges(x, T, kind) == {Sourced(x[1], x[2], t, None, kind, None, "inferred") : t \in T}
    IN  UpsertRelationRanked(d, UNION {edges(x, hard(x), "requires") \cup edges(x, soft(x), "optional_dep") :
                                        x \in derived})

\* The build, its links and its curator conflicts, both ways and about the
\* mods.  The other mod is named by the modid this scan read, not the table's.
RecordBuilds(d, scan) ==
    LET shipped(p) == {x \in ModsOf(scan.packs[p]) : x.sha \in DOMAIN d.files}
        links(p) == {<<p, scan.packs[p].version, d.files[x.sha].n>> : x \in shipped(p)}
        named == {s \in DOMAIN scan.jars : scan.jars[s].modid # None}
        against == UNION {ConflictsOf(scan.packs[p]) : p \in DOMAIN scan.packs}
        known == {c \in against \cup {<<c[2], c[1]>> : c \in against} : c[1] \in DOMAIN d.files /\ c[2] \in named}
    IN  UpsertRelationRanked(
            LinkBuildMod(UpsertPackBuild(d, {<<p, scan.packs[p].version>> : p \in DOMAIN scan.packs}),
                         UNION {links(p) : p \in DOMAIN scan.packs}),
            {Sourced(ModIdForSha1(d, c[1]), None, <<"modid", scan.jars[c[2]].modid, "">>, None,
                     "conflicts", "hard", "curator") : c \in known})

\* A row already folded is passed over.
SplitStep(c, d, k) ==
    IF {c[k][1], c[k][2]} \subseteq DOMAIN d.mods THEN MergeCollidedMods(d, {c[k][1], c[k][2]}).db ELSE d

\* A Modrinth mod whose slug is another mod's modid is that mod.  The pairs
\* are read once.
ReconcileSplits(d) ==
    LET Split(a, b) == /\ a[1] = "modid" /\ d.mods[b].slug # None /\ KeysOf(d, "modrinth", b) # {}
                       /\ Fold(a[2]) = Fold(d.mods[b].slug) /\ d.alias[a] # b
        pairs == {<<d.alias[x[1]], x[2]>> :
                    x \in {y \in (DOMAIN d.alias) \X (DOMAIN d.mods) : Split(y[1], y[2])}}
    IN  Loop(SplitStep, SetToSeq(pairs), d, Len(SetToSeq(pairs)))

\* A project nobody owns whose slug is some mod's modid belongs to that mod.
SelfHostLinks(d, slugs) ==
    LET host(p) == ModIdForSelector(d, <<"modid", slugs[p], "">>)
        linked == {p \in DOMAIN slugs : ModIdForAlias(d, "modrinth", p) = None /\ host(p) # None}
    IN  [d EXCEPT !.alias = [a \in DOMAIN @ \cup {<<"modrinth", p>> : p \in linked} |->
                               IF a \in DOMAIN @ THEN @[a] ELSE host(a[2])]]

\* By the file's exact name, else by its stem as a modid, else out of reach.
ExternalDepSelector(d, x) ==
    LET owner == ModIdForFilename(d, x.file)
        stem == <<"modid", x.stem, "">>
    IN  IF owner # None /\ ModidForMod(d, owner) # None THEN <<"modid", ModidForMod(d, owner), "">>
        ELSE IF owner # None /\ ModrinthIdForMod(d, owner) # None
        THEN <<"modrinth", ModrinthIdForMod(d, owner), "">>
        ELSE IF ModIdForSelector(d, stem) # None THEN stem ELSE <<"external", x.file, "">>

\* From the mod id each jar had when it was registered.
ExternalDeps(d, waiting) ==
    UpsertRelationRanked(d,
        {Sourced(w[1], w[2], ExternalDepSelector(d, w[3]), None, ModrinthRelKind(w[3].type), SeverityOf(w[3]),
              "modrinth") : w \in waiting})

\* The flags of a mod of several projects are those of one of them.
EnvFlags(d, envs) ==
    LET projects(m) == {p \in DOMAIN envs : ModIdForAlias(d, "modrinth", p) = m}
    IN  SetModEnvFlags(d, [m \in {n \in DOMAIN d.mods : projects(n) # {}} |-> envs[CHOOSE p \in projects(m) : TRUE]])

\* What follows the jars, in the order that matters: edges may point at any
\* of them, and a fold comes after every row that could collide.
FinishScan(st, scan) ==
    PruneEmptyReleases(EnvFlags(ExternalDeps(
        SelfHostLinks(ReconcileSplits(RecordBuilds(InferEdges(st.db, st.derived), scan)), scan.slugs),
        st.files), scan.envs))

JarStep(c, st, k) == RegisterJar(st, c.jars[c.order[k]])

\* order is the order the hash set yields the jars in.
WriteScan(d, scan, order) ==
    FinishScan(Loop(JarStep, [jars |-> scan.jars, order |-> order],
                    [db |-> WipeDerived(d, scan.legOk), derived |-> {}, files |-> {}], Len(order)), scan)

-----------------------------------------------------------------------------
(* Steps *)

Init ==
    /\ db = EmptyDb /\ cache = {} /\ latest = <<>> /\ run = NoRun
    /\ quiet = 0
    /\ \E b \in Budgets : edits = b[1] /\ world = [left |-> b[2], jars |-> b[4]] /\ harvests = b[3]

Spend == world.left > 0 /\ world' = [world EXCEPT !.left = @ - 1]

CacheJar(sha) ==
    /\ Spend /\ sha \in world.jars \ cache
    /\ cache' = cache \cup {sha} /\ Disturb
    /\ UNCHANGED <<db, latest, edits, harvests>>

EvictJar(sha) ==
    /\ Spend /\ sha \in cache
    /\ cache' = cache \ {sha} /\ Disturb
    /\ UNCHANGED <<db, latest, edits, harvests>>

Publish(p, manifest) ==
    /\ Spend /\ At(latest, p, None) # manifest
    /\ {m.sha : m \in Range(manifest.mods)} \subseteq world.jars
    /\ latest' = Put(latest, p, manifest) /\ Disturb
    /\ UNCHANGED <<db, cache, edits, harvests>>

\* run_harvest reads what it already knows, then leaves the registry alone
\* until it writes.
BeginHarvest ==
    /\ run = NoRun /\ harvests > 0
    /\ run' = [pc |-> "scan", still |-> TRUE, known |-> [modids |-> ModrinthProjectsWithModid(db),
                                         projects |-> ModrinthProjectAliases(db),
                                         envless |-> ModrinthAliasesWithoutEnv(db)]]
    /\ harvests' = harvests - 1
    /\ UNCHANGED <<db, cache, latest, edits, world, quiet>>

ScanWorld(up) ==
    /\ run.pc = "scan"
    /\ run' = [pc |-> "write", still |-> run.still /\ up = AllUp, scan |-> Scan(run.known, up)]
    /\ UNCHANGED <<db, cache, latest, edits, world, harvests, quiet>>

\* A failed statement rolls the whole of it back and the harvest reports it.
Commits(d) ==
    /\ db' = IF d.ok THEN d ELSE db
    /\ quiet' = IF d.ok /\ run.still THEN quiet + 1 ELSE 0

WriteHarvest ==
    /\ run.pc = "write"
    /\ \E order \in SetToSeqs(DOMAIN run.scan.jars) :
        Commits(WriteScan(db, run.scan, order))
    /\ run' = NoRun
    /\ UNCHANGED <<cache, latest, edits, world, harvests>>

\* One authored write: with_txn keeps it or nothing of it.
Authored(write) ==
    /\ edits > 0
    /\ db' = IF write.ok THEN write ELSE db
    /\ edits' = edits - 1 /\ Disturb
    /\ UNCHANGED <<cache, latest, world, harvests>>

Modids == {a[2] : a \in {b \in DOMAIN db.alias : b[1] = "modid"}}

PostConflict == {SetConflict(db, a, b, r) : a \in Modids, b \in Modids, r \in BOOLEAN}

PostMerge == {MergeMods(db, a, b) : a \in DOMAIN db.mods, b \in DOMAIN db.mods}

PostRelation ==
    {AuthorRelation(db, m, <<"modid", k, "">>, "requires", None, r) :
        m \in DOMAIN db.mods, k \in Modids, r \in BOOLEAN}

\* Only a jar the mirror holds, onto a mod that exists or a new one.
PutFileIdentity ==
    {AuthorFileIdentity(db, s, m, "Named", "9", c, {}, {}, None) :
        s \in cache, m \in {None} \cup DOMAIN db.mods, c \in Channels}

PutFileClass ==
    {SetAuthoredJarClass(db, s, [kind |-> "mod", side |-> "both", policy |-> "must_match",
                                 confidence |-> None, source |-> "authored"], r) :
        s \in DOMAIN JarBytes \cap world.jars, r \in BOOLEAN}

PutModRename == {RenameMod(db, m, n, s) : m \in DOMAIN db.mods, n \in Names, s \in {None} \cup Names}

PutReleaseEdit == {EditRelease(db, r, None, c) : r \in DOMAIN db.releases, c \in Channels}

OperatorWrites ==
    UNION {PostConflict, PostRelation, PostMerge, PutModRename, PutReleaseEdit, PutFileIdentity, PutFileClass}

Operator == \E write \in OperatorWrites : write # db /\ Authored(write)

Next ==
    \/ \E s \in DOMAIN JarBytes : CacheJar(s) \/ EvictJar(s)
    \/ \E p \in DOMAIN Manifests : \E x \in Manifests[p] : Publish(p, x)
    \/ BeginHarvest
    \/ \E up \in Outcomes : ScanWorld(up)
    \/ WriteHarvest
    \/ Operator

Spec == Init /\ [][Next]_vars

-----------------------------------------------------------------------------
(* Properties *)

\* Aliases, files, releases, relations, packages and links never dangle, and an
\* artifact's release is one of its own mod's.
Lands(d) ==
    /\ \A a \in DOMAIN d.alias : d.alias[a] \in DOMAIN d.mods
    /\ \A r \in DOMAIN d.releases : d.releases[r].mod \in DOMAIN d.mods
    /\ \A r \in d.rels : r.from \in DOMAIN d.mods /\ (r.kind = "conflicts") = (r.severity # None)
    /\ \A p \in d.packages : p[1] \in DOMAIN d.mods
    /\ \A l \in d.links : \E s \in DOMAIN d.files : d.files[s].n = l[3]
    /\ \A s \in DOMAIN d.files :
          /\ d.files[s].mod \in DOMAIN d.mods
          /\ d.files[s].release \in DOMAIN d.releases
          /\ d.releases[d.files[s].release].mod = d.files[s].mod

\* Every reference in the tables lands on a row, though a harvest folds and
\* prunes rows in the middle of its one transaction and operators merge mods
\* and reassign jars around it.
TypeOK ==
    /\ db.ok /\ cache \subseteq DOMAIN JarBytes
    /\ run.pc \in {"idle", "scan", "write"}
    /\ Lands(db)

\* Where a row went when identities were folded: to whoever has its aliases,
\* since its own id may be another's by then.
Heir(before, after, m) ==
    LET keys == {a \in DOMAIN before.alias : before.alias[a] = m}
    IN  IF keys = {} THEN {m} ELSE {after.alias[a] : a \in keys}

\* No mod, file, relation or classification of an operator's changes from the
\* tables before to the tables after, and where Modrinth did not answer its
\* relations stay, moved along when their mod was folded.
KeepsPrecious(before, after, legOk) ==
    /\ \A m \in DOMAIN before.mods : before.mods[m].source \in Precious =>
          m \in DOMAIN after.mods /\ after.mods[m] = before.mods[m]
    /\ \A s \in DOMAIN before.files : before.files[s].source \in Precious =>
          /\ s \in DOMAIN after.files
          /\ [after.files[s] EXCEPT !.mod = 0, !.release = 0, !.digest = 0, !.needs = 0]
                = [before.files[s] EXCEPT !.mod = 0, !.release = 0, !.digest = 0, !.needs = 0]
          /\ ChannelOf(after, s) = ChannelOf(before, s)
    /\ \A r \in before.rels : r.source = "authored" =>
          \E m \in Heir(before, after, r.from) : [r EXCEPT !.from = m] \in after.rels
    /\ \A s \in DOMAIN before.jarClass : before.jarClass[s].source = "authored" =>
          s \in DOMAIN after.jarClass /\ after.jarClass[s] = before.jarClass[s]
    /\ ~legOk => \A r \in {x \in before.rels : x.source = "modrinth"} :
          \E m \in Heir(before, after, r.from), q \in after.rels :
              [r EXCEPT !.from = m, !.rank = 0] = [q EXCEPT !.rank = 0]

\* What an operator decided survives a harvest, whatever the scan found and
\* whenever the decision was made -- also between the scan and its write.  A
\* harvest whose Modrinth leg did not answer keeps the last good Modrinth
\* edges too.
PreciousKept ==
    [][run.pc = "write" /\ run'.pc = "idle" => KeepsPrecious(db, db', run.scan.legOk)]_vars

\* These aliases name one mod, unless two rows an operator vouched for stand
\* behind them.
Collapses(d, aliases) ==
    LET mods == {d.alias[a] : a \in aliases}
    IN  Cardinality(mods) <= 1 \/ Cardinality({m \in mods : d.mods[m].source \in Precious}) >= 2

\* After a harvest that committed, the aliases of any jar it scanned name one
\* mod.
IdentityCollapsed ==
    [][run.pc = "write" /\ run'.pc = "idle" /\ db' # db =>
        \A s \in DOMAIN run.scan.jars : Collapses(db', AliasesOf(run.scan.jars[s]))]_vars

Unnamed(d) == [d EXCEPT !.mods = [m \in DOMAIN @ |-> [@[m] EXCEPT !.name = None]]]

\* The harvest comes to rest: once two harvests in a row have read all of an
\* unchanged world and committed, another changes nothing but a display name
\* that two jars of one mod spell differently, in whatever order it meets them.
Settles ==
    [][quiet >= 2 /\ quiet' = quiet + 1 => Unnamed(db') = Unnamed(db)]_vars

\* Which row survives a fold does not matter: the rest of the transaction
\* still writes its edges, so a scan never fails to be written.
HarvestCommits ==
    run.pc = "write" =>
        \A order \in SetToSeqs(DOMAIN run.scan.jars) : WriteScan(db, run.scan, order).ok

ListingWalk(d, all) ==
    FoldLeft(LAMBDA seen, i : seen \o ListMods(d, None, None, IF seen = <<>> THEN None ELSE seen[Len(seen)], 1),
             <<>>, all)

\* The artifacts of the mod of `pick` eligible in a slice that share its channel.
Tied(d, can, pick) ==
    {s \in can : /\ d.files[s].mod = d.files[pick].mod
                 /\ ChannelRank(ChannelOf(d, s)) = ChannelRank(ChannelOf(d, pick))}

\* What the walk over the rows leaves of "the latest build": none of the mod's
\* eligible artifacts has a better channel, no later row beats the pick and,
\* where every version in question is readable, no row at all does.  With an
\* unreadable version among them the comparison is not transitive (SliceIsLatest).
PickStands(d, can, pick) ==
    /\ pick \in can
    /\ \A s \in can : d.files[s].mod = d.files[pick].mod =>
          ChannelRank(ChannelOf(d, s)) <= ChannelRank(ChannelOf(d, pick))
    /\ \A s \in Tied(d, can, pick) :
          \/ d.files[s].n <= d.files[pick].n
                /\ \E t \in Tied(d, can, pick) : d.files[t].version \notin DOMAIN Numbered
          \/ ~Beats(d, s, pick)

\* The artifacts a slice may pick from.
Eligible(d, w) == {s \in EligibleForLoader(d, w[2]) : w[1] \in d.files[s].mc}

\* The reads agree with one another after any history of harvests, folds and
\* edits.  file_detail answers for every hash the registry holds.  A mod has an
\* artifact in a world exactly when one is eligible there for that Minecraft
\* version, and the one picked stands (PickStands); the
\* world's graph draws only mods of that world and edges the whole graph has,
\* though a row kept from before its artifact changed owner starts elsewhere; a
\* pack said to use a mod ships one of its artifacts, and an orphan is an
\* artifact no build ships; an answer about classes comes from opened bytes;
\* following the pages of the listing one mod at a time shows each mod once.
ReadsAgree ==
    /\ \A w \in GraphSlices(db) \cup {<<x[1], p[1]>> : x \in GraphSlices(db), p \in Parents} :
        LET in == SliceArtifacts(db, w[1], w[2])
            can == Eligible(db, w)
            g == GraphForSlice(db, w[1], w[2])
        IN  /\ DOMAIN in = {db.files[s].mod : s \in can}
            /\ \A m \in DOMAIN in : db.files[in[m]].mod = m /\ PickStands(db, can, in[m])
            /\ g.nodes \subseteq DOMAIN in
            /\ \A e \in g.edges : e.to # None => \E f \in Graph(db).edges : f.to = e.to /\ f.kind = e.kind
    /\ \A m \in DOMAIN db.mods : \A p \in ModDetail(db, m).usedBy :
        \E b \in DOMAIN db.builds : b[1] = p /\ BuildMods(db, p, b[2]) \cap VersionsOfMod(db, m) # {}
    /\ OrphanJars(db) = DOMAIN db.files \ UNION {BuildMods(db, b[1], b[2]) : b \in DOMAIN db.builds}
    /\ \A s \in DOMAIN db.files :
        /\ FileDetail(db, s) # None
        /\ ArtifactHasClass(db, s, "Jei") # None => ArtifactLoaderReqs(db, s) # None
        /\ RepackCounterpart(db, s) # None =>
             ModIdForAlias(db, "modrinth", RepackCounterpart(db, s)[1]) = db.files[s].mod
    /\ LET all == ListMods(db, None, None, None, Cardinality(DOMAIN db.mods)) IN ListingWalk(db, all) = all
    /\ \A s \in DOMAIN Unassigned(db, cache) : ModIdForSha1(db, s) = None
    /\ \A b \in DOMAIN ListBuilds(db) : ListBuilds(db)[b].mods = Cardinality(BuildMods(db, b[1], b[2]))
    /\ Stats(db).orphans <= Stats(db).versions

\* "'Latest' is decided conservatively: a better channel wins first, then the
\* version where both are plainly comparable", says slice_artifacts: a mod is not
\* represented by an artifact while another of the same channel, eligible in the
\* same slice, has a version both can be read and is newer.
SliceIsLatest ==
    \A w \in GraphSlices(db) :
        LET in == SliceArtifacts(db, w[1], w[2])
        IN  \A m \in DOMAIN in, s \in Eligible(db, w) :
                /\ s \in Tied(db, Eligible(db, w), in[m])
                /\ {db.files[s].version, db.files[in[m]].version} \subseteq DOMAIN Numbered
                => Numbered[db.files[s].version] <= Numbered[db.files[in[m]].version]
=============================================================================
