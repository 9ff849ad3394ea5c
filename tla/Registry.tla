------------------------------ MODULE Registry -------------------------------
(***************************************************************************)
(* The mod registry as a value: one record of tables, every writer an      *)
(* operator from tables to tables and every query an operator on them.     *)
(* One SQLite connection behind a mutex serves the process, so a           *)
(* transaction is one step of whoever runs it; with_txn rolls the tables   *)
(* back when any statement of it fails, which is ok = FALSE here.          *)
(*   mods      id -> the identity row                                      *)
(*   alias     <<"modid" | "modrinth", key>> -> mod id                     *)
(*   files     content hash -> the artifact row (n is its row id)          *)
(*   releases  id -> the version node grouping files                       *)
(*   rels      relation rows; a target is <<namespace, key, window>>       *)
(*   packages  <<mod id, package prefix>>                                  *)
(*   jarRead, jarClass   content hash -> what a scan read / derived        *)
(*   windows   artifact key -> the loader windows it declares              *)
(*   builds    <<pack, version>> -> is_latest;  links  <<pack, version, n>>*)
(***************************************************************************)
EXTENDS Naturals, Sequences, FiniteSets, SequencesExt, Semver, Loops

CONSTANTS
    Lower,      \* ASCII case folding of the keys in play: [STRING -> STRING]
    Parents,    \* loader_parent: {<<child, parent>>}
    Numbered,   \* the version labels semver::cmp can read -> their place in its order
    Collate,    \* where a lower-cased name sorts: [STRING -> Nat], from 1
    Bridges     \* loader_bridge: project id -> the loader it carries

\* An absent value is no word of a row.
ASSUME NoneAssumption == None # "hard"

Precious == {"curator", "authored"}

EmptyDb == [ok |-> TRUE, mods |-> <<>>, alias |-> <<>>, files |-> <<>>, releases |-> <<>>,
            rels |-> {}, packages |-> {}, jarRead |-> <<>>, jarClass |-> <<>>, windows |-> <<>>,
            builds |-> <<>>, links |-> {}]

Coalesce(a, b) == IF a = None THEN b ELSE a

Put(f, k, v) == [x \in DOMAIN f \cup {k} |-> IF x = k THEN v ELSE f[x]]

Drop(f, K) == [x \in DOMAIN f \ K |-> f[x]]

Fold(k) == IF k \in DOMAIN Lower THEN Lower[k] ELSE k

Largest(S) == CHOOSE n \in S : \A m \in S : m <= n

Least(S) == CHOOSE n \in S : \A m \in S : n <= m

\* INTEGER PRIMARY KEY: one past the largest row id in use.
NextRow(ids) == IF ids = {} THEN 1 ELSE 1 + Largest(ids)

\* Every write runs inside with_txn: after a failed statement nothing sticks.
Failed(db) == [db EXCEPT !.ok = FALSE]

SourceRank(s) ==
    CASE s = "curator" -> 100 [] s = "authored" -> 90 [] s = "jar-meta" -> 50
      [] s = "modrinth" -> 40 [] OTHER -> 10

-----------------------------------------------------------------------------
(* Reads that resolve an identity *)

ModIdForAlias(db, src, key) ==
    IF <<src, key>> \in DOMAIN db.alias THEN db.alias[<<src, key>>] ELSE None

ModIdForSha1(db, sha) == IF sha \in DOMAIN db.files THEN db.files[sha].mod ELSE None

FileRow(db, n) == CHOOSE s \in DOMAIN db.files : db.files[s].n = n

\* A target without its version window.  Project ids match exactly, modids
\* in any case; the other namespaces resolve to no mod.
ModIdForSelector(db, target) ==
    IF target[1] = "modrinth" THEN ModIdForAlias(db, "modrinth", target[2])
    ELSE LET hits == {a \in DOMAIN db.alias : /\ a[1] = "modid" /\ target[1] = "modid"
                                              /\ Fold(a[2]) = Fold(target[2])}
         IN  IF hits = {} THEN None ELSE db.alias[CHOOSE a \in hits : TRUE]

KeysOf(db, src, m) == {a[2] : a \in {b \in DOMAIN db.alias : b[1] = src /\ db.alias[b] = m}}

FirstKey(db, src, m) ==
    LET keys == KeysOf(db, src, m) IN IF keys = {} THEN None ELSE CHOOSE k \in keys : TRUE

\* LIMIT 1 over the mod's rows of one source: whichever the index yields.
ModidForMod(db, m) == FirstKey(db, "modid", m)

ModrinthIdForMod(db, m) == FirstKey(db, "modrinth", m)

\* The newest artifact of that name, in any case.
ModIdForFilename(db, name) ==
    LET hits == {s \in DOMAIN db.files : /\ db.files[s].filename # None
                                         /\ Fold(db.files[s].filename) = Fold(name)}
    IN  IF hits = {} THEN None
        ELSE db.files[FileRow(db, Largest({db.files[s].n : s \in hits}))].mod

ModIdForSlug(db, slug) ==
    LET hits == {m \in DOMAIN db.mods : db.mods[m].slug # None /\ Fold(db.mods[m].slug) = Fold(slug)}
    IN  IF hits = {} THEN None ELSE Least(hits)

\* A prefix several mods define is a shaded library and resolves to nobody.
OwnerModForPrefix(db, prefix) ==
    LET owners == {p[1] : p \in {q \in db.packages : q[2] = prefix}}
    IN  IF Cardinality(owners) = 1 THEN CHOOSE m \in owners : TRUE ELSE None

ModrinthProjectAliases(db) == {a[2] : a \in {b \in DOMAIN db.alias : b[1] = "modrinth"}}

ModrinthAliasesWithoutEnv(db) ==
    {p \in ModrinthProjectAliases(db) : db.mods[db.alias[<<"modrinth", p>>]].env = None}

ModrinthProjectsWithModid(db) ==
    {p \in ModrinthProjectAliases(db) : KeysOf(db, "modid", db.alias[<<"modrinth", p>>]) # {}}

-----------------------------------------------------------------------------
(* authored.rs: folding one identity into another *)

ReleaseAt(db, m, version, channel) ==
    LET hits == {r \in DOMAIN db.releases : /\ db.releases[r].mod = m
                                            /\ db.releases[r].version = version
                                            /\ db.releases[r].channel = channel}
    IN  IF hits = {} THEN None ELSE CHOOSE r \in hits : TRUE

\* A colliding release gives its files to the survivor's and goes; the rest,
\* the files, the aliases, the relations and the packages change owner, a
\* duplicate of either of the last two disappearing.
FoldMods(db, from, into) ==
    LET mine == {r \in DOMAIN db.releases : db.releases[r].mod = from}
        twin(r) == ReleaseAt(db, into, db.releases[r].version, db.releases[r].channel)
        lost == {r \in mine : twin(r) # None}
        Moved(f) == [f EXCEPT !.release = IF @ \in lost THEN twin(@) ELSE @,
                              !.mod = IF @ = from THEN into ELSE @]
        row(r) == [r EXCEPT !.from = IF @ = from THEN into ELSE @]
        Twinned(r) == \E s \in db.rels : s.from = into /\ [s EXCEPT !.rank = 0] = [row(r) EXCEPT !.rank = 0]
    IN  IF from = into THEN db
        ELSE [db EXCEPT
          !.releases = [r \in DOMAIN @ \ lost |-> IF r \in mine THEN [@[r] EXCEPT !.mod = into] ELSE @[r]],
          !.files = [s \in DOMAIN @ |-> Moved(@[s])],
          !.alias = [a \in DOMAIN @ |-> IF @[a] = from THEN into ELSE @[a]],
          !.rels = {row(r) : r \in {q \in @ : ~(q.from = from /\ Twinned(q))}},
          !.packages = {IF p[1] = from THEN <<into, p[2]>> ELSE p : p \in @},
          !.mods = Drop(@, {from})]

-----------------------------------------------------------------------------
(* upsert.rs: the harvest's writers *)

\* A mutant: a collision is resolved by picking a row, never by folding.
MergeNothing(db, matched) == [db |-> db, id |-> Least(matched)]

FoldStep(c, d, k) == FoldMods(d, c.losers[k], c.keep)

FoldAll(db, losers, keep) == Loop(FoldStep, [losers |-> losers, keep |-> keep], db, Len(losers))

\* Two rows an operator vouched for are never folded; one always survives.
MergeCollidedMods(db, matched) ==
    LET precious == {m \in matched : db.mods[m].source \in Precious}
        keep == IF precious = {} THEN Least(matched) ELSE Least(precious)
    IN  [db |-> IF Cardinality(precious) >= 2 THEN db ELSE FoldAll(db, SetToSeq(matched \ {keep}), keep),
         id |-> keep]

\* aliases is the set of <<source, key>> one jar carries; a key that already
\* names a mod keeps naming it.
UpsertModByAlias(db, aliases) ==
    LET matched == {db.alias[a] : a \in aliases \cap DOMAIN db.alias}
        fresh == NextRow(DOMAIN db.mods)
        at == IF matched = {}
              THEN [db |-> [db EXCEPT !.mods = Put(@, fresh, [source |-> "harvested", name |-> None,
                                                             slug |-> None, env |-> None])],
                    id |-> fresh]
              ELSE IF Cardinality(matched) = 1 THEN [db |-> db, id |-> CHOOSE m \in matched : TRUE]
              ELSE MergeCollidedMods(db, matched)
    IN  [db |-> [at.db EXCEPT !.alias = [a \in DOMAIN @ \cup aliases |->
                                          IF a \in DOMAIN @ THEN @[a] ELSE at.id]],
         id |-> at.id]

\* A mutant: the COALESCE without its guard on the row's source.
SetModMetaAlways(db, m, name, slug) ==
    [db EXCEPT !.mods[m].name = Coalesce(name, @), !.mods[m].slug = Coalesce(slug, @)]

SetModMeta(db, m, name, slug) ==
    IF db.mods[m].source \in Precious THEN db
    ELSE [db EXCEPT !.mods[m].name = Coalesce(name, @), !.mods[m].slug = Coalesce(slug, @)]

\* envs: mod id -> the flags Modrinth gives it.
SetModEnvFlags(db, envs) ==
    [db EXCEPT !.mods = [m \in DOMAIN @ |->
        IF m \notin DOMAIN envs \/ @[m].source \in Precious THEN @[m] ELSE [@[m] EXCEPT !.env = envs[m]]]]

\* A mutant: the insert forgets ON CONFLICT and always makes a row.
UpsertReleaseAlways(db, m, version, channel, source) ==
    LET fresh == NextRow(DOMAIN db.releases)
    IN  [db |-> [db EXCEPT !.releases = Put(@, fresh, [mod |-> m, version |-> version,
                                                      channel |-> channel, source |-> source])],
         id |-> fresh]

\* The release of that key, made when there is none.
UpsertRelease(db, m, version, channel, source) ==
    LET at == ReleaseAt(db, m, version, channel)
        fresh == NextRow(DOMAIN db.releases)
    IN  IF at # None THEN [db |-> db, id |-> at]
        ELSE [db |-> [db EXCEPT !.releases = Put(@, fresh, [mod |-> m, version |-> version,
                                                           channel |-> channel, source |-> source])],
              id |-> fresh]

IsPreciousFile(db, sha) == sha \in DOMAIN db.files /\ db.files[sha].source \in Precious

\* No targets means any.
EffectiveTargets(targets) == IF targets = {} THEN {"any"} ELSE targets

\* A mutant: INSERT OR REPLACE, which gives the row a new id.
ReplaceModVersion(db, m, sha, jar) ==
    LET at == UpsertRelease(db, m, jar.version, "unknown", "harvested")
    IN  IF IsPreciousFile(db, sha) THEN db
        ELSE [at.db EXCEPT !.files = Put(@, sha,
               [n |-> NextRow({db.files[s].n : s \in DOMAIN db.files}), mod |-> m, version |-> jar.version,
                mc |-> jar.mc, filename |-> jar.filename, targets |-> EffectiveTargets(jar.loaders),
                release |-> at.id, source |-> "harvested", mrv |-> None, digest |-> None, needs |-> {}])]

\* Row, targets and the provisional release; a precious row keeps all three.
UpsertModVersion(db, m, sha, jar) ==
    LET at == UpsertRelease(db, m, jar.version, "unknown", "harvested")
        n == IF sha \in DOMAIN db.files THEN db.files[sha].n
             ELSE NextRow({db.files[s].n : s \in DOMAIN db.files})
    IN  IF IsPreciousFile(db, sha) THEN db
        ELSE [at.db EXCEPT !.files = Put(@, sha,
               [n |-> n, mod |-> m, version |-> jar.version, mc |-> jar.mc, filename |-> jar.filename,
                targets |-> EffectiveTargets(jar.loaders), release |-> at.id, source |-> "harvested",
                mrv |-> IF sha \in DOMAIN db.files THEN db.files[sha].mrv ELSE None,
                digest |-> IF sha \in DOMAIN db.files THEN db.files[sha].digest ELSE None,
                needs |-> IF sha \in DOMAIN db.files THEN db.files[sha].needs ELSE {}])]

SetModVersionModrinth(db, sha, mrv) ==
    IF IsPreciousFile(db, sha) THEN db ELSE [db EXCEPT !.files[sha].mrv = Coalesce(mrv, @)]

SetHarvestedRelease(db, sha, m, version, channel) ==
    LET at == UpsertRelease(db, m, version, channel, "harvested")
    IN  IF sha \notin DOMAIN db.files \/ IsPreciousFile(db, sha) THEN db
        ELSE [at.db EXCEPT !.files[sha].release = at.id]

\* A mutant: every provisional release goes, its files or not.
PruneUnknownReleases(db) ==
    [db EXCEPT !.releases = Drop(@, {r \in DOMAIN @ : @[r].source \notin Precious /\ @[r].channel = "unknown"})]

PruneEmptyReleases(db) ==
    LET used == {db.files[s].release : s \in DOMAIN db.files}
    IN  [db EXCEPT !.releases = Drop(@, {r \in DOMAIN @ : @[r].source \notin Precious /\ r \notin used})]

SetModPackages(db, m, prefixes) == [db EXCEPT !.packages = @ \cup {<<m, p>> : p \in prefixes}]

\* A read that lost a value keeps the one an earlier read found.
SetJarRead(db, sha, modid, filename) ==
    LET old == IF sha \in DOMAIN db.jarRead THEN db.jarRead[sha] ELSE [modid |-> None, filename |-> None]
    IN  [db EXCEPT !.jarRead = Put(@, sha, [modid |-> Coalesce(modid, old.modid),
                                            filename |-> Coalesce(filename, old.filename)])]

SetJarClass(db, sha, class) ==
    IF sha \in DOMAIN db.jarClass /\ db.jarClass[sha].source = "authored" THEN db
    ELSE [db EXCEPT !.jarClass = Put(@, sha, [class EXCEPT !.source = "derived"])]

SetClassDigest(db, sha, classes) == [db EXCEPT !.files[sha].digest = classes]

SetMixinNeeds(db, sha, needs) == [db EXCEPT !.files[sha].needs = needs]

\* {} is recorded too: read, and it declares nothing.
SetArtifactLoaderReqs(db, key, reqs) == [db EXCEPT !.windows = Put(@, key, reqs)]

\* A conflict nobody graded is hard and nothing else has a severity.
Relation(from, n, target, range, kind, severity, source, rank) ==
    [from |-> from, file |-> n, target |-> target, range |-> range, kind |-> kind,
     severity |-> IF kind = "conflicts" THEN Coalesce(severity, "hard") ELSE None,
     source |-> source, rank |-> rank]

\* A relation at the rank of its source.
Sourced(from, n, target, range, kind, severity, source) ==
    Relation(from, n, target, range, kind, severity, source, SourceRank(source))

\* Rows of one rank, in any order.  The foreign key is the mod's.  The dedupe
\* index leaves the rank out, so the first write keeps the slot.
UpsertRelationRanked(db, rows) ==
    LET taken(row) == \E r \in db.rels : [r EXCEPT !.rank = row.rank] = row
    IN  IF \E row \in rows : row.from \notin DOMAIN db.mods THEN Failed(db)
        ELSE [db EXCEPT !.rels = @ \cup {row \in rows : ~taken(row)}]

UpsertRelation(db, from, n, target, range, kind, severity, source) ==
    UpsertRelationRanked(db, {Sourced(from, n, target, range, kind, severity, source)})

\* A harvest only ever says TRUE, and never takes it back from an older build.
UpsertPackBuild(db, builds) ==
    [db EXCEPT !.builds = [b \in DOMAIN @ \cup builds |-> IF b \in builds THEN TRUE ELSE @[b]]]

LinkBuildMod(db, links) == [db EXCEPT !.links = @ \cup links]

-----------------------------------------------------------------------------
(* authored.rs: the operator's writers *)

AddAuthoredRelation(db, from, target, kind, severity) ==
    UpsertRelation(db, from, None, target, None, kind, severity, "authored")

RemoveAuthoredRelation(db, from, target, kind) ==
    [db EXCEPT !.rels = {r \in @ : ~(r.from = from /\ r.target = target /\ r.kind = kind
                                      /\ r.source = "authored")}]

AuthorRelation(db, from, target, kind, severity, remove) ==
    IF remove THEN RemoveAuthoredRelation(db, from, target, kind)
    ELSE AddAuthoredRelation(db, from, target, kind, severity)

\* Both directions; an unknown mod fails the whole of it.
SetConflict(db, aKey, bKey, remove) ==
    LET a == ModIdForAlias(db, "modid", aKey)
        b == ModIdForAlias(db, "modid", bKey)
        toA == <<"modid", aKey, "">>
        toB == <<"modid", bKey, "">>
    IN  IF None \in {a, b} THEN Failed(db)
        ELSE IF remove
        THEN RemoveAuthoredRelation(RemoveAuthoredRelation(db, a, toB, "conflicts"), b, toA, "conflicts")
        ELSE AddAuthoredRelation(AddAuthoredRelation(db, a, toB, "conflicts", "hard"),
                                 b, toA, "conflicts", "hard")

\* Clearing drops the authored row only.  A jar whose mod Modrinth knows is
\* not classified by hand, and a client mod never has to match the server.
SetAuthoredJarClass(db, sha, class, remove) ==
    LET m == ModIdForSha1(db, sha)
    IN  IF remove
        THEN [db EXCEPT !.jarClass = Drop(@, {s \in {sha} \cap DOMAIN @ : @[s].source = "authored"})]
        ELSE IF \/ class.side = "client" /\ class.policy = "must_match"
                \/ m # None /\ KeysOf(db, "modrinth", m) # {}
        THEN Failed(db)
        ELSE [db EXCEPT !.jarClass = Put(@, sha, [class EXCEPT !.source = "authored",
                !.confidence = IF class.side = None THEN None ELSE "high"])]

MergeMods(db, from, into) ==
    IF from = into \/ {from, into} \ DOMAIN db.mods # {} THEN Failed(db)
    ELSE [FoldMods(db, from, into) EXCEPT !.mods[into].source = "authored"]

\* ref is None for a new mod of that name.  The row, its release when absent
\* and a new mod are all authored; an existing release stays what it was.
AuthorFileIdentity(db, sha, ref, name, version, channel, loaders, mc, filename) ==
    LET fresh == NextRow(DOMAIN db.mods)
        m == Coalesce(ref, fresh)
        with == IF ref # None THEN db
                ELSE [db EXCEPT !.mods = Put(@, fresh, [source |-> "authored", name |-> name,
                                                       slug |-> None, env |-> None])]
        at == UpsertRelease(with, m, version, channel, "authored")
        old == IF sha \in DOMAIN db.files THEN db.files[sha]
               ELSE [n |-> NextRow({db.files[s].n : s \in DOMAIN db.files}), filename |-> None,
                     mrv |-> None, digest |-> None, needs |-> {}]
    IN  IF m \notin DOMAIN with.mods THEN Failed(db)
        ELSE [at.db EXCEPT !.files = Put(@, sha,
               [n |-> old.n, mod |-> m, version |-> version, mc |-> mc,
                filename |-> Coalesce(filename, old.filename), targets |-> EffectiveTargets(loaders),
                release |-> at.id, source |-> "authored", mrv |-> old.mrv, digest |-> old.digest,
                needs |-> old.needs])]

RenameMod(db, m, name, slug) ==
    IF name = None /\ slug = None THEN db
    ELSE IF m \notin DOMAIN db.mods THEN Failed(db)
    ELSE [db EXCEPT !.mods[m].name = Coalesce(name, @), !.mods[m].slug = Coalesce(slug, @),
                    !.mods[m].source = "authored"]

\* The unique key of a release refuses a change onto a sibling.
EditRelease(db, r, version, channel) ==
    LET v == Coalesce(version, db.releases[r].version)
        c == Coalesce(channel, db.releases[r].channel)
    IN  IF version = None /\ channel = None THEN db
        ELSE IF r \notin DOMAIN db.releases \/ ReleaseAt(db, db.releases[r].mod, v, c) \notin {None, r}
        THEN Failed(db)
        ELSE [db EXCEPT !.releases[r].version = v, !.releases[r].channel = c,
                        !.releases[r].source = "authored"]

-----------------------------------------------------------------------------
(* queries.rs: what the panel, the launchers and the resolver read *)

NextUp(S) == S \cup {p[2] : p \in {q \in Parents : q[1] \in S}}

\* The family is at most Cardinality(Parents) deep.
Ancestors(loader) ==
    FoldLeft(LAMBDA S, i : NextUp(S), {loader}, [i \in 1..Cardinality(Parents) |-> i])

\* A mutant: a fork no longer reaches its parent's artifacts.
ExactLoader(loader) == {Fold(loader)}

\* The loader and every one it inherits from, as the resolver asks.
LoaderChain(loader) == Ancestors(Fold(loader))

\* Asked with the exact id: neither side is folded here.
EligibleForLoader(db, loader) ==
    {s \in DOMAIN db.files : db.files[s].targets \cap ({"any"} \cup Ancestors(loader)) # {}}

ChannelRank(c) == CASE c = "release" -> 3 [] c = "beta" -> 2 [] c = "alpha" -> 1 [] OTHER -> 0

ChannelOf(db, s) ==
    IF db.files[s].release \in DOMAIN db.releases THEN db.releases[db.files[s].release].channel
    ELSE "unknown"

\* A mutant: the channel is not asked.
BeatsByVersion(db, s, held) ==
    LET v == db.files[s].version
        w == db.files[held].version
    IN  IF {v, w} \subseteq DOMAIN Numbered THEN Numbered[v] > Numbered[w] ELSE db.files[s].n > db.files[held].n

\* A row beats the one held: a better channel, else a readable newer
\* version, else the later row.
Beats(db, s, held) ==
    LET a == ChannelRank(ChannelOf(db, s))
        b == ChannelRank(ChannelOf(db, held))
        v == db.files[s].version
        w == db.files[held].version
    IN  \/ a > b
        \/ a = b /\ IF {v, w} \subseteq DOMAIN Numbered THEN Numbered[v] > Numbered[w] ELSE db.files[s].n > db.files[held].n

\* The one artifact standing for each mod in a world, in row order.
SliceArtifacts(db, mc, loader) ==
    LET Runs(s) == \E t \in db.files[s].targets : t = "any" \/ Fold(t) \in LoaderChain(loader)
        suits == {s \in DOMAIN db.files : (loader # None => Runs(s)) /\ (mc # None => mc \in db.files[s].mc)}
        rows == SetToSortSeq(suits, LAMBDA x, y : db.files[x].n < db.files[y].n)
        Step(best, s) == LET m == db.files[s].mod
                         IN  IF m \in DOMAIN best /\ ~Beats(db, s, best[m]) THEN best ELSE Put(best, m, s)
    IN  FoldLeft(Step, <<>>, rows)

RelationsForArtifact(db, n, m) == {r \in db.rels : r.file = n \/ (r.file = None /\ r.from = m)}

RelationsFrom(db, m) == {r \in db.rels : r.from = m}

ModName(db, m) == Coalesce(db.mods[m].name, Coalesce(db.mods[m].slug, Coalesce(ModidForMod(db, m), "#id")))

Graph(db) ==
    [nodes |-> {r.from : r \in db.rels} \cup ({ModIdForSelector(db, r.target) : r \in db.rels} \ {None}),
     edges |-> {[from |-> r.from, to |-> ModIdForSelector(db, r.target), kind |-> r.kind] : r \in db.rels}]

\* Edges of the slice's artifacts, the highest-ranked row of each kept; a
\* target with nothing in the slice stays a leaf under its own name.
GraphForSlice(db, mc, loader) ==
    LET in == SliceArtifacts(db, mc, loader)
        to(r) == LET t == ModIdForSelector(db, r.target) IN IF t \in DOMAIN in THEN t ELSE None
        edge(m, r) == [from |-> m, to |-> to(r), kind |-> r.kind,
                       leaf |-> IF to(r) = None THEN r.target ELSE None]
        edges == UNION {{edge(m, r) : r \in RelationsForArtifact(db, db.files[in[m]].n, m)} : m \in DOMAIN in}
    IN  [nodes |-> {e.from : e \in edges} \cup ({e.to : e \in edges} \ {None}), edges |-> edges]

\* The worlds that hold something.
GraphSlices(db) ==
    UNION {{<<mc, t>> : mc \in db.files[s].mc, t \in db.files[s].targets \ {"any"}} : s \in DOMAIN db.files}

\* Outgoing targets resolve in any case; incoming rows must spell the mod's
\* modid exactly, or its one project id.
EdgesForMod(db, m) ==
    LET out == {[dir |-> "out", other |-> ModIdForSelector(db, r.target), kind |-> r.kind] :
                  r \in RelationsFrom(db, m)}
        spelled == {<<"modid", k>> : k \in KeysOf(db, "modid", m)}
                     \cup {<<"modrinth", k>> : k \in {ModrinthIdForMod(db, m)} \ {None}}
    IN  out \cup {[dir |-> "in", other |-> r.from, kind |-> r.kind] :
                    r \in {q \in db.rels : q.from # m /\ <<q.target[1], q.target[2]>> \in spelled}}

ReleasesOfMod(db, m) ==
    {r \in DOMAIN db.releases : \E s \in DOMAIN db.files : db.files[s].mod = m /\ db.files[s].release = r}

FileDetail(db, sha) ==
    LET m == ModIdForSha1(db, sha)
    IN  IF m = None \/ m \notin DOMAIN db.mods \/ db.files[sha].release \notin ReleasesOfMod(db, m) THEN None
        ELSE [mod |-> m, name |-> ModName(db, m), version |-> db.releases[db.files[sha].release].version]

VersionsOfMod(db, m) == {s \in DOMAIN db.files : db.files[s].mod = m}

PacksUsingMod(db, m) ==
    {l[1] : l \in {k \in db.links : db.files[FileRow(db, k[3])].mod = m}}

ModDetail(db, m) ==
    IF m \notin DOMAIN db.mods THEN None
    ELSE [name |-> ModName(db, m), releases |-> ReleasesOfMod(db, m), edges |-> EdgesForMod(db, m),
          loaders |-> UNION {db.files[s].targets : s \in VersionsOfMod(db, m)},
          mc |-> UNION {db.files[s].mc : s \in VersionsOfMod(db, m)}, usedBy |-> PacksUsingMod(db, m)]

\* The listing's own key; a mod with neither name nor slug sorts first.
SortKey(db, m) ==
    LET k == Coalesce(db.mods[m].name, db.mods[m].slug) IN IF k = None THEN 0 ELSE Collate[Fold(k)]

\* The cursor is a mod id; one that has been merged away ends the listing.
\* The loader and the Minecraft version may be met by different artifacts.
ListMods(db, loader, mc, after, take) ==
    LET Suits(m) == /\ loader # None => \E s \in VersionsOfMod(db, m) : \E t \in db.files[s].targets :
                                            t = "any" \/ Fold(t) \in LoaderChain(loader)
                    /\ mc # None => \E s \in VersionsOfMod(db, m) : mc \in db.files[s].mc
        Before(a, b) == \/ SortKey(db, a) < SortKey(db, b)
                        \/ SortKey(db, a) = SortKey(db, b) /\ a < b
        rows == SetToSortSeq({m \in DOMAIN db.mods : /\ Suits(m)
                                /\ after # None => after \in DOMAIN db.mods /\ Before(after, m)}, Before)
    IN  SubSeq(rows, 1, IF take < Len(rows) THEN take ELSE Len(rows))

ListBuilds(db) ==
    [b \in DOMAIN db.builds |-> [latest |-> db.builds[b],
        mods |-> Cardinality({l \in db.links : l[1] = b[1] /\ l[2] = b[2]})]]

\* What a scan read of a jar, and the kind anyone gave it.
JarReadouts(db) ==
    [s \in DOMAIN db.jarRead |-> [read |-> db.jarRead[s],
        kind |-> IF s \in DOMAIN db.jarClass THEN db.jarClass[s].kind ELSE None]]

\* The cached jars no identity claims, as the authoring queue shows them.
Unassigned(db, cached) ==
    [s \in cached \ DOMAIN db.files |-> IF s \in DOMAIN db.jarRead THEN JarReadouts(db)[s] ELSE None]

OrphanJars(db) == {s \in DOMAIN db.files : \A l \in db.links : l[3] # db.files[s].n}

BuildMods(db, pack, version) ==
    {FileRow(db, l[3]) : l \in {k \in db.links : k[1] = pack /\ k[2] = version}}

Stats(db) ==
    [mods |-> Cardinality(DOMAIN db.mods), versions |-> Cardinality(DOMAIN db.files),
     relations |-> Cardinality(db.rels), builds |-> Cardinality(DOMAIN db.builds),
     orphans |-> Cardinality(OrphanJars(db))]

\* Unknown, not no, for an artifact whose bytes were never read.
ArtifactHasClass(db, sha, class) ==
    IF db.files[sha].digest = None THEN None
    ELSE IF class \in db.files[sha].digest THEN "yes" ELSE "no"

ArtifactLoaderReqs(db, key) == IF key \in DOMAIN db.windows THEN db.windows[key] ELSE None

\* The genuine build of the same mod to diff a re-hosted jar against.
RepackCounterpart(db, sha) ==
    LET m == ModIdForSha1(db, sha)
        genuine == {s \in VersionsOfMod(db, m) : db.files[s].mrv # None}
    IN  IF m = None \/ ModrinthIdForMod(db, m) = None \/ genuine = {} THEN None
        ELSE <<ModrinthIdForMod(db, m), db.files[CHOOSE s \in genuine : TRUE].mrv>>

-----------------------------------------------------------------------------
(* classify.rs: the side of an artifact, and who said so *)

SideFromModrinthEnv(c, s) ==
    IF {c, s} \subseteq {"required", "optional", "unsupported"} /\ <<c, s>> # <<"unsupported", "unsupported">>
    THEN [side |-> IF s = "unsupported" THEN "client" ELSE IF c = "unsupported" THEN "server" ELSE "both",
          policy |-> IF c = "required" /\ s = "required" THEN "must_match" ELSE "tolerant"]
    ELSE None

\* A jar that is no mod, then the project's flags, then the bytecode.
Classification(jar, env, flags) ==
    LET says(by, side, policy, confidence) ==
            [by |-> by, side |-> side, policy |-> policy, confidence |-> confidence,
             optionalBoth |-> by = "modrinth-env" /\ env = <<"optional", "optional">>]
    IN  IF jar.kind \in {"coremod", "library"} THEN says("jar-kind", None, None, None)
        ELSE IF flags # None THEN says("modrinth-env", flags.side, flags.policy, "high")
        ELSE IF jar.side # None \/ jar.policy # None
        THEN says("bytecode", jar.side, jar.policy, jar.confidence)
        ELSE says("unclassified", None, None, None)

ClassifyFrom(jar, env) ==
    Classification(jar, env, IF env = None THEN None ELSE SideFromModrinthEnv(env[1], env[2]))

ClassifyArtifact(db, m, sha) ==
    ClassifyFrom(IF sha \in DOMAIN db.jarClass THEN db.jarClass[sha]
                 ELSE [kind |-> None, side |-> None, policy |-> None, confidence |-> None],
                 IF m \in DOMAIN db.mods THEN db.mods[m].env ELSE None)

\* The one client verdict a declared hard edge outweighs.
ClientVerdictIsSoft(c) == c.side = "client" /\ c.by = "bytecode" /\ c.confidence = "low"
=============================================================================
