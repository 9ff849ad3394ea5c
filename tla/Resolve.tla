------------------------------ MODULE Resolve --------------------------------
(***************************************************************************)
(* A pack's declared mods against the registry: where each lands, what the *)
(* report says of them, what the publish gate makes of the report, and     *)
(* what a save would have to pull.  Pure: operators on the tables and on   *)
(* one config                                                              *)
(*   [mods |-> <<[file, on, source, requires, pulled]>>, loader, pin, mc]. *)
(* A source is <<"cache", sha>>, <<"modrinth", project, version>> or       *)
(* <<"static", path>>.                                                     *)
(***************************************************************************)
EXTENDS Registry

CONSTANTS
    Parts,          \* version label -> its parts, None when it is not comparable
    LoaderProvides, \* loader_provides: loader -> the <<namespace, key>> it ships itself
    FabricApi,      \* FABRIC_API and
    ForgifiedApi    \* FORGIFIED_FABRIC_API, as <<namespace, key>>

LoaderNames == {"forge", "minecraftforge", "mod_minecraftforge", "fml", "forgemodloader", "neoforge",
                "fabric", "fabricloader", "cleanroom", "quilt"}

Bare(target) == <<target[1], target[2]>>

\* The loader itself is always there, however a jar spells it.
IsLoaderDep(target) == target[1] = "modid" /\ Fold(target[2]) \in LoaderNames

LoaderProvidedCapabilities(loader) ==
    IF Fold(loader) \in DOMAIN LoaderProvides THEN LoaderProvides[Fold(loader)] ELSE {}

ShaOfModrinthVersion(db, v) ==
    LET hits == {s \in DOMAIN db.files : db.files[s].mrv = v} IN IF hits = {} THEN None ELSE CHOOSE s \in hits : TRUE

JarClassForSha1(db, sha) == IF sha \in DOMAIN db.jarClass THEN db.jarClass[sha] ELSE None

NewestSha1ForMod(db, m) ==
    LET rows == {db.files[s].n : s \in VersionsOfMod(db, m)}
    IN  IF rows = {} THEN None ELSE FileRow(db, Largest(rows))

\* n = 0 stands for an artifact nobody has read: mod-level facts only.
PlacedAt(db, m, decl, sha) ==
    [file |-> decl.file, on |-> decl.on, mod |-> m, sha |-> sha,
     n |-> IF sha = None THEN 0 ELSE db.files[sha].n,
     version |-> IF sha = None THEN None ELSE db.files[sha].version]

Placed(db, decl) ==
    IF decl.source[1] = "cache"
    THEN IF ModIdForSha1(db, decl.source[2]) = None THEN None
         ELSE PlacedAt(db, ModIdForSha1(db, decl.source[2]), decl, decl.source[2])
    ELSE IF decl.source[1] = "modrinth" /\ ModIdForAlias(db, "modrinth", decl.source[2]) # None
    THEN PlacedAt(db, ModIdForAlias(db, "modrinth", decl.source[2]), decl,
                  ShaOfModrinthVersion(db, decl.source[3]))
    ELSE None

Mods(cfg) == {cfg.mods[i] : i \in DOMAIN cfg.mods}

\* An unread upload is unresolved unless a scan said it is no mod; a pin the
\* mirror has not harvested counts as present under its project.  What is
\* placed keeps the index of its declaration.
PlaceMods(db, cfg) ==
    LET adrift == {d \in Mods(cfg) : Placed(db, d) = None}
        placed == {i \in DOMAIN cfg.mods : Placed(db, cfg.mods[i]) # None}
        noMod(d) == d.source[1] = "cache" /\ JarClassForSha1(db, d.source[2]) # None
                      /\ JarClassForSha1(db, d.source[2]).kind # "mod"
    IN  [present |-> [i \in placed |-> Placed(db, cfg.mods[i])],
         unresolved |-> {d.file : d \in {e \in adrift : e.source[1] = "cache" /\ ~noMod(e)}},
         nonMods |-> {d.file : d \in {e \in adrift : noMod(e)}},
         pinned |-> {d.source[2] : d \in {e \in adrift : e.source[1] = "modrinth"}}]

\* The first declaration of a mod stands for it.
Holder(present, m) ==
    LET at == {i \in DOMAIN present : present[i].mod = m} IN IF at = {} THEN 0 ELSE Least(at)

HolderOf(present, m) == IF m = None THEN 0 ELSE Holder(present, m)

Ships(db, present, target) == HolderOf(present, ModIdForSelector(db, target))

ClassifyTargetMod(db, m) == ClassifyArtifact(db, m, NewestSha1ForMod(db, m))

\* Bytecode cannot tell a dependency from an integration.
InferredEdgeDowngraded(edge, class) == edge.source = "inferred" /\ class.side \in {"client", "server", "both"}

Top(rows) == CHOOSE r \in rows : \A s \in rows : s.rank <= r.rank

\* The report reads one edge per target, the fill one per kind and target.
EdgesOf(db, p) ==
    LET rows == RelationsForArtifact(db, p.n, p.mod)
    IN  {Top({r \in rows : r.target = t}) : t \in {r.target : r \in rows}}

FillEdgesOf(db, p) ==
    LET rows == RelationsForArtifact(db, p.n, p.mod)
    IN  {Top({r \in rows : <<r.kind, r.target>> = k}) : k \in {<<r.kind, r.target>> : r \in rows}}

\* Forgified Fabric API answers for Fabric API.
BridgedApiProvided(db, present) ==
    IF \E t \in ForgifiedApi : Ships(db, present, <<t[1], t[2], "">>) # 0 THEN FabricApi ELSE {}

\* Classify every declared jar for the build; an identity-less jar by what a
\* scan derived of it alone.
ClassifyPack(db, cfg) ==
    LET class(d) == IF Placed(db, d) # None THEN ClassifyArtifact(db, Placed(db, d).mod, Placed(db, d).sha)
                    ELSE ClassifyArtifact(db, None, d.source[2])
        known == {d \in Mods(cfg) : \/ Placed(db, d) # None
                                    \/ d.source[1] = "cache" /\ JarClassForSha1(db, d.source[2]) # None}
    IN  [f \in {d.file : d \in known} |-> class(CHOOSE d \in known : d.file = f)]

-----------------------------------------------------------------------------
(* The report *)

\* Of a mod the pack ships, the artifact it ships; of another, the newest.
ShaOf(db, present, m, at) == IF at = 0 THEN NewestSha1ForMod(db, m) ELSE present[at].sha

ClassOf(db, present, m) == ClassifyArtifact(db, m, ShaOf(db, present, m, Holder(present, m)))

Soft(db, present, e, m) == m # None /\ InferredEdgeDowngraded(e, ClassOf(db, present, m))

\* <<index of the requirer, edge>> of every hard edge that is not downgraded.
HardEdges(db, present) ==
    UNION {{<<i, e>> : e \in {x \in EdgesOf(db, present[i]) :
              x.kind = "requires" /\ ~Soft(db, present, x, ModIdForSelector(db, x.target))}} : i \in DOMAIN present}

EdgesOfKind(db, present, kind) ==
    UNION {{<<i, e>> : e \in {x \in EdgesOf(db, present[i]) : x.kind = kind}} : i \in DOMAIN present}

\* Keyed by the selector with its window.
Provided(db, present) == {x[2].target : x \in EdgesOfKind(db, present, "provides")}

Unmet(db, placed, loader) ==
    {x \in HardEdges(db, placed.present) :
        /\ Ships(db, placed.present, x[2].target) = 0 /\ ~IsLoaderDep(x[2].target)
        /\ ~(x[2].target[1] = "modrinth" /\ x[2].target[2] \in placed.pinned)
        /\ x[2].target \notin Provided(db, placed.present)
        /\ Bare(x[2].target) \notin LoaderProvidedCapabilities(loader) \cup BridgedApiProvided(db, placed.present)}

\* One row per target: whose edge was met first, and who asks.
MissingRows(present, unmet) ==
    LET asking(t) == {x \in unmet : x[2].target = t}
        first(X) == CHOOSE x \in X : \A y \in X : x[1] <= y[1]
    IN  {[target |-> t, source |-> first(asking(t))[2].source,
          by |-> {present[x[1]].file : x \in asking(t)}] : t \in {x[2].target : x \in unmet}}

MissingDeps(db, placed, loader) == MissingRows(placed.present, Unmet(db, placed, loader))

\* The edges that land on a mod of the pack.
Landed(db, present, edges) ==
    {l \in {[from |-> x[1], edge |-> x[2], to |-> Ships(db, present, x[2].target)] : x \in edges} : l.to # 0}

\* Three answers: in the window, out of it, not comparable.
WindowVerdict(v, range) == IF v = None \/ v \notin DOMAIN Parts THEN None ELSE InRange(Parts[v], range)

Judged(present, landed) ==
    {<<l, WindowVerdict(present[l.to].version, l.edge.range)>> : l \in {k \in landed : k.edge.range # None}}

VersionsOf(present, judged) ==
    [issues |-> {<<present[j[1].to].file, present[j[1].from].file>> : j \in {k \in judged : k[2] = FALSE}},
     unchecked |-> Cardinality({j \in judged : j[2] = None})]

VersionIssues(db, present) ==
    VersionsOf(present, Judged(present, Landed(db, present, HardEdges(db, present))))

\* A declared edge from a mod that is not client-side into one that is.
ForcedClient(db, present) ==
    LET side(i) == ClassOf(db, present, present[i].mod).side
    IN  {present[l.to].file : l \in {k \in Landed(db, present, HardEdges(db, present)) :
            k.edge.source # "inferred" /\ side(k.to) = "client" /\ side(k.from) # "client"}}

\* One finding per pair, by the edge met first; live when both ship enabled.
ConflictPairs(present, landed) ==
    LET between(p) == {l \in landed : {l.from, l.to} = p}
        first(X) == CHOOSE x \in X : \A y \in X : x.from <= y.from
    IN  {[pair |-> {present[i].file : i \in p}, hard |-> first(between(p)).edge.severity # "soft",
          live |-> \A i \in p : present[i].on] : p \in {{l.from, l.to} : l \in landed}}

Conflicts(db, present) ==
    ConflictPairs(present, Landed(db, present, EdgesOfKind(db, present, "conflicts")))

Suggestions(db, present) ==
    {x[2].target : x \in {y \in EdgesOfKind(db, present, "recommends") :
        Ships(db, present, y[2].target) = 0 /\ ~IsLoaderDep(y[2].target)}}

Overlaps(db, present) ==
    LET by(t) == {present[x[1]].file : x \in {y \in EdgesOfKind(db, present, "provides") : y[2].target = t}}
    IN  {<<t, by(t)>> : t \in {u \in Provided(db, present) : Cardinality(by(u)) >= 2}}

\* Artifacts the pack's loader family does not run, and the ones a present
\* connector carries all the same.
LoaderMismatch(db, present, loader) ==
    LET foreign == {p \in {present[i] : i \in DOMAIN present} : /\ p.n # 0
                      /\ \A t \in db.files[p.sha].targets : t # "any" /\ Fold(t) \notin LoaderChain(loader)}
        Carried(p) == \E t \in db.files[p.sha].targets : <<"loader", Fold(t), "">> \in Provided(db, present)
    IN  [alone |-> {p.file : p \in {f \in foreign : ~Carried(f)}},
         bridged |-> {p.file : p \in {f \in foreign : Carried(f)}}]

\* Not mods, undecided, sided differently by the two sources, server-side.
\* rows: <<mod of the pack, its class, what a scan derived of its jar>>.
AdvisoriesOf(nonMods, rows) ==
    LET mods == {r \in rows : r[2].by # "jar-kind"}
    IN  [coremods |-> nonMods \cup {r[1].file : r \in rows \ mods},
         unclassified |-> {r[1].file : r \in {m \in mods : m[2].policy = None}},
         disputed |-> {r[1].file : r \in {m \in mods : /\ m[2].by = "modrinth-env" /\ m[3] # None
                                                      /\ m[3].side \notin {None, m[2].side}}},
         serverSide |-> {r[1].file : r \in {m \in mods : m[2].side = "server"}}]

Advisories(db, placed, present) ==
    AdvisoriesOf(placed.nonMods,
        {<<p, ClassOf(db, present, p.mod), JarClassForSha1(db, present[Holder(present, p.mod)].sha)>> :
            p \in {present[i] : i \in DOMAIN present}})

\* A required mixin whose class the pack's own copy of its owner has lost.
\* Only a digest that was taken can say no.
MixinGaps(db, present) ==
    LET last(m) == CHOOSE i \in DOMAIN present : present[i].mod = m /\ \A j \in DOMAIN present :
                       present[j].mod = m => j <= i
        gap(p, x) == LET owner == OwnerModForPrefix(db, x.prefix)
                     IN  /\ owner \notin {None, p.mod} /\ Holder(present, owner) # 0
                         /\ present[last(owner)].n # 0
                         /\ ArtifactHasClass(db, present[last(owner)].sha, x.class) = "no"
    IN  UNION {{<<present[i].file, x>> : x \in {y \in db.files[present[i].sha].needs : gap(present[i], y)}} :
                 i \in {j \in DOMAIN present : present[j].n # 0}}

\* The windows jars declare on the loader itself, as far as any were read.
LoaderVersionIssues(cfg, known) ==
    {d.file : d \in {e \in Mods(cfg) : e.source \in DOMAIN known /\ \E w \in known[e.source] :
        w[1] = Fold(cfg.loader) /\ InRange(Parts[cfg.pin], w[2]) = FALSE}}

Report(db, cfg, known, placed, present) ==
    [missing |-> MissingDeps(db, placed, cfg.loader), conflicts |-> Conflicts(db, present),
     overlaps |-> Overlaps(db, present), versions |-> VersionIssues(db, present),
     loader |-> LoaderMismatch(db, present, cfg.loader), mixins |-> MixinGaps(db, present),
     forced |-> ForcedClient(db, present), suggestions |-> Suggestions(db, present),
     windows |-> LoaderVersionIssues(cfg, known), unresolved |-> placed.unresolved,
     advisories |-> Advisories(db, placed, present), resolved |-> Cardinality(DOMAIN present) + Cardinality(placed.pinned)]

ReportOn(db, cfg, known, placed) == Report(db, cfg, known, placed, placed.present)

ResolvePack(db, cfg, known) == ReportOn(db, cfg, known, PlaceMods(db, cfg))

PackGraphOf(db, present, in) ==
    LET Inside(m) == IF m \in in THEN m ELSE None
    IN  [nodes |-> in,
         edges |-> UNION {{[from |-> present[i].mod, target |-> r.target, kind |-> r.kind,
            to |-> Inside(ModIdForSelector(db, r.target))] :
            r \in RelationsForArtifact(db, present[i].n, present[i].mod)} : i \in DOMAIN present}]

PackGraphAmong(db, present) == PackGraphOf(db, present, {present[i].mod : i \in DOMAIN present})

\* The pack drawn as a graph: a target resolves only inside the pack.
PackGraph(db, cfg) == PackGraphAmong(db, PlaceMods(db, cfg).present)

-----------------------------------------------------------------------------
(* gate.rs: what the report does to a publication *)

Declared(source) == source \notin {"inferred", "harvested"}

\* What means the pack cannot start blocks; the rest is recorded.
Check(report) ==
    [blocking |-> {<<"unmet", m.target>> : m \in {x \in report.missing : Declared(x.source)}}
                    \cup {<<"loader", f>> : f \in report.loader.alone}
                    \cup {<<"mixin", g[1]>> : g \in report.mixins}
                    \cup {<<"version", v>> : v \in report.versions.issues}
                    \cup {<<"window", f>> : f \in report.windows},
     advisory |-> {<<"inferred", m.target>> : m \in {x \in report.missing : ~Declared(x.source)}}
                    \cup {<<"conflict", c.pair>> : c \in report.conflicts}
                    \cup {<<"client", f>> : f \in report.forced}
                    \cup {<<"unresolved", f>> : f \in report.unresolved}]
=============================================================================
