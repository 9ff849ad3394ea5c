------------------------------ MODULE PackDiffs ------------------------------
(***************************************************************************)
(* What changed: the one diff of two configs behind the commit box, its    *)
(* count, the build gate's refusal and a commit's record; and the diff of  *)
(* two published builds a launcher shows.  A curator edits the config, the *)
(* fill moves its own rows under every save, checkpoints are made and      *)
(* lost, and builds are published from clean ones.                         *)
(*                                                                         *)
(* A config is [fields, mods, assets, visible]: fields maps a pack field to*)
(* its value, mods is a sequence of [file, source, on, slug, display,      *)
(* pulled], assets a set of [dest, source, required, display].  A source is*)
(* <<"modrinth", project, version>>, <<"cache", sha>> or <<"static", path>>;*)
(* a display is None or [note, requires].  A field's value is a list of    *)
(* texts, each the list of its parts between the separators it is rendered *)
(* with: the tags are a list of any length (", "), the version label a list*)
(* of none or one, the loader its name and its version (" "), the rest one *)
(* text.  The order rows are listed in is layout, and left out, and so is  *)
(* the wording of a field's row.                                           *)
(***************************************************************************)
EXTENDS Naturals, FiniteSets, Sequences, SequencesExt

CONSTANTS
    None,
    Blank,          \* a slug of nothing but spaces
    OpaqueFields,   \* the fields compared whole: the card and the auth block
    Files, Dests,   \* file names of mods, paths of assets
    Projects,       \* Modrinth project ids
    Slugs, Notes,   \* the slugs and display texts a curator writes
    Sources,        \* what a row can point at
    Keys,           \* every row key, in byte order
    Starts,         \* the configs a history begins with
    Rows,           \* the mod rows a curator can write
    Assets,         \* the asset rows a curator can write
    Values,         \* pack field -> the values it takes
    Libraries,      \* sets of rows the fill pulls
    MaxEdits        \* bound: saves and toggles, in all

Displays == {None} \cup [note : Notes \cup {None}, requires : SUBSET Files]
ModDecls == [file : Files, source : Sources, on : BOOLEAN, slug : Slugs \cup {None, Blank},
             display : Displays, pulled : BOOLEAN]
AssetDecls == [dest : Dests, source : Sources, required : BOOLEAN, display : Displays]

ASSUME RowsAssumption == Rows \subseteq ModDecls /\ Assets \subseteq AssetDecls
ASSUME LibrariesAssumption == \A libs \in Libraries : IsFiniteSet(libs) /\ libs \subseteq ModDecls
ASSUME KeysAssumption ==
    /\ Keys \in Seq(Range(Keys)) /\ \A i, j \in DOMAIN Keys : Keys[i] = Keys[j] => i = j
    /\ ({"f"} \X Files) \cup ({"s"} \X Slugs) \cup ({"m"} \X Projects) \cup ({"a"} \X Dests) \subseteq Range(Keys)
ASSUME FieldsAssumption == IsFiniteSet(DOMAIN Values) /\ {"loader", "minecraft", "java"} \subseteq DOMAIN Values

VARIABLES
    live,       \* config.json
    head,       \* the last checkpoint, or None: [config, rev, meta, snap]
    earlier,    \* the build before the last, or None: its entries
    latest,     \* the last published build, or None
    edits       \* saves so far

vars == <<live, head, earlier, latest, edits>>

-----------------------------------------------------------------------------
(* configdiff.rs *)

Change(group, op, key, label, field, from, to, project) ==
    [group |-> group, op |-> op, key |-> key, label |-> label, field |-> field,
     from |-> from, to |-> to, project |-> project]

Pin(source) == Last(source)

ProjectOf(source) == IF source[1] = "modrinth" THEN source[2] ELSE None

\* A hash does not look like a path.
ASSUME SourcesAssumption ==
    /\ \A s \in Sources : s[1] = "modrinth" => s[2] \in Projects
    /\ \A s, t \in Sources : Pin(s) = Pin(t) /\ ProjectOf(s) = ProjectOf(t) => s = t

\* The Modrinth project, else a slug somebody wrote, else the file name.
Identity(m) ==
    IF m.source[1] = "modrinth" THEN <<"m", m.source[2]>>
    ELSE IF m.slug \notin {None, Blank} THEN <<"s", m.slug>> ELSE <<"f", m.file>>

\* The fill's requires are no part of it, and a block holding nothing else is
\* no block.
AuthoredDisplay(display) == IF display = None THEN None ELSE display.note

OnOff(b) == IF b THEN "on" ELSE "off"

\* How far down a list of positions one of them stands, and which stands n-th.
Place(S, i) == Cardinality({j \in S : j <= i})
Nth(S, n) == CHOOSE i \in S : Place(S, i) = n

AuthoredRows(cfg) ==
    LET own == {i \in DOMAIN cfg.mods : ~cfg.mods[i].pulled}
    IN  [n \in 1..Cardinality(own) |-> cfg.mods[Nth(own, n)]]

\* A mutant: the second of two rows with one identity replaces the first.
AuthoredModsLast(cfg) ==
    LET rows == AuthoredRows(cfg)
        last(k) == CHOOSE i \in DOMAIN rows : /\ Identity(rows[i]) = k
                                              /\ \A j \in DOMAIN rows : Identity(rows[j]) = k => j <= i
    IN  [k \in {Identity(rows[i]) : i \in DOMAIN rows} |-> rows[last(k)]]

\* A key two rows share is no key at all: the second falls back to its file
\* name, which no other row has.
KeyAt(rows, i) ==
    IF \E j \in 1..(i - 1) : Identity(rows[j]) = Identity(rows[i]) THEN <<"f", rows[i].file>> ELSE Identity(rows[i])

AuthoredMods(cfg) ==
    LET rows == AuthoredRows(cfg)
    IN  [k \in {KeyAt(rows, i) : i \in DOMAIN rows} |-> rows[CHOOSE i \in DOMAIN rows : KeyAt(rows, i) = k]]

AuthoredAssets(cfg) ==
    [k \in {<<"a", a.dest>> : a \in cfg.assets} |-> CHOOSE a \in cfg.assets : a.dest = k[2]]

\* One row for each aspect that moved.  The same version under another project
\* is a pin that moved too.
ModChanges(key, was, now) ==
    LET row(field, from, to) == Change("mods", "change", key, now.file, field, from, to, ProjectOf(now.source))
        pinned == IF Pin(was.source) # Pin(now.source) THEN row("pin", Pin(was.source), Pin(now.source))
                  ELSE row("pin", ProjectOf(was.source), ProjectOf(now.source))
        moved == {pinned, row("filename", was.file, now.file), row("slug", was.slug, now.slug),
                  row("default_enabled", OnOff(was.on), OnOff(now.on))}
    IN  {c \in moved : c.from # c.to}
          \cup {row("display", None, None) : x \in {AuthoredDisplay(was.display)} \ {AuthoredDisplay(now.display)}}

\* Of an asset the pin alone: the project it is a version of is not compared.
AssetChanges(key, was, now) ==
    LET row(field, from, to) == Change("assets", "change", key, now.dest, field, from, to, ProjectOf(now.source))
        moved == {row("pin", Pin(was.source), Pin(now.source)), row("filename", was.dest, now.dest),
                  row("required", OnOff(was.required), OnOff(now.required))}
    IN  {c \in moved : c.from # c.to}
          \cup {row("display", None, None) : x \in {AuthoredDisplay(was.display)} \ {AuthoredDisplay(now.display)}}

\* What no key carries over is paired by what it points at, first with first in
\* the order of the keys.
Unmatched(rows, others) == {i \in DOMAIN Keys : Keys[i] \in DOMAIN rows \ DOMAIN others}
Pointing(rows, others, pin) == {i \in Unmatched(rows, others) : Pin(rows[Keys[i]].source) = pin}

Pairs(was, now) ==
    {p \in Unmatched(was, now) \X Unmatched(now, was) :
        LET pin == Pin(was[Keys[p[1]]].source)
        IN  /\ Pin(now[Keys[p[2]]].source) = pin
            /\ Place(Pointing(was, now, pin), p[1]) = Place(Pointing(now, was, pin), p[2])}

Departed(was, now, pairs) == {Keys[i] : i \in Unmatched(was, now) \ {p[1] : p \in pairs}}
Arrived(was, now, pairs) == {Keys[i] : i \in Unmatched(now, was) \ {p[2] : p \in pairs}}

\* Rows of one key are one row; what is left over and has no partner is a
\* departure or an arrival.
MatchRows(group, was, now, Changes(_, _, _), Label(_)) ==
    LET pairs == Pairs(was, now)
    IN  (UNION {Changes(k, was[k], now[k]) : k \in DOMAIN was \cap DOMAIN now})
          \cup (UNION {Changes(Keys[p[2]], was[Keys[p[1]]], now[Keys[p[2]]]) : p \in pairs})
          \cup {Change(group, "remove", k, Label(was[k]), None, Pin(was[k].source), None, ProjectOf(was[k].source)) :
                  k \in Departed(was, now, pairs)}
          \cup {Change(group, "add", k, Label(now[k]), None, None, Pin(now[k].source), ProjectOf(now[k].source)) :
                  k \in Arrived(was, now, pairs)}

ModRows(before, after) ==
    MatchRows("mods", AuthoredMods(before), AuthoredMods(after), ModChanges, LAMBDA m : m.file)

AssetRows(before, after) ==
    MatchRows("assets", AuthoredAssets(before), AuthoredAssets(after), AssetChanges, LAMBDA a : a.dest)

FieldRow(field) == Change("pack", "change", <<"p", field>>, field, "value", None, None, None)

\* Every value on one line, an absent one as an empty text.
OneLine == [value \in UNION Range(Values) |-> IF value = <<>> THEN <<"">> ELSE FlattenSeq(value)]

\* What a row can show of a field.  Where one text ended and the next began is
\* lost, and so is whether there was any.
Shown(field, value) == IF field \in OpaqueFields THEN value ELSE OneLine[value]

\* Server-controlled fields are no fields here.
PackRows(before, after) ==
    {FieldRow(f) : f \in {g \in DOMAIN Values : Shown(g, before.fields[g]) # Shown(g, after.fields[g])}}

DiffConfigs(before, after) == PackRows(before, after) \cup ModRows(before, after) \cup AssetRows(before, after)

\* A pack that never committed is one outstanding change: itself.
Uncommitted(snapshot, cfg) == IF snapshot = None THEN 1 ELSE Cardinality(DiffConfigs(snapshot, cfg))

\* A first commit read as change.
Initial(cfg) == DiffConfigs([cfg EXCEPT !.mods = <<>>, !.assets = {}], cfg)

\* For a checkpoint whose snapshot cannot be read.
WholeConfig == FieldRow("config")

\* A mutant: the revision covers the mods and the pack's fields alone.
EditRevNarrow(cfg) == [mods |-> AuthoredRows(cfg), fields |-> cfg.fields]

\* What the revision of a config covers: all but the server's own fields and
\* rows, with the order of the rows and the fill's bookkeeping inside them.
EditRev(cfg) == [mods |-> AuthoredRows(cfg), fields |-> cfg.fields, assets |-> cfg.assets]

-----------------------------------------------------------------------------
(* commit_status and the build gate *)

Snapshot == IF head # None /\ head.snap THEN head.config ELSE None

\* The metadata's revision answers for a clean pack without its snapshot.
CommitStatus ==
    LET changes == IF head = None \/ (head.meta /\ EditRev(live) = head.rev) THEN {}
                   ELSE IF head.snap THEN DiffConfigs(head.config, live)
                   ELSE {WholeConfig}
    IN  [changes |-> changes, uncommitted |-> IF head = None THEN 1 ELSE Cardinality(changes)]

\* resolve_build_commit: a build without a named commit is made from HEAD, and
\* refused while anything is uncommitted.
MayPublish == head # None /\ Uncommitted(Snapshot, live) = 0

-----------------------------------------------------------------------------
(* domain/diff.rs *)

\* The slug as it was written.
ManifestIdentity(e) ==
    IF e.source[1] = "modrinth" THEN <<"m", e.source[2]>>
    ELSE IF e.slug # None THEN <<"s", e.slug>> ELSE <<"f", e.file>>

\* What a build ships of a config: every row and every asset.
Manifest(cfg) ==
    [mods |-> {[file |-> m.file, sha |-> Pin(m.source), source |-> m.source, slug |-> m.slug, on |-> m.on] :
                  m \in Range(cfg.mods)},
     assets |-> {[dest |-> a.dest, sha |-> Pin(a.source), required |-> a.required] : a \in cfg.assets},
     loader |-> cfg.fields["loader"], minecraft |-> cfg.fields["minecraft"], java |-> cfg.fields["java"]]

ContentFingerprint(build) ==
    <<build.loader, build.minecraft, build.java, {<<e.file, e.sha, e.on>> : e \in build.mods}, build.assets>>

\* A mutant: what was removed is read off the file names.
RemovedByName(from, to) == {e.file : e \in from} \ {e.file : e \in to}

Removed(from, to) ==
    {e.file : e \in {x \in from : \A o \in to : ManifestIdentity(o) # ManifestIdentity(x)}}

\* Of two entries with one identity the one read last, in the order of the file
\* names, stands for both.
Older(from, e) ==
    LET named == {i \in DOMAIN Keys : \E o \in from : Keys[i] = <<"f", o.file>> /\ ManifestIdentity(o) = ManifestIdentity(e)}
    IN  CHOOSE o \in from : \E i \in named : Keys[i] = <<"f", o.file>> /\ \A j \in named : j <= i

\* The loader is compared by its version.
Bumps(from, to) ==
    {f \in {"loader"} : Last(from.loader) # Last(to.loader)}
      \cup {f \in {"minecraft"} : from.minecraft # to.minecraft}
      \cup {f \in {"java"} : from.java # to.java}

\* A mod whose bytes changed is updated, whatever else changed with them.
DiffManifests(from, to) ==
    LET both == {e \in to.mods : \E o \in from.mods : ManifestIdentity(o) = ManifestIdentity(e)}
        old(e) == Older(from.mods, e)
        dests(assets) == {a.dest : a \in assets}
    IN  [changed |-> ContentFingerprint(from) # ContentFingerprint(to),
         bumps |-> Bumps(from, to),
         added |-> {e.file : e \in to.mods \ both},
         removed |-> Removed(from.mods, to.mods),
         updated |-> {[file |-> e.file, from |-> old(e).sha, to |-> e.sha] : e \in {x \in both : old(x).sha # x.sha}},
         toggled |-> {e.file : e \in {x \in both : old(x).sha = x.sha /\ old(x).on # x.on}},
         assetsAdded |-> dests(to.assets) \ dests(from.assets),
         assetsRemoved |-> dests(from.assets) \ dests(to.assets),
         assetsUpdated |-> {a.dest : a \in {x \in to.assets : \E o \in from.assets : o.dest = x.dest /\ o.sha # x.sha}}]

-----------------------------------------------------------------------------
(* The handlers *)

Init == live \in Starts /\ head = None /\ earlier = None /\ latest = None /\ edits = 0

SourceIdentity(source) == <<source[1], source[2]>>

\* duplicate_declaration
Distinct(cfg) ==
    /\ \A i, j \in DOMAIN cfg.mods : i # j =>
          /\ cfg.mods[i].file # cfg.mods[j].file
          /\ SourceIdentity(cfg.mods[i].source) # SourceIdentity(cfg.mods[j].source)
    /\ \A a, b \in cfg.assets : a.dest = b.dest => a = b

Configs == [fields : [DOMAIN Values -> UNION Range(Values)], mods : Seq(ModDecls), assets : SUBSET Assets, visible : BOOLEAN]

ASSUME NoneAssumption == None \notin Configs
ASSUME StartsAssumption == \A cfg \in Starts : cfg \in Configs /\ IsFiniteSet(cfg.assets) /\ Distinct(cfg)

\* One edit: a row added, dropped, rewritten or moved, an asset written over or
\* dropped, a field set.
Edited(cfg) ==
    {[cfg EXCEPT !.mods = Append(@, r)] : r \in Rows}
      \cup {[cfg EXCEPT !.mods = RemoveAt(@, i)] : i \in DOMAIN cfg.mods}
      \cup {[cfg EXCEPT !.mods[i] = r] : i \in DOMAIN cfg.mods, r \in Rows}
      \cup {[cfg EXCEPT !.mods = Reverse(@)]}
      \cup {[cfg EXCEPT !.assets = (@ \ {a}) \cup add] : a \in Assets, add \in {{}} \cup {{b} : b \in Assets}}
      \cup UNION {{[cfg EXCEPT !.fields[f] = v] : v \in Values[f]} : f \in DOMAIN Values}

\* The fill replaces its own rows and writes on every other what it needs.
Needing(display, libs) ==
    IF libs = {} /\ display = None THEN None
    ELSE [note |-> AuthoredDisplay(display), requires |-> {l.file : l \in libs}]

FillDependencies(cfg, libs) ==
    LET own == AuthoredRows(cfg)
        filled == [n \in DOMAIN own |-> [own[n] EXCEPT !.display = Needing(@, libs)]]
    IN  [cfg EXCEPT !.mods = filled \o SetToSeq(libs)]

\* put_pack_config
Save(body, libs) ==
    /\ edits < MaxEdits
    /\ Distinct(FillDependencies(body, libs))
    /\ live' = FillDependencies(body, libs)
    /\ edits' = edits + 1
    /\ UNCHANGED <<head, earlier, latest>>

SetVisibility ==
    /\ edits < MaxEdits
    /\ live' = [live EXCEPT !.visible = ~@]
    /\ edits' = edits + 1
    /\ UNCHANGED <<head, earlier, latest>>

CreateCommit ==
    /\ head' = [config |-> live, rev |-> EditRev(live), meta |-> TRUE, snap |-> TRUE]
    /\ UNCHANGED <<live, earlier, latest, edits>>

\* A file of the checkpoint no longer reads.
Damage ==
    /\ head # None
    /\ \E meta, snap \in BOOLEAN : head' = [head EXCEPT !.meta = @ /\ meta, !.snap = @ /\ snap]
    /\ UNCHANGED <<live, earlier, latest, edits>>

Publish ==
    /\ MayPublish
    /\ earlier' = latest /\ latest' = Manifest(head.config)
    /\ UNCHANGED <<live, head, edits>>

Next ==
    \/ \E body \in Edited(live), libs \in Libraries : Save(body, libs)
    \/ SetVisibility
    \/ CreateCommit
    \/ Damage
    \/ Publish

Spec == Init /\ [][Next]_vars

-----------------------------------------------------------------------------
(* Properties *)

\* What a person wrote, whatever order it stands in.
Authored(cfg) ==
    [fields |-> cfg.fields,
     mods |-> {[m EXCEPT !.display = AuthoredDisplay(@)] : m \in Range(AuthoredRows(cfg))},
     assets |-> {[a EXCEPT !.display = AuthoredDisplay(@)] : a \in cfg.assets}]

\* And as much of it as rows can show: a field as it is rendered, an asset by
\* its pin.
Rendered(cfg) ==
    [fields |-> [f \in DOMAIN Values |-> Shown(f, cfg.fields[f])],
     mods |-> Authored(cfg).mods,
     assets |-> {[dest |-> a.dest, pin |-> Pin(a.source), required |-> a.required,
                  display |-> AuthoredDisplay(a.display)] : a \in cfg.assets}]

KeyedApart(rows, Id(_)) == \A x, y \in rows : Id(x) = Id(y) => x = y

\* A list of changes against the rows that came and went: every new row is
\* named, the arrivals and the departures add up, and nothing departs that
\* arrives under another name.
Accounts(changes, gone, new, Label(_)) ==
    LET op(o) == {c \in changes : c.op = o}
    IN  /\ \A r \in new : \E c \in changes \ op("remove") : c.label = Label(r)
        /\ Cardinality(op("add")) + Cardinality(gone) = Cardinality(op("remove")) + Cardinality(new)
        /\ \A c \in op("remove"), d \in op("add") : c.from # d.to

\* diff_configs between the checkpoint and the live config says what a person
\* did, as far as rows can show it: it is empty exactly when the two render
\* alike, it names every authored row that does not render as it did, its
\* arrivals and departures add up, and a first commit lists each row once.  Only
\* the converse asks for rows with identities of their own: a row two others
\* collide with is keyed by where it stands in the list.
DiffTells ==
    /\ Cardinality(Initial(live)) = Len(AuthoredRows(live)) + Cardinality(live.assets)
    /\ Snapshot # None =>
        LET before == Rendered(Snapshot)
            after == Rendered(live)
            diff == DiffConfigs(Snapshot, live)
            of(group) == {c \in diff : c.group = group}
        IN  /\ diff = {} => before = after
            /\ before = after /\ KeyedApart(Range(AuthoredRows(live)), Identity) => diff = {}
            /\ Accounts(of("mods"), before.mods \ after.mods, after.mods \ before.mods, LAMBDA m : m.file)
            /\ Accounts(of("assets"), before.assets \ after.assets, after.assets \ before.assets, LAMBDA a : a.dest)

\* commit_status and resolve_build_commit count the same changes by different
\* means, a revision and a diff: with a snapshot that reads, a pack the panel
\* calls clean builds and one it does not is refused.  Whatever reads, one it
\* calls clean renders as the checkpoint does.
StatusMatchesGate ==
    /\ (head = None \/ head.snap) => CommitStatus.uncommitted = Uncommitted(Snapshot, live)
    /\ CommitStatus.uncommitted = 0 => Rendered(live) = Rendered(head.config)

\* jobs.rs gives the reason for the gate: "the alternative is a build that
\* silently ships something older than what the person pressing it is looking
\* at".  So what may be published is what a person wrote.
CleanIsHead == MayPublish => Authored(live) = Authored(head.config)

\* The mods of two builds that Id takes for one, with another install default.
Flips(from, to, Id(_)) == {p \in from.mods \X to.mods : Id(p[1]) = Id(p[2]) /\ p[1].on # p[2].on}

\* A launcher updating from one build to the next is told of every artifact it
\* must fetch or drop, and of every default that flipped on a jar that stayed;
\* a mod that was re-pinned as well is told as updated, which says nothing of
\* its default.  It is told nothing when the content is the same from the same
\* sources under the same slugs.
Told(from, to, Id(_)) ==
    LET diff == DiffManifests(from, to)
        shas(entries) == {e.sha : e \in entries}
        origins(entries) == {<<e.file, e.slug, e.source>> : e \in entries}
    IN  /\ \A e \in to.mods : e.sha \notin shas(from.mods) =>
              e.file \in diff.added \cup {u.file : u \in diff.updated}
        /\ \A e \in from.mods : e.sha \notin shas(to.mods) =>
              e.file \in diff.removed \/ \E u \in diff.updated : u.from = e.sha
        /\ \A p \in Flips(from, to, Id) :
              \/ p[1].sha = p[2].sha /\ p[2].file \in diff.toggled
              \/ \E u \in diff.updated : u.file = p[2].file /\ u.from = p[1].sha /\ u.to = p[2].sha
        /\ \A a \in to.assets : \/ a.dest \in diff.assetsAdded \cup diff.assetsUpdated
                                 \/ \E o \in from.assets : o.dest = a.dest /\ o.sha = a.sha
        /\ \A a \in from.assets : a.dest \in diff.assetsRemoved \/ \E b \in to.assets : b.dest = a.dest
        /\ (~diff.changed /\ origins(from.mods) = origins(to.mods)) =>
              diff.added \cup diff.removed \cup diff.updated \cup diff.toggled \cup diff.bumps
                \cup diff.assetsAdded \cup diff.assetsRemoved \cup diff.assetsUpdated = {}

\* diff_manifests, between builds whose entries have identities of their own.
LauncherTold ==
    (earlier # None /\ KeyedApart(earlier.mods, ManifestIdentity) /\ KeyedApart(latest.mods, ManifestIdentity))
        => Told(earlier, latest, ManifestIdentity)

\* docs/api.md promises an update dialog "`mods_toggled` (install-default flips)".
FlipsTold ==
    (earlier # None /\ KeyedApart(earlier.mods, ManifestIdentity) /\ KeyedApart(latest.mods, ManifestIdentity))
        => \A p \in Flips(earlier, latest, ManifestIdentity) : p[2].file \in DiffManifests(earlier, latest).toggled

\* configdiff.rs says its cascade is "the same cascade `domain::diff::identity`
\* uses across two builds, so one mod reads as one mod wherever the mirror is
\* asked": what the commit box tells apart, a launcher is told apart.
OneModEverywhere ==
    (earlier # None /\ KeyedApart(earlier.mods, Identity) /\ KeyedApart(latest.mods, Identity))
        => Told(earlier, latest, Identity)
=============================================================================
