---------------------------- MODULE HarvestProofs ----------------------------
(***************************************************************************)
(* What the registry's tables promise across harvests and operators'       *)
(* writes, for any jars, projects, manifests, outcomes of the lookups and  *)
(* numbers of each: every reference lands on a row, what operators said    *)
(* survives a harvest, and the aliases of a jar end up on one mod.  Sound  *)
(* and Spares are proved of every writer, then of the loops of write_scan  *)
(* by Iteration, then of every step.                                       *)
(***************************************************************************)
EXTENDS Harvest, FiniteSetTheorems, WellFoundedInduction, TLAPS

-----------------------------------------------------------------------------
(* Row ids *)

\* Row ids are numbers below some bound, so one past the largest is free.
Bounded(S) == S \subseteq Nat /\ \E b \in Nat : \A n \in S : n <= b

LEMMA LeastIn == ASSUME NEW S \in SUBSET Nat, S # {} PROVE Least(S) \in S
<1> DEFINE R == OpToRel(<, Nat)
<1>1. PICK x \in S : \A y \in S : ~(<<y, x>> \in R)
  <2>1. IsWellFoundedOn(R, Nat)
    BY NatLessThanWellFounded
  <2> HIDE DEF R
  <2> QED
    BY <2>1, WFMin
<1>2. \A y \in S : x <= y
  <2> TAKE y \in S
  <2>1. ~(y < x)
    BY <1>1, Zenon DEF OpToRel
  <2> QED
    BY <2>1
<1> QED
  BY <1>2 DEF Least

\* A nonempty bounded set has a largest member.
LEMMA LargestIn ==
    ASSUME NEW S, Bounded(S), S # {}
    PROVE  Largest(S) \in S /\ \A n \in S : n <= Largest(S)
<1>1. PICK b \in Nat : \A n \in S : n <= b
  BY DEF Bounded
<1> DEFINE T == {b - n : n \in S}
<1>2. T \in SUBSET Nat /\ T # {}
  <2>1. \A n \in S : n \in Nat /\ b - n \in Nat
    BY <1>1 DEF Bounded
  <2> QED
    BY <2>1
<1>3. PICK x \in T : \A y \in T : x <= y
  <2> DEFINE R == OpToRel(<, Nat)
  <2>1. IsWellFoundedOn(R, Nat)
    BY NatLessThanWellFounded
  <2>2. PICK x \in T : \A y \in T : ~(<<y, x>> \in R)
    <3> HIDE DEF R, T
    <3> QED
      BY <1>2, <2>1, WFMin
  <2>3. \A y \in T : x <= y
    <3> HIDE DEF T
    <3> TAKE y \in T
    <3>1. ~(y < x)
      BY <1>2, <2>2, Zenon DEF OpToRel
    <3> QED
      BY <1>2, <3>1
  <2> QED
    BY <2>3
<1>4. PICK n \in S : x = b - n
  OBVIOUS
<1>5. \A m \in S : m <= n
  <2> TAKE m \in S
  <2>1. b - n <= b - m
    BY <1>3, <1>4
  <2> QED
    BY <1>1, <2>1 DEF Bounded
<1> QED
  BY <1>5 DEF Largest

LEMMA NextRowFree ==
    ASSUME NEW S, Bounded(S)
    PROVE  NextRow(S) \in Nat /\ NextRow(S) \notin S /\ Bounded(S \cup {NextRow(S)})
<1>1. CASE S = {}
  BY <1>1 DEF NextRow, Bounded
<1>2. CASE S # {}
  <2>1. Largest(S) \in S /\ \A n \in S : n <= Largest(S)
    BY <1>2, LargestIn
  <2>2. NextRow(S) = 1 + Largest(S) /\ Largest(S) \in Nat
    BY <1>2, <2>1 DEF NextRow, Bounded
  <2>3. \A n \in S \cup {NextRow(S)} : n <= NextRow(S)
    BY <2>1, <2>2 DEF Bounded
  <2>4. NextRow(S) \in Nat
    BY <2>2
  <2>5. S \cup {NextRow(S)} \subseteq Nat
    BY <2>4 DEF Bounded
  <2>6. NextRow(S) \notin S
    BY <2>1, <2>2
  <2>7. Bounded(S \cup {NextRow(S)})
    BY <2>3, <2>4, <2>5 DEF Bounded
  <2> QED
    BY <2>4, <2>6, <2>7
<1> QED
  BY <1>1, <1>2

LEMMA FewerRows == ASSUME NEW S, Bounded(S), NEW T, T \subseteq S PROVE Bounded(T)
BY DEF Bounded

LEMMA RowsFinite == ASSUME NEW S, Bounded(S) PROVE IsFiniteSet(S)
<1>1. PICK b \in Nat : \A n \in S : n <= b
  BY DEF Bounded
<1> QED
  BY <1>1, FS_BoundedSetOfNaturals DEF Bounded

\* As many different members of a finite set as it has are all of them.
LEMMA FullOrder ==
    ASSUME NEW S, IsFiniteSet(S), NEW f \in [1..Cardinality(S) -> S], IsInjective(f)
    PROVE  f \in Surjection(1..Cardinality(S), S)
<1>1. Cardinality(S) \in Nat
  BY FS_CardinalityType
<1>2. f \in Injection(1..Cardinality(S), S)
  BY DEF Injection, IsInjective
<1>3. IsFiniteSet(1..Cardinality(S)) /\ Cardinality(1..Cardinality(S)) = Cardinality(S)
  BY <1>1, FS_Interval
<1> QED
  BY <1>2, <1>3, FS_Injection

\* A finite set written out in some order has its members and no others.
LEMMA OrderOf ==
    ASSUME NEW S, IsFiniteSet(S)
    PROVE  /\ SetToSeq(S) \in [1..Cardinality(S) -> S] /\ Cardinality(S) \in Nat
           /\ Len(SetToSeq(S)) = Cardinality(S)
           /\ \A x \in S : \E k \in 1..Len(SetToSeq(S)) : SetToSeq(S)[k] = x
<1>1. Cardinality(S) \in Nat /\ ExistsBijection(1..Cardinality(S), S)
  BY FS_CardinalityType
<1>2. \E f \in [1..Cardinality(S) -> S] : IsInjective(f)
  <2>1. PICK f : f \in Bijection(1..Cardinality(S), S)
    BY <1>1 DEF ExistsBijection
  <2>2. f \in [1..Cardinality(S) -> S] /\ \A a, b \in 1..Cardinality(S) : f[a] = f[b] => a = b
    BY <2>1 DEF Bijection, Injection, Surjection, IsInjective
  <2> QED
    BY <2>2 DEF IsInjective
<1>3. SetToSeq(S) \in [1..Cardinality(S) -> S] /\ IsInjective(SetToSeq(S))
  BY <1>2 DEF SetToSeq
<1> HIDE DEF SetToSeq
<1>5. SetToSeq(S) \in Surjection(1..Cardinality(S), S)
  BY <1>1, <1>3, FullOrder
<1>4. SetToSeq(S) \in Seq(S) /\ Len(SetToSeq(S)) = Cardinality(S)
  BY <1>1, <1>3
<1> QED
  BY <1>1, <1>3, <1>4, <1>5 DEF Surjection

-----------------------------------------------------------------------------
(* Tables whose references land *)

FileFields == {"n", "mod", "version", "mc", "filename", "targets", "release", "source", "mrv", "digest", "needs"}
ReleaseFields == {"mod", "version", "channel", "source"}
RelationFields == {"from", "file", "target", "range", "kind", "severity", "source", "rank"}
Tables == {"ok", "mods", "alias", "files", "releases", "rels", "packages", "jarRead", "jarClass", "windows",
           "builds", "links"}

\* A relation has its columns, and what an operator says one rank.
Stated(r) ==
    /\ r = [c \in RelationFields |-> r[c]]
    /\ r.source = "authored" => r.rank = SourceRank("authored")

\* Rows have their columns and the ids of mods and releases are row ids.
Rowed(d) ==
    /\ DOMAIN d = Tables
    /\ Bounded(DOMAIN d.mods) /\ Bounded(DOMAIN d.releases)
    /\ \A r \in DOMAIN d.releases : DOMAIN d.releases[r] = ReleaseFields
    /\ \A s \in DOMAIN d.files : DOMAIN d.files[s] = FileFields
    /\ \A r \in d.rels : Stated(r)

Sound(d) == Rowed(d) /\ Lands(d)

LEMMA EmptySound == Sound(EmptyDb)
BY DEF Sound, Rowed, Lands, EmptyDb, Tables, Bounded

\* A write that leaves these seven tables alone leaves their references alone,
LEMMA Untouched ==
    ASSUME NEW d, Sound(d), NEW e, DOMAIN e = DOMAIN d, e.mods = d.mods, e.alias = d.alias,
           e.files = d.files, e.releases = d.releases, e.rels = d.rels, e.packages = d.packages,
           e.links = d.links
    PROVE  Sound(e)
BY DEF Sound, Rowed, Lands

\* and so does one that only rewrites the mods' own columns.
LEMMA ModsRewritten ==
    ASSUME NEW d, Sound(d), NEW mods, DOMAIN mods = DOMAIN d.mods
    PROVE  Sound([d EXCEPT !.mods = mods])
<1> DEFINE e == [d EXCEPT !.mods = mods]
<1>1. /\ DOMAIN e = Tables /\ DOMAIN e.mods = DOMAIN d.mods /\ e.alias = d.alias /\ e.files = d.files
      /\ e.releases = d.releases /\ e.rels = d.rels /\ e.packages = d.packages /\ e.links = d.links
  BY DEF Sound, Rowed, Tables
<1> HIDE DEF e
<1> QED
  BY <1>1 DEF Sound, Rowed, Lands

LEMMA FailedSound == ASSUME NEW d, Sound(d) PROVE Sound(Failed(d))
<1>1. DOMAIN d = Tables
  BY DEF Sound, Rowed
<1> QED
  BY <1>1, Untouched DEF Failed, Tables

\* Relations of mods that exist are added, or the write fails.
LEMMA RelationsSound ==
    ASSUME NEW d, Sound(d), NEW rows,
           \A r \in rows : /\ Stated(r)
                           /\ (r.kind = "conflicts") = (r.severity # None)
    PROVE  LET e == UpsertRelationRanked(d, rows)
           IN  /\ Sound(e) /\ e.mods = d.mods /\ e.alias = d.alias /\ e.files = d.files
               /\ e.releases = d.releases /\ e.jarClass = d.jarClass /\ d.rels \subseteq e.rels
<1>1. CASE \E r \in rows : r.from \notin DOMAIN d.mods
  BY <1>1, FailedSound DEF UpsertRelationRanked, Failed, Sound, Rowed, Tables
<1>2. CASE \A r \in rows : r.from \in DOMAIN d.mods
  <2>1. PICK new \in SUBSET rows : UpsertRelationRanked(d, rows) = [d EXCEPT !.rels = @ \cup new]
    BY <1>2 DEF UpsertRelationRanked
  <2> DEFINE e == [d EXCEPT !.rels = @ \cup new]
  <2>2. /\ DOMAIN e = Tables /\ e.rels = d.rels \cup new /\ e.mods = d.mods /\ e.alias = d.alias
        /\ e.files = d.files /\ e.releases = d.releases /\ e.packages = d.packages /\ e.links = d.links
        /\ e.jarClass = d.jarClass
    BY DEF Sound, Rowed, Tables
  <2> HIDE DEF e
  <2>3. Sound(e)
    BY <1>2, <2>2 DEF Sound, Rowed, Lands
  <2> QED
    BY <2>1, <2>2, <2>3 DEF e
<1> QED
  BY <1>1, <1>2

\* What the writers build are relations.
LEMMA RelationRow ==
    ASSUME NEW from, NEW n, NEW target, NEW range, NEW kind, NEW severity, NEW source, NEW rank
    PROVE  LET r == Relation(from, n, target, range, kind, severity, source, rank)
           IN  /\ r = [c \in RelationFields |-> r[c]] /\ (r.kind = "conflicts") = (r.severity # None) /\ r.from = from
               /\ r.source = source /\ r.rank = rank
BY NoneAssumption DEF Relation, RelationFields, Coalesce

-----------------------------------------------------------------------------
(* What a harvest spares: all that an operator said, whom an alias names   *)
(* once two of them agree, and the relations a wipe leaves                 *)

Vouched(row) == row.source \in Precious

\* An artifact's row but for its owner and what is read of the bytes.
SameFile(f, g) == \A c \in FileFields \ {"mod", "release", "digest", "needs"} : g[c] = f[c]

SameRelation(r, q) == \A c \in RelationFields \ {"from", "rank"} : q[c] = r[c]

Aliased(d, m) == \E a \in DOMAIN d.alias : d.alias[a] = m

\* n is m, or the mod m was folded into.
Follows(d, e, m, n) == IF Aliased(d, m) THEN \E a \in DOMAIN d.alias : d.alias[a] = m /\ e.alias[a] = n
                       ELSE n = m

ModsStay(d, e) ==
    \A m \in DOMAIN d.mods : Vouched(d.mods[m]) => m \in DOMAIN e.mods /\ e.mods[m] = d.mods[m]

FilesStay(d, e) ==
    \A s \in DOMAIN d.files : Vouched(d.files[s]) =>
        s \in DOMAIN e.files /\ SameFile(d.files[s], e.files[s]) /\ ChannelOf(e, s) = ChannelOf(d, s)

ClassesStay(d, e) ==
    \A s \in DOMAIN d.jarClass : d.jarClass[s].source = "authored" =>
        s \in DOMAIN e.jarClass /\ e.jarClass[s] = d.jarClass[s]

AliasesStay(d, e) ==
    /\ DOMAIN d.alias \subseteq DOMAIN e.alias
    /\ \A a, b \in DOMAIN d.alias : d.alias[a] = d.alias[b] => e.alias[a] = e.alias[b]
    /\ \A a \in DOMAIN d.alias : Vouched(d.mods[d.alias[a]]) => e.alias[a] = d.alias[a]

\* A mod without aliases stays, and stays without.
StraysStay(d, e) == \A m \in DOMAIN d.mods : ~Aliased(d, m) => m \in DOMAIN e.mods /\ ~Aliased(e, m)

RelationsStay(d, e) ==
    \A r \in d.rels : r.source \in {"authored", "modrinth"} =>
        \E q \in e.rels : SameRelation(r, q) /\ Follows(d, e, r.from, q.from)

Spares(d, e) ==
    /\ ModsStay(d, e) /\ FilesStay(d, e) /\ ClassesStay(d, e)
    /\ AliasesStay(d, e) /\ StraysStay(d, e) /\ RelationsStay(d, e)

\* A write that folds nobody, and what of it is to be looked at.
LEMMA Spared ==
    ASSUME NEW d, NEW e, e.alias = d.alias, DOMAIN d.mods \subseteq DOMAIN e.mods, ModsStay(d, e),
           FilesStay(d, e), ClassesStay(d, e),
           \A r \in d.rels : r.source \in {"authored", "modrinth"} => r \in e.rels
    PROVE  Spares(d, e)
<1>1. AliasesStay(d, e) /\ StraysStay(d, e)
  BY DEF AliasesStay, StraysStay, Aliased
<1>2. \A m : Follows(d, e, m, m)
  BY DEF Follows, Aliased
<1>3. \A r : SameRelation(r, r)
  BY DEF SameRelation
<1>4. RelationsStay(d, e)
  BY <1>2, <1>3 DEF RelationsStay
<1> QED
  BY <1>1, <1>4 DEF Spares

LEMMA SameFilesStay ==
    ASSUME NEW d, NEW e, e.files = d.files, e.releases = d.releases
    PROVE  FilesStay(d, e)
BY DEF FilesStay, SameFile, ChannelOf

LEMMA SameSpared ==
    ASSUME NEW d, NEW e, e.mods = d.mods, e.alias = d.alias, e.files = d.files, e.releases = d.releases,
           e.jarClass = d.jarClass,
           \A r \in d.rels : r.source \in {"authored", "modrinth"} => r \in e.rels
    PROVE  Spares(d, e)
<1>1. ModsStay(d, e) /\ ClassesStay(d, e)
  BY DEF ModsStay, ClassesStay
<1>2. FilesStay(d, e)
  BY SameFilesStay
<1> QED
  BY <1>1, <1>2, Spared

LEMMA SparesItself == ASSUME NEW d PROVE Spares(d, d)
BY SameSpared

\* What two writes spare, one after the other they spare.
LEMMA SparesOn ==
    ASSUME NEW d, Sound(d), NEW e, Sound(e), NEW f, Spares(d, e), Spares(e, f)
    PROVE  Spares(d, f)
<1>1. ModsStay(d, f)
  BY DEF Spares, ModsStay
<1>2. FilesStay(d, f)
  <2> SUFFICES ASSUME NEW s \in DOMAIN d.files, Vouched(d.files[s])
               PROVE  /\ s \in DOMAIN f.files /\ SameFile(d.files[s], f.files[s])
                      /\ ChannelOf(f, s) = ChannelOf(d, s)
    BY DEF FilesStay
  <2>1. s \in DOMAIN e.files /\ SameFile(d.files[s], e.files[s]) /\ ChannelOf(e, s) = ChannelOf(d, s)
    BY DEF Spares, FilesStay
  <2>2. Vouched(e.files[s])
    BY <2>1 DEF SameFile, FileFields, Vouched
  <2>3. s \in DOMAIN f.files /\ SameFile(e.files[s], f.files[s]) /\ ChannelOf(f, s) = ChannelOf(e, s)
    BY <2>1, <2>2 DEF Spares, FilesStay
  <2> QED
    BY <2>1, <2>3 DEF SameFile
<1>3. ClassesStay(d, f)
  BY DEF Spares, ClassesStay
<1>4. AliasesStay(d, f)
  <2>1. \A a \in DOMAIN d.alias : Vouched(d.mods[d.alias[a]]) => f.alias[a] = d.alias[a]
    <3> TAKE a \in DOMAIN d.alias
    <3> HAVE Vouched(d.mods[d.alias[a]])
    <3>1. e.alias[a] = d.alias[a] /\ a \in DOMAIN e.alias
      BY DEF Spares, AliasesStay
    <3>2. Vouched(e.mods[e.alias[a]])
      BY <3>1 DEF Sound, Lands, Spares, ModsStay
    <3> QED
      BY <3>1, <3>2 DEF Spares, AliasesStay
  <2> QED
    BY <2>1 DEF Spares, AliasesStay
<1>5. StraysStay(d, f)
  BY DEF Spares, StraysStay
<1>6. RelationsStay(d, f)
  <2> SUFFICES ASSUME NEW r \in d.rels, r.source \in {"authored", "modrinth"}
               PROVE  \E q \in f.rels : SameRelation(r, q) /\ Follows(d, f, r.from, q.from)
    BY DEF RelationsStay
  <2>1. PICK p \in e.rels : SameRelation(r, p) /\ Follows(d, e, r.from, p.from)
    BY DEF Spares, RelationsStay
  <2>2. p.source = r.source
    BY <2>1 DEF SameRelation, RelationFields
  <2>3. PICK q \in f.rels : SameRelation(p, q) /\ Follows(e, f, p.from, q.from)
    BY <2>2 DEF Spares, RelationsStay
  <2>4. SameRelation(r, q)
    BY <2>1, <2>3 DEF SameRelation
  <2>5. CASE Aliased(d, r.from)
    <3>1. PICK a \in DOMAIN d.alias : d.alias[a] = r.from /\ e.alias[a] = p.from
      BY <2>1, <2>5 DEF Follows
    <3>2. a \in DOMAIN e.alias /\ Aliased(e, p.from)
      BY <3>1 DEF Spares, AliasesStay, Aliased
    <3>3. PICK b \in DOMAIN e.alias : e.alias[b] = p.from /\ f.alias[b] = q.from
      BY <2>3, <3>2 DEF Follows
    <3>4. f.alias[a] = q.from
      BY <3>1, <3>2, <3>3 DEF Spares, AliasesStay
    <3> QED
      BY <2>4, <2>5, <3>1, <3>4 DEF Follows
  <2>6. CASE ~Aliased(d, r.from)
    <3>1. p.from = r.from /\ r.from \in DOMAIN d.mods
      BY <2>1, <2>6 DEF Follows, Sound, Lands
    <3>2. ~Aliased(e, p.from)
      BY <2>6, <3>1 DEF Spares, StraysStay
    <3> QED
      BY <2>3, <2>4, <2>6, <3>1, <3>2 DEF Follows
  <2> QED
    BY <2>5, <2>6
<1> QED
  BY <1>1, <1>2, <1>3, <1>4, <1>5, <1>6 DEF Spares

\* Only the mods' own columns are written, and of mods nobody vouched for.
LEMMA ModsSpared ==
    ASSUME NEW d, Sound(d), NEW mods, DOMAIN mods = DOMAIN d.mods,
           \A m \in DOMAIN d.mods : Vouched(d.mods[m]) => mods[m] = d.mods[m]
    PROVE  Spares(d, [d EXCEPT !.mods = mods])
<1> DEFINE e == [d EXCEPT !.mods = mods]
<1>1. /\ e.mods = mods /\ e.alias = d.alias /\ e.files = d.files /\ e.releases = d.releases
      /\ e.rels = d.rels /\ e.jarClass = d.jarClass
  BY DEF Sound, Rowed, Tables
<1> HIDE DEF e
<1>2. ModsStay(d, e) /\ ClassesStay(d, e)
  BY <1>1 DEF ModsStay, ClassesStay
<1>3. FilesStay(d, e)
  BY <1>1, SameFilesStay
<1>4. Spares(d, e)
  BY <1>1, <1>2, <1>3, Spared
<1> QED
  BY <1>4 DEF e

\* Aliases are added to a mod that is new or has one.
LEMMA AliasesAdded ==
    ASSUME NEW d, NEW c, Spares(d, c), NEW e, e.mods = c.mods, e.files = c.files, e.releases = c.releases,
           e.rels = c.rels, e.jarClass = c.jarClass, DOMAIN c.alias \subseteq DOMAIN e.alias,
           \A a \in DOMAIN c.alias : e.alias[a] = c.alias[a],
           \A a \in DOMAIN e.alias \ DOMAIN c.alias : e.alias[a] \in DOMAIN d.mods => Aliased(d, e.alias[a])
    PROVE  Spares(d, e)
<1>0. DOMAIN d.alias \subseteq DOMAIN c.alias
  BY DEF Spares, AliasesStay
<1>1. ModsStay(d, e) /\ ClassesStay(d, e)
  BY DEF Spares, ModsStay, ClassesStay
<1>2. FilesStay(d, e)
  BY DEF Spares, FilesStay, ChannelOf
<1>3. AliasesStay(d, e)
  BY <1>0 DEF Spares, AliasesStay
<1>4. StraysStay(d, e)
  <2> SUFFICES ASSUME NEW m \in DOMAIN d.mods, ~Aliased(d, m)
               PROVE  m \in DOMAIN e.mods /\ ~Aliased(e, m)
    BY DEF StraysStay
  <2>1. m \in DOMAIN c.mods /\ ~Aliased(c, m)
    BY DEF Spares, StraysStay
  <2> QED
    BY <2>1 DEF Aliased
<1>5. \A m, n : Follows(d, c, m, n) => Follows(d, e, m, n)
  BY <1>0 DEF Follows
<1>6. RelationsStay(d, e)
  BY <1>5 DEF Spares, RelationsStay
<1> QED
  BY <1>1, <1>2, <1>3, <1>4, <1>6 DEF Spares

-----------------------------------------------------------------------------
(* Releases and files *)

LEMMA ReleaseFound ==
    ASSUME NEW d, NEW m, NEW version, NEW channel, ReleaseAt(d, m, version, channel) # None
    PROVE  LET r == ReleaseAt(d, m, version, channel)
           IN  r \in DOMAIN d.releases /\ d.releases[r].mod = m /\ d.releases[r].channel = channel
BY DEF ReleaseAt

\* The release asked for is there afterwards, and nothing else changed.
LEMMA ReleaseSound ==
    ASSUME NEW d, Sound(d), NEW m \in DOMAIN d.mods, NEW version, NEW channel, NEW source
    PROVE  LET at == UpsertRelease(d, m, version, channel, source)
           IN  /\ Sound(at.db)
               /\ at.id \in DOMAIN at.db.releases /\ at.db.releases[at.id].mod = m
               /\ at.db.mods = d.mods /\ at.db.files = d.files /\ at.db.alias = d.alias
               /\ Spares(d, at.db)
<1> DEFINE at == UpsertRelease(d, m, version, channel, source)
<1>1. CASE ReleaseAt(d, m, version, channel) # None
  <2>1. at.db = d /\ at.id = ReleaseAt(d, m, version, channel)
    BY <1>1 DEF UpsertRelease
  <2> QED
    BY <1>1, <2>1, ReleaseFound, SparesItself
<1>2. CASE ReleaseAt(d, m, version, channel) = None
  <2> DEFINE fresh == NextRow(DOMAIN d.releases)
             row == [mod |-> m, version |-> version, channel |-> channel, source |-> source]
             e == [d EXCEPT !.releases = Put(@, fresh, row)]
  <2>1. at.db = e /\ at.id = fresh
    BY <1>2 DEF UpsertRelease
  <2>2. fresh \notin DOMAIN d.releases /\ Bounded(DOMAIN d.releases \cup {fresh})
    BY NextRowFree DEF Sound, Rowed
  <2>3. /\ DOMAIN e = Tables /\ e.mods = d.mods /\ e.alias = d.alias /\ e.files = d.files
        /\ e.rels = d.rels /\ e.packages = d.packages /\ e.links = d.links /\ e.jarClass = d.jarClass
        /\ e.releases = Put(d.releases, fresh, row)
    BY DEF Sound, Rowed, Tables
  <2>4. DOMAIN row = ReleaseFields /\ row.mod = m
    BY DEF ReleaseFields
  <2> HIDE DEF fresh, row, e
  <2>5. /\ DOMAIN e.releases = DOMAIN d.releases \cup {fresh} /\ e.releases[fresh] = row
        /\ \A r \in DOMAIN d.releases : e.releases[r] = d.releases[r]
    BY <2>2, <2>3 DEF Put
  <2>6. Rowed(e)
    BY <2>2, <2>3, <2>4, <2>5 DEF Sound, Rowed
  <2>7. Lands(e)
    BY <2>2, <2>3, <2>4, <2>5 DEF Sound, Lands
  <2>8. FilesStay(d, e)
    BY <2>3, <2>5 DEF Sound, Lands, FilesStay, SameFile, ChannelOf
  <2>9. ModsStay(d, e) /\ ClassesStay(d, e)
    BY <2>3 DEF ModsStay, ClassesStay
  <2>10. Spares(d, e)
    BY <2>3, <2>8, <2>9, Spared
  <2> QED
    BY <2>1, <2>3, <2>4, <2>5, <2>6, <2>7, <2>10 DEF Sound
<1> QED
  BY <1>1, <1>2

\* An artifact filed under a mod and a release of that mod, its row id kept.
LEMMA FiledSound ==
    ASSUME NEW d, Sound(d), NEW sha, NEW row, DOMAIN row = FileFields, row.mod \in DOMAIN d.mods,
           row.release \in DOMAIN d.releases, d.releases[row.release].mod = row.mod,
           sha \in DOMAIN d.files => row.n = d.files[sha].n
    PROVE  LET e == [d EXCEPT !.files = Put(@, sha, row)]
           IN  /\ Sound(e) /\ e.mods = d.mods /\ e.alias = d.alias /\ e.releases = d.releases
               /\ sha \in DOMAIN e.files /\ e.files[sha] = row
               /\ ~IsPreciousFile(d, sha) => Spares(d, e)
<1> DEFINE e == [d EXCEPT !.files = Put(@, sha, row)]
<1>1. /\ DOMAIN e = Tables /\ e.mods = d.mods /\ e.alias = d.alias /\ e.releases = d.releases
      /\ e.rels = d.rels /\ e.packages = d.packages /\ e.links = d.links /\ e.jarClass = d.jarClass
      /\ e.files = Put(d.files, sha, row)
  BY DEF Sound, Rowed, Tables
<1> HIDE DEF e
<1>2. /\ DOMAIN e.files = DOMAIN d.files \cup {sha} /\ e.files[sha] = row
      /\ \A s \in DOMAIN d.files : s # sha => e.files[s] = d.files[s]
      /\ \A s \in DOMAIN d.files : e.files[s].n = d.files[s].n
  BY <1>1 DEF Put
<1>3. Rowed(e)
  BY <1>1, <1>2 DEF Sound, Rowed
<1>4. \A l \in e.links : \E s \in DOMAIN e.files : e.files[s].n = l[3]
  BY <1>1, <1>2 DEF Sound, Lands
<1>5. Lands(e)
  BY <1>1, <1>2, <1>4 DEF Sound, Lands
<1>6. ~IsPreciousFile(d, sha) => FilesStay(d, e)
  BY <1>1, <1>2 DEF IsPreciousFile, FilesStay, SameFile, ChannelOf, Vouched
<1>7. ModsStay(d, e) /\ ClassesStay(d, e)
  BY <1>1 DEF ModsStay, ClassesStay
<1>8. ~IsPreciousFile(d, sha) => Spares(d, e)
  BY <1>1, <1>6, <1>7, Spared
<1> QED
  BY <1>1, <1>2, <1>3, <1>5, <1>8 DEF Sound, e

\* The columns of an artifact no reference goes through.
LEMMA FileColumns ==
    ASSUME NEW d, Sound(d), NEW files, DOMAIN files = DOMAIN d.files,
           \A s \in DOMAIN files : /\ DOMAIN files[s] = FileFields /\ files[s].n = d.files[s].n
                                   /\ files[s].mod = d.files[s].mod /\ files[s].release = d.files[s].release
    PROVE  Sound([d EXCEPT !.files = files])
<1> DEFINE e == [d EXCEPT !.files = files]
<1>1. /\ DOMAIN e = Tables /\ e.mods = d.mods /\ e.alias = d.alias /\ e.releases = d.releases
      /\ e.rels = d.rels /\ e.packages = d.packages /\ e.links = d.links /\ e.files = files
  BY DEF Sound, Rowed, Tables
<1> HIDE DEF e
<1>2. \A l \in e.links : \E s \in DOMAIN e.files : e.files[s].n = l[3]
  BY <1>1 DEF Sound, Lands
<1> QED
  BY <1>1, <1>2 DEF Sound, Rowed, Lands

-----------------------------------------------------------------------------
(* Folding one mod into another *)

\* Nobody vouched for it and its aliases tell where it went.
MayGo(d, m) == Aliased(d, m) /\ ~Vouched(d.mods[m])

\* from's row is gone from e, and its aliases name into there.
Folded(d, from, into, e) ==
    /\ Sound(e) /\ DOMAIN e.mods = IF from = into THEN DOMAIN d.mods ELSE DOMAIN d.mods \ {from}
    /\ \A m \in DOMAIN e.mods : e.mods[m] = d.mods[m]
    /\ DOMAIN e.alias = DOMAIN d.alias
    /\ \A a \in DOMAIN d.alias : e.alias[a] = IF d.alias[a] = from THEN into ELSE d.alias[a]
    /\ Aliased(d, into) /\ (from \in DOMAIN d.mods => MayGo(d, from)) => Spares(d, e)

\* A release of the folded mod stays or has a twin among the survivor's own;
\* its files follow, and so does everything that named the folded mod.
LEMMA FoldSound ==
    ASSUME NEW d, Sound(d), NEW from, NEW into \in DOMAIN d.mods
    PROVE  Folded(d, from, into, FoldMods(d, from, into))
<1>1. CASE from = into
  BY <1>1, SparesItself DEF FoldMods, Folded
<1>2. CASE from # into
  <2> DEFINE mine == {r \in DOMAIN d.releases : d.releases[r].mod = from}
             twin(r) == ReleaseAt(d, into, d.releases[r].version, d.releases[r].channel)
             lost == {r \in mine : twin(r) # None}
             row(r) == [r EXCEPT !.from = IF @ = from THEN into ELSE @]
             Twinned(r) == \E s \in d.rels : s.from = into /\ [s EXCEPT !.rank = 0] = [row(r) EXCEPT !.rank = 0]
             releases == [r \in DOMAIN d.releases \ lost |->
                            IF r \in mine THEN [d.releases[r] EXCEPT !.mod = into] ELSE d.releases[r]]
             Moved(f) == [f EXCEPT !.release = IF @ \in lost THEN twin(@) ELSE @,
                                   !.mod = IF @ = from THEN into ELSE @]
             files == [s \in DOMAIN d.files |-> Moved(d.files[s])]
             alias == [a \in DOMAIN d.alias |-> IF d.alias[a] = from THEN into ELSE d.alias[a]]
             rels == {row(r) : r \in {q \in d.rels : ~(q.from = from /\ Twinned(q))}}
             packages == {IF p[1] = from THEN <<into, p[2]>> ELSE p : p \in d.packages}
             mods == Drop(d.mods, {from})
             e == [d EXCEPT !.releases = releases, !.files = files, !.alias = alias, !.rels = rels,
                            !.packages = packages, !.mods = mods]
  <2>1. FoldMods(d, from, into) = e
    BY <1>2, Zenon DEF FoldMods
  <2>2. /\ DOMAIN e = Tables /\ e.mods = mods /\ e.alias = alias /\ e.releases = releases
        /\ e.files = files /\ e.rels = rels /\ e.packages = packages /\ e.links = d.links
        /\ e.jarClass = d.jarClass
    BY DEF Sound, Rowed, Tables
  <2> HIDE DEF e
  <2>3. DOMAIN mods = DOMAIN d.mods \ {from} /\ into \in DOMAIN mods
    BY <1>2 DEF Drop
  <2>4. \A r \in lost : /\ twin(r) \in DOMAIN d.releases /\ d.releases[twin(r)].mod = into
                        /\ d.releases[twin(r)].channel = d.releases[r].channel
    BY ReleaseFound
  <2>5. \A r \in DOMAIN releases : DOMAIN releases[r] = ReleaseFields /\ releases[r].mod \in DOMAIN mods
    <3> SUFFICES ASSUME NEW r \in DOMAIN d.releases, r \notin lost
                 PROVE  DOMAIN releases[r] = ReleaseFields /\ releases[r].mod \in DOMAIN mods
      OBVIOUS
    <3>1. CASE r \in mine
      <4>1. releases[r] = [d.releases[r] EXCEPT !.mod = into]
        BY <3>1
      <4>2. DOMAIN d.releases[r] = ReleaseFields
        BY DEF Sound, Rowed
      <4> QED
        BY <2>3, <4>1, <4>2 DEF ReleaseFields
    <3>2. CASE r \notin mine
      BY <2>3, <3>2 DEF Sound, Rowed, Lands
    <3> QED
      BY <3>1, <3>2
  <2>6. \A s \in DOMAIN d.files :
           /\ DOMAIN files[s] = FileFields /\ files[s].n = d.files[s].n
           /\ files[s].mod = (IF d.files[s].mod = from THEN into ELSE d.files[s].mod)
           /\ files[s].release = (IF d.files[s].release \in lost THEN twin(d.files[s].release)
                                  ELSE d.files[s].release)
           /\ SameFile(d.files[s], files[s])
    <3> TAKE s \in DOMAIN d.files
    <3>1. DOMAIN d.files[s] = FileFields
      BY DEF Sound, Rowed
    <3> HIDE DEF lost, twin
    <3> QED
      BY <3>1 DEF FileFields, SameFile
  <2>7. \A s \in DOMAIN files : /\ files[s].mod \in DOMAIN mods
                                /\ files[s].release \in DOMAIN releases
                                /\ releases[files[s].release].mod = files[s].mod
    <3> SUFFICES ASSUME NEW s \in DOMAIN d.files
                 PROVE  /\ files[s].mod \in DOMAIN mods /\ files[s].release \in DOMAIN releases
                        /\ releases[files[s].release].mod = files[s].mod
      OBVIOUS
    <3> DEFINE r == d.files[s].release
    <3>1. /\ d.files[s].mod \in DOMAIN d.mods /\ r \in DOMAIN d.releases
          /\ d.releases[r].mod = d.files[s].mod
      BY DEF Sound, Lands
    <3>2. files[s].mod \in DOMAIN mods
      BY <2>3, <2>6, <3>1
    <3>3. CASE r \in lost
      <4>1. files[s].release = twin(r) /\ files[s].mod = into
        BY <2>6, <3>1, <3>3
      <4>2. twin(r) \notin mine /\ twin(r) \in DOMAIN d.releases /\ d.releases[twin(r)].mod = into
        BY <1>2, <2>4, <3>3
      <4>3. twin(r) \notin lost
        BY <4>2
      <4>4. releases[twin(r)] = d.releases[twin(r)]
        BY <4>2, <4>3
      <4>5. twin(r) \in DOMAIN releases
        BY <4>2, <4>3
      <4> HIDE DEF releases, files, twin, lost, mods
      <4> QED
        BY <3>2, <4>1, <4>2, <4>4, <4>5
    <3>4. CASE r \notin lost
      <4>1. files[s].release = r /\ r \in DOMAIN releases
        BY <2>6, <3>1, <3>4
      <4>2. CASE r \in mine
        <5>1. releases[r] = [d.releases[r] EXCEPT !.mod = into] /\ files[s].mod = into
          BY <2>6, <3>1, <4>1, <4>2
        <5>2. "mod" \in DOMAIN d.releases[r]
          BY <3>1 DEF Sound, Rowed, ReleaseFields
        <5> QED
          BY <3>2, <4>1, <5>1, <5>2
      <4>3. CASE r \notin mine
        <5>1. releases[r] = d.releases[r] /\ d.files[s].mod # from
          BY <3>1, <4>1, <4>3
        <5>2. files[s].mod = d.files[s].mod
          BY <2>6, <5>1
        <5> HIDE DEF releases, files, lost, mine, mods
        <5> QED
          BY <3>1, <3>2, <4>1, <5>1, <5>2
      <4> QED
        BY <4>2, <4>3
    <3> QED
      BY <3>3, <3>4
  <2>8. \A a \in DOMAIN alias : alias[a] \in DOMAIN mods
    BY <2>3 DEF Sound, Lands
  <2>15. \A s \in DOMAIN d.files :
           releases[files[s].release].channel = d.releases[d.files[s].release].channel
    <3> TAKE s \in DOMAIN d.files
    <3> DEFINE r == d.files[s].release
    <3>1. r \in DOMAIN d.releases /\ DOMAIN d.releases[r] = ReleaseFields
      BY DEF Sound, Rowed, Lands
    <3>2. CASE r \in lost
      <4>1. files[s].release = twin(r)
        BY <2>6, <3>2
      <4>2. twin(r) \notin mine /\ twin(r) \in DOMAIN d.releases
        BY <1>2, <2>4, <3>2
      <4>3. releases[twin(r)] = d.releases[twin(r)]
        BY <4>2
      <4> HIDE DEF releases, files, twin, lost, mine
      <4> QED
        BY <2>4, <3>2, <4>1, <4>3
    <3>3. CASE r \notin lost
      <4>1. files[s].release = r
        BY <2>6, <3>3
      <4>2. releases[r].channel = d.releases[r].channel
        BY <3>1, <3>3 DEF ReleaseFields
      <4> QED
        BY <4>1, <4>2
    <3> QED
      BY <3>2, <3>3
  <2>16. \A r \in d.rels : r.from # from => \E q \in rels : SameRelation(r, q) /\ q.from = r.from
    <3> SUFFICES ASSUME NEW r \in d.rels, r.from # from
                 PROVE  \E q \in rels : SameRelation(r, q) /\ q.from = r.from
      OBVIOUS
    <3>1. DOMAIN r = RelationFields
      BY DEF Sound, Rowed, Stated
    <3>2. SameRelation(r, row(r)) /\ row(r).from = r.from
      BY <3>1 DEF RelationFields, SameRelation
    <3> HIDE DEF row, Twinned
    <3>3. row(r) \in rels
      OBVIOUS
    <3> QED
      BY <3>2, <3>3
  <2>17. \A r \in d.rels : r.from = from => \E q \in rels : SameRelation(r, q) /\ q.from = into
    <3> SUFFICES ASSUME NEW r \in d.rels, r.from = from
                 PROVE  \E q \in rels : SameRelation(r, q) /\ q.from = into
      OBVIOUS
    <3>1. DOMAIN r = RelationFields
      BY DEF Sound, Rowed, Stated
    <3>2. SameRelation(r, row(r)) /\ row(r).from = into /\ DOMAIN row(r) = RelationFields
      BY <3>1 DEF RelationFields, SameRelation
    <3>3. CASE Twinned(r)
      <4>1. PICK s \in d.rels : s.from = into /\ [s EXCEPT !.rank = 0] = [row(r) EXCEPT !.rank = 0]
        BY <3>3
      <4>2. DOMAIN s = RelationFields
        BY DEF Sound, Rowed, Stated
      <4> HIDE DEF row, Twinned, rels
      <4>3. \A c \in RelationFields \ {"rank"} : s[c] = row(r)[c]
        <5> TAKE c \in RelationFields \ {"rank"}
        <5>1. [s EXCEPT !.rank = 0][c] = s[c] /\ [row(r) EXCEPT !.rank = 0][c] = row(r)[c]
          BY <3>2, <4>2
        <5> QED
          BY <4>1, <5>1
      <4>4. SameRelation(r, s)
        BY <3>2, <4>3 DEF SameRelation
      <4>5. PICK q \in rels : SameRelation(s, q) /\ q.from = s.from
        BY <1>2, <2>16, <4>1
      <4>6. SameRelation(r, q)
        BY <4>4, <4>5 DEF SameRelation
      <4> QED
        BY <4>1, <4>5, <4>6
    <3>4. CASE ~Twinned(r)
      <4> HIDE DEF row, Twinned
      <4>1. row(r) \in rels
        BY <3>4
      <4> QED
        BY <3>2, <4>1
    <3> QED
      BY <3>3, <3>4
  <2>18. DOMAIN alias = DOMAIN d.alias
         /\ \A a \in DOMAIN d.alias : alias[a] = IF d.alias[a] = from THEN into ELSE d.alias[a]
    OBVIOUS
  <2>19. \A m \in DOMAIN mods : mods[m] = d.mods[m]
    BY DEF Drop
  <2>9. \A q \in rels : /\ Stated(q) /\ q.from \in DOMAIN mods
                        /\ (q.kind = "conflicts") = (q.severity # None)
    <3> HIDE DEF row, Twinned, mods
    <3> SUFFICES ASSUME NEW r \in d.rels
                 PROVE  /\ Stated(row(r)) /\ row(r).from \in DOMAIN mods
                        /\ (row(r).kind = "conflicts") = (row(r).severity # None)
      OBVIOUS
    <3> USE DEF row
    <3>1. /\ Stated(r) /\ r.from \in DOMAIN d.mods
          /\ (r.kind = "conflicts") = (r.severity # None)
      BY DEF Sound, Rowed, Lands
    <3>2. /\ row(r) = [c \in RelationFields |-> row(r)[c]] /\ row(r).kind = r.kind /\ row(r).severity = r.severity
          /\ row(r).source = r.source /\ row(r).rank = r.rank
          /\ row(r).from = IF r.from = from THEN into ELSE r.from
      BY <3>1 DEF RelationFields, Stated
    <3> QED
      BY <2>3, <3>1, <3>2 DEF Stated
  <2>10. \A p \in packages : p[1] \in DOMAIN mods
    BY <2>3 DEF Sound, Lands
  <2>11. \A l \in d.links : \E s \in DOMAIN files : files[s].n = l[3]
    BY <2>6 DEF Sound, Lands
  <2>12. Bounded(DOMAIN mods) /\ Bounded(DOMAIN releases)
    BY <2>3, FewerRows DEF Sound, Rowed
  <2> HIDE DEF mods, releases, files, alias, rels, packages
  <2>13. Rowed(e)
    <3>1. DOMAIN files = DOMAIN d.files
      BY DEF files
    <3> QED
      BY <2>2, <2>5, <2>6, <2>9, <2>12, <3>1 DEF Rowed
  <2>14. Lands(e)
    BY <2>2, <2>5, <2>7, <2>8, <2>9, <2>10, <2>11 DEF Lands
  <2>20. ASSUME Aliased(d, into), from \in DOMAIN d.mods => MayGo(d, from) PROVE Spares(d, e)
    <3>1. ModsStay(d, e)
      BY <2>2, <2>3, <2>19, <2>20 DEF ModsStay, MayGo
    <3>2. ClassesStay(d, e)
      BY <2>2 DEF ClassesStay
    <3>3. FilesStay(d, e)
      <4>1. DOMAIN files = DOMAIN d.files
        BY DEF files
      <4>2. \A s \in DOMAIN d.files : ChannelOf(e, s) = ChannelOf(d, s)
        BY <2>2, <2>7, <2>15, <4>1 DEF ChannelOf, Sound, Lands
      <4> QED
        BY <2>2, <2>6, <4>1, <4>2 DEF FilesStay
    <3>4. AliasesStay(d, e)
      <4>1. \A a \in DOMAIN d.alias : Vouched(d.mods[d.alias[a]]) => d.alias[a] # from
        BY <2>20 DEF MayGo, Sound, Lands
      <4> QED
        BY <2>2, <2>18, <4>1 DEF AliasesStay
    <3>5. StraysStay(d, e)
      <4> SUFFICES ASSUME NEW m \in DOMAIN d.mods, ~Aliased(d, m)
                   PROVE  m \in DOMAIN e.mods /\ ~Aliased(e, m)
        BY DEF StraysStay
      <4>1. m # from /\ m # into
        BY <2>20 DEF MayGo
      <4> QED
        BY <2>2, <2>3, <2>18, <4>1 DEF Aliased
    <3>6. RelationsStay(d, e)
      <4> SUFFICES ASSUME NEW r \in d.rels
                   PROVE  \E q \in rels : SameRelation(r, q) /\ Follows(d, e, r.from, q.from)
        BY <2>2 DEF RelationsStay
      <4>1. CASE r.from = from
        <5>1. Aliased(d, from)
          BY <2>20, <4>1 DEF MayGo, Sound, Lands
        <5>2. Follows(d, e, from, into)
          BY <2>2, <2>18, <5>1 DEF Follows, Aliased
        <5> QED
          BY <2>17, <4>1, <5>2
      <4>2. CASE r.from # from
        <5>1. Follows(d, e, r.from, r.from)
          BY <2>2, <2>18, <4>2 DEF Follows, Aliased
        <5> QED
          BY <2>16, <4>2, <5>1
      <4> QED
        BY <4>1, <4>2
    <3> QED
      BY <3>1, <3>2, <3>3, <3>4, <3>5, <3>6 DEF Spares
  <2> QED
    BY <1>2, <2>1, <2>2, <2>3, <2>13, <2>14, <2>18, <2>19, <2>20 DEF Sound, Folded
<1> QED
  BY <1>1, <1>2

\* The rows a loop that folds one row after another has folded after k rounds.
Gone(c, k) == {c.losers[j] : j \in 1..k}

\* Nobody vouched for any row to be folded, and what names them will name keep.
MayAllGo(c, d) == Aliased(d, c.keep) /\ \A j \in 1..Len(c.losers) : MayGo(d, c.losers[j])

FoldsHold(c, base, k, d) ==
    /\ Sound(d) /\ c.keep \in DOMAIN d.mods
    /\ \A m \in DOMAIN d.mods : m \in DOMAIN base.mods /\ d.mods[m] = base.mods[m] /\ m \notin Gone(c, k)
    /\ DOMAIN d.alias = DOMAIN base.alias
    /\ \A a \in DOMAIN base.alias : d.alias[a] = IF base.alias[a] \in Gone(c, k) THEN c.keep ELSE base.alias[a]
    /\ MayAllGo(c, base) => Spares(base, d)

FoldLoop == INSTANCE Iteration WITH Step <- FoldStep, Holds <- FoldsHold

LEMMA FoldRound ==
    ASSUME NEW d, Sound(d), NEW c, Len(c.losers) \in Nat, NEW k \in 1..Len(c.losers), NEW v,
           FoldsHold(c, d, k - 1, v), \A j \in 1..Len(c.losers) : c.losers[j] # c.keep
    PROVE  FoldsHold(c, d, k, FoldStep(c, v, k))
<1> DEFINE x == c.losers[k]
           e == FoldMods(v, x, c.keep)
<1>1. FoldStep(c, v, k) = e
  BY DEF FoldStep
<1>2. /\ Sound(v) /\ c.keep \in DOMAIN v.mods /\ x # c.keep
      /\ \A m \in DOMAIN v.mods : m \in DOMAIN d.mods /\ v.mods[m] = d.mods[m] /\ m \notin Gone(c, k - 1)
      /\ DOMAIN v.alias = DOMAIN d.alias
      /\ \A a \in DOMAIN d.alias :
            v.alias[a] = IF d.alias[a] \in Gone(c, k - 1) THEN c.keep ELSE d.alias[a]
      /\ MayAllGo(c, d) => Spares(d, v)
  BY DEF FoldsHold
<1>3. Gone(c, k) = Gone(c, k - 1) \cup {x}
  <2>1. 1..k = (1..(k - 1)) \cup {k}
    OBVIOUS
  <2> QED
    BY <2>1 DEF Gone
<1> HIDE DEF x, e
<1>4. /\ Sound(e) /\ DOMAIN e.mods = DOMAIN v.mods \ {x}
      /\ \A m \in DOMAIN e.mods : e.mods[m] = v.mods[m]
      /\ DOMAIN e.alias = DOMAIN v.alias
      /\ \A a \in DOMAIN v.alias : e.alias[a] = IF v.alias[a] = x THEN c.keep ELSE v.alias[a]
      /\ Aliased(v, c.keep) /\ (x \in DOMAIN v.mods => MayGo(v, x)) => Spares(v, e)
  <2>1. Folded(v, x, c.keep, e)
    BY <1>2, FoldSound DEF e
  <2> QED
    BY <1>2, <2>1 DEF Folded
<1>5. c.keep \in DOMAIN e.mods
  BY <1>2, <1>4
<1>6. \A m \in DOMAIN e.mods : m \in DOMAIN d.mods /\ e.mods[m] = d.mods[m] /\ m \notin Gone(c, k)
  BY <1>2, <1>3, <1>4
<1>7. \A a \in DOMAIN d.alias : e.alias[a] = IF d.alias[a] \in Gone(c, k) THEN c.keep ELSE d.alias[a]
  BY <1>2, <1>3, <1>4
<1>8. ASSUME MayAllGo(c, d) PROVE Spares(d, e)
  <2>1. c.keep \notin Gone(c, k - 1)
    BY <1>2
  <2>2. Aliased(v, c.keep)
    BY <1>2, <1>8, <2>1 DEF MayAllGo, Aliased
  <2>3. ASSUME x \in DOMAIN v.mods PROVE MayGo(v, x)
    <3>1. MayGo(d, x)
      BY <1>8 DEF MayAllGo, x
    <3>2. x \notin Gone(c, k - 1) /\ v.mods[x] = d.mods[x]
      BY <1>2, <2>3
    <3> QED
      BY <1>2, <3>1, <3>2 DEF MayGo, Aliased
  <2> QED
    BY <1>2, <1>4, <1>8, <2>2, <2>3, SparesOn
<1> QED
  BY <1>1, <1>2, <1>4, <1>5, <1>6, <1>7, <1>8 DEF FoldsHold

LEMMA FoldAllSound ==
    ASSUME NEW d, Sound(d), NEW losers, Len(losers) \in Nat, NEW keep \in DOMAIN d.mods,
           \A k \in 1..Len(losers) : losers[k] # keep
    PROVE  FoldsHold([losers |-> losers, keep |-> keep], d, Len(losers), FoldAll(d, losers, keep))
<1> DEFINE c == [losers |-> losers, keep |-> keep]
<1>1. FoldsHold(c, d, 0, d)
  <2>1. Gone(c, 0) = {}
    BY DEF Gone
  <2> QED
    BY <2>1, SparesItself DEF FoldsHold
<1>2. \A v : \A k \in 1..Len(losers) : FoldsHold(c, d, k - 1, v) => FoldsHold(c, d, k, FoldStep(c, v, k))
  <2>1. c.losers = losers /\ c.keep = keep
    OBVIOUS
  <2> HIDE DEF c
  <2> QED
    BY <2>1, FoldRound
<1>3. FoldsHold(c, d, Len(losers), Loop(FoldStep, c, d, Len(losers)))
  <2> HIDE DEF c
  <2> QED
    BY ONLY Len(losers) \in Nat, <1>1, <1>2, FoldLoop!Kept DEF Loop, FoldLoop!Loop
<1> QED
  BY <1>3 DEF FoldAll

\* Two rows somebody vouched for, under these aliases.
Torn(d, A) == \E a, b \in A : /\ d.alias[a] # d.alias[b]
                             /\ Vouched(d.mods[d.alias[a]]) /\ Vouched(d.mods[d.alias[b]])

\* The aliases A name one mod, unless two were vouched for.
Collapsed(d, A) ==
    /\ A \subseteq DOMAIN d.alias
    /\ (\A a, b \in A : d.alias[a] = d.alias[b]) \/ Torn(d, A)

LEMMA StaysCollapsed ==
    ASSUME NEW d, Sound(d), NEW e, Spares(d, e), NEW A, Collapsed(d, A)
    PROVE  Collapsed(e, A)
<1>1. A \subseteq DOMAIN d.alias /\ A \subseteq DOMAIN e.alias
  BY DEF Collapsed, Spares, AliasesStay
<1>2. CASE \A a, b \in A : d.alias[a] = d.alias[b]
  BY <1>1, <1>2 DEF Collapsed, Spares, AliasesStay
<1>3. CASE Torn(d, A)
  <2>1. PICK a \in A, b \in A : /\ d.alias[a] # d.alias[b]
                               /\ Vouched(d.mods[d.alias[a]]) /\ Vouched(d.mods[d.alias[b]])
    BY <1>3 DEF Torn
  <2>2. e.alias[a] = d.alias[a] /\ e.alias[b] = d.alias[b]
    BY <1>1, <2>1 DEF Spares, AliasesStay
  <2>3. e.mods[e.alias[a]] = d.mods[d.alias[a]] /\ e.mods[e.alias[b]] = d.mods[d.alias[b]]
    BY <1>1, <2>1, <2>2 DEF Spares, ModsStay, Sound, Lands
  <2> QED
    BY <1>1, <2>1, <2>2, <2>3 DEF Collapsed, Torn
<1> QED
  BY <1>2, <1>3 DEF Collapsed

\* Two of them make a set of two.
LEMMA PairCounted ==
    ASSUME NEW S, IsFiniteSet(S), NEW x \in S, NEW y \in S, x # y
    PROVE  Cardinality(S) >= 2
<1>1. IsFiniteSet({x}) /\ Cardinality({x}) = 1
  BY FS_Singleton
<1>2. IsFiniteSet({x, y}) /\ Cardinality({x, y}) = 2
  <2>1. {x, y} = {x} \cup {y} /\ y \notin {x}
    OBVIOUS
  <2> QED
    BY <1>1, <2>1, FS_AddElement
<1>3. Cardinality({x, y}) <= Cardinality(S) /\ Cardinality(S) \in Nat
  <2>1. {x, y} \subseteq S
    OBVIOUS
  <2> QED
    BY <2>1, FS_Subset, FS_CardinalityType
<1> QED
  BY <1>2, <1>3

\* A set of two has two members.
LEMMA PairIn ==
    ASSUME NEW S, IsFiniteSet(S), Cardinality(S) >= 2
    PROVE  \E x, y \in S : x # y
<1>1. S # {}
  BY FS_EmptySet
<1>2. PICK x \in S : TRUE
  BY <1>1
<1>3. S # {x}
  BY FS_Singleton
<1> QED
  BY <1>2, <1>3

\* The mod a collision leaves is one of the rows that collided, and all of
\* them unless two were vouched for.
Merged(d, matched, at) ==
    /\ Sound(at.db) /\ at.id \in DOMAIN at.db.mods /\ at.id \in matched
    /\ DOMAIN at.db.alias = DOMAIN d.alias
    /\ \A m \in DOMAIN at.db.mods : m \in DOMAIN d.mods /\ (Aliased(d, m) => Aliased(at.db, m))
    /\ \/ Cardinality({m \in matched : Vouched(d.mods[m])}) >= 2 /\ at.db = d
       \/ \A a \in DOMAIN d.alias : at.db.alias[a] = IF d.alias[a] \in matched THEN at.id ELSE d.alias[a]
    /\ (\A m \in matched : Aliased(d, m)) => Spares(d, at.db)

LEMMA CollisionSound ==
    ASSUME NEW d, Sound(d), NEW matched \in SUBSET DOMAIN d.mods, matched # {}
    PROVE  Merged(d, matched, MergeCollidedMods(d, matched))
<1> DEFINE precious == {m \in matched : d.mods[m].source \in Precious}
           keep == IF precious = {} THEN Least(matched) ELSE Least(precious)
           losers == SetToSeq(matched \ {keep})
           c == [losers |-> losers, keep |-> keep]
<1>1. MergeCollidedMods(d, matched) =
        [db |-> IF Cardinality(precious) >= 2 THEN d ELSE FoldAll(d, losers, keep), id |-> keep]
  BY DEF MergeCollidedMods
<1>0. {m \in matched : Vouched(d.mods[m])} = precious
  BY DEF Vouched
<1>2. matched \subseteq Nat /\ IsFiniteSet(matched)
  <2>1. Bounded(DOMAIN d.mods)
    BY DEF Sound, Rowed
  <2>2. Bounded(matched) /\ matched \subseteq Nat
    BY <2>1 DEF Bounded
  <2> QED
    BY <2>2, RowsFinite
<1>3. keep \in matched /\ (precious # {} => keep \in precious)
  BY <1>2, LeastIn
<1>9. CASE Cardinality(precious) >= 2
  <2> HIDE DEF precious, keep
  <2> QED
    BY <1>0, <1>1, <1>3, <1>9, SparesItself DEF Merged
<1>10. CASE ~(Cardinality(precious) >= 2)
  <2>1. IsFiniteSet(precious)
    BY <1>2, FS_Subset
  <2>2. \A m \in matched : Vouched(d.mods[m]) => m = keep
    <3> SUFFICES ASSUME NEW m \in precious, m # keep PROVE FALSE
      BY DEF Vouched
    <3> HIDE DEF precious, keep
    <3> QED
      BY <1>3, <1>10, <2>1, PairCounted
  <2> HIDE DEF precious, keep
  <2>3. /\ Len(losers) \in Nat
        /\ Gone(c, Len(losers)) = matched \ {keep}
        /\ \A k \in 1..Len(losers) : losers[k] \in matched \ {keep}
    <3> DEFINE S == matched \ {keep}
    <3>1. IsFiniteSet(S)
      BY <1>2, FS_Subset
    <3> HIDE DEF S
    <3>2. /\ Len(SetToSeq(S)) \in Nat
          /\ \A k \in 1..Len(SetToSeq(S)) : SetToSeq(S)[k] \in S
          /\ \A x \in S : \E k \in 1..Len(SetToSeq(S)) : SetToSeq(S)[k] = x
      BY <3>1, OrderOf
    <3>3. {SetToSeq(S)[j] : j \in 1..Len(SetToSeq(S))} = S
      BY <3>2
    <3> QED
      BY <3>2, <3>3 DEF S, Gone
  <2>4. c.losers = losers /\ c.keep = keep
    OBVIOUS
  <2> HIDE DEF losers
  <2>5. FoldsHold(c, d, Len(losers), FoldAll(d, losers, keep))
    BY <1>3, <2>3, FoldAllSound
  <2> HIDE DEF c
  <2> DEFINE e == FoldAll(d, losers, keep)
  <2> HIDE DEF e
  <2>6. /\ Sound(e) /\ keep \in DOMAIN e.mods
        /\ \A m \in DOMAIN e.mods : m \in DOMAIN d.mods /\ m \notin matched \ {keep}
        /\ DOMAIN e.alias = DOMAIN d.alias
        /\ \A a \in DOMAIN d.alias : e.alias[a] = IF d.alias[a] \in matched \ {keep} THEN keep ELSE d.alias[a]
        /\ MayAllGo(c, d) => Spares(d, e)
    BY <2>3, <2>4, <2>5 DEF FoldsHold, e
  <2>7. ASSUME \A m \in matched : Aliased(d, m) PROVE Spares(d, e)
    <3>1. MayAllGo(c, d)
      BY <1>3, <2>2, <2>3, <2>4, <2>7 DEF MayAllGo, MayGo
    <3> QED
      BY <2>6, <3>1
  <2>8. \A m \in DOMAIN e.mods : Aliased(d, m) => Aliased(e, m)
    BY <2>6 DEF Aliased
  <2>9. \A a \in DOMAIN d.alias : e.alias[a] = IF d.alias[a] \in matched THEN keep ELSE d.alias[a]
    BY <1>3, <2>6
  <2> QED
    BY <1>1, <1>3, <1>10, <2>6, <2>7, <2>8, <2>9 DEF e, Merged
<1> QED
  BY <1>9, <1>10

\* A new identity row.
LEMMA ModBorn ==
    ASSUME NEW d, Sound(d), NEW row
    PROVE  LET fresh == NextRow(DOMAIN d.mods)
               e == [d EXCEPT !.mods = Put(@, fresh, row)]
           IN  /\ Sound(e) /\ DOMAIN e.mods = DOMAIN d.mods \cup {fresh}
               /\ e.alias = d.alias /\ e.files = d.files /\ e.releases = d.releases
               /\ fresh \notin DOMAIN d.mods /\ Spares(d, e)
<1> DEFINE fresh == NextRow(DOMAIN d.mods)
           born == [d EXCEPT !.mods = Put(@, fresh, row)]
<1>1. /\ DOMAIN born = Tables /\ born.mods = Put(d.mods, fresh, row) /\ born.alias = d.alias
      /\ born.files = d.files /\ born.releases = d.releases /\ born.rels = d.rels
      /\ born.packages = d.packages /\ born.links = d.links /\ born.jarClass = d.jarClass
  BY DEF Sound, Rowed, Tables
<1>2. Bounded(DOMAIN d.mods \cup {fresh}) /\ fresh \notin DOMAIN d.mods
  BY NextRowFree DEF Sound, Rowed
<1> HIDE DEF born, fresh
<1>3. DOMAIN born.mods = DOMAIN d.mods \cup {fresh}
  BY <1>1 DEF Put
<1>4. Rowed(born)
  BY <1>1, <1>2, <1>3 DEF Sound, Rowed
<1>5. Lands(born)
  BY <1>1, <1>3 DEF Sound, Lands
<1>6. ModsStay(d, born) /\ ClassesStay(d, born)
  BY <1>1, <1>2, <1>3 DEF ModsStay, ClassesStay, Put
<1>7. FilesStay(d, born)
  BY <1>1, SameFilesStay
<1>8. Spares(d, born)
  BY <1>1, <1>3, <1>6, <1>7, Spared
<1> QED
  BY <1>1, <1>2, <1>3, <1>4, <1>5, <1>8 DEF Sound, born, fresh

\* Whoever carries an alias is a mod afterwards, and the aliases of one jar
\* name one mod unless an operator vouched for two of them.
Named(d, aliases, at) ==
    /\ Sound(at.db) /\ at.id \in DOMAIN at.db.mods /\ Spares(d, at.db) /\ Collapsed(at.db, aliases)

\* The row the aliases lead to, before the new ones among them name it too.
Led(d, known, at) ==
    /\ Sound(at.db) /\ at.id \in DOMAIN at.db.mods /\ Spares(d, at.db) /\ DOMAIN at.db.alias = DOMAIN d.alias
    /\ at.id \in DOMAIN d.mods => Aliased(d, at.id)
    /\ (\A a \in known : at.db.alias[a] = at.id) \/ (Torn(d, known) /\ at.db = d)

LEMMA CollisionLed ==
    ASSUME NEW d, Sound(d), NEW known \in SUBSET DOMAIN d.alias, known # {}
    PROVE  Led(d, known, MergeCollidedMods(d, {d.alias[a] : a \in known}))
<1> DEFINE matched == {d.alias[a] : a \in known}
           at == MergeCollidedMods(d, matched)
           precious == {m \in matched : Vouched(d.mods[m])}
<1>1. matched \in SUBSET DOMAIN d.mods /\ matched # {}
  BY DEF Sound, Lands
<1>2. \A m \in matched : Aliased(d, m)
  BY DEF Aliased
<1>3. \A a \in known : d.alias[a] \in matched
  OBVIOUS
<1>4. IsFiniteSet(precious)
  <2>1. IsFiniteSet(DOMAIN d.mods)
    BY RowsFinite DEF Sound, Rowed
  <2>2. precious \subseteq DOMAIN d.mods
    BY <1>1
  <2> QED
    BY <2>1, <2>2, FS_Subset
<1>5. Cardinality(precious) >= 2 => Torn(d, known)
  <2> HAVE Cardinality(precious) >= 2
  <2>1. PICK x \in precious, y \in precious : x # y
    BY <1>4, PairIn
  <2>2. PICK a \in known, b \in known : x = d.alias[a] /\ y = d.alias[b]
    OBVIOUS
  <2> QED
    BY <2>1, <2>2 DEF Torn
<1>6. Merged(d, matched, at)
  <2> HIDE DEF matched
  <2> QED
    BY <1>1, CollisionSound
<1> HIDE DEF matched, at
<1>7. \/ Cardinality(precious) >= 2 /\ at.db = d
      \/ \A a \in DOMAIN d.alias : at.db.alias[a] = IF d.alias[a] \in matched THEN at.id ELSE d.alias[a]
  BY <1>6 DEF Merged
<1> HIDE DEF precious
<1> QED
  BY <1>2, <1>3, <1>5, <1>6, <1>7 DEF Led, Merged, at, matched

LEMMA AliasSound ==
    ASSUME NEW d, Sound(d), NEW aliases
    PROVE  Named(d, aliases, UpsertModByAlias(d, aliases))
<1> DEFINE known == aliases \cap DOMAIN d.alias
           matched == {d.alias[a] : a \in known}
           fresh == NextRow(DOMAIN d.mods)
           row == [source |-> "harvested", name |-> None, slug |-> None, env |-> None]
           born == [d EXCEPT !.mods = Put(@, fresh, row)]
           at == IF matched = {} THEN [db |-> born, id |-> fresh]
                 ELSE IF Cardinality(matched) = 1 THEN [db |-> d, id |-> CHOOSE m \in matched : TRUE]
                 ELSE MergeCollidedMods(d, matched)
           alias == [a \in DOMAIN at.db.alias \cup aliases |->
                       IF a \in DOMAIN at.db.alias THEN at.db.alias[a] ELSE at.id]
           e == [at.db EXCEPT !.alias = alias]
<1>1. UpsertModByAlias(d, aliases) = [db |-> e, id |-> at.id]
  BY Zenon DEF UpsertModByAlias
<1>2. matched \in SUBSET DOMAIN d.mods
  BY DEF Sound, Lands
<1>3. Led(d, known, at)
  <2>1. CASE matched = {}
    <3> HIDE DEF row
    <3>1. at.db = born /\ at.id = fresh /\ known = {}
      BY <2>1
    <3> HIDE DEF at, known
    <3>2. /\ Sound(born) /\ DOMAIN born.mods = DOMAIN d.mods \cup {fresh} /\ born.alias = d.alias
          /\ fresh \notin DOMAIN d.mods /\ Spares(d, born)
      BY ModBorn
    <3> HIDE DEF born, fresh
    <3> QED
      BY <3>1, <3>2 DEF Led
  <2>2. CASE matched # {} /\ Cardinality(matched) = 1
    <3>1. at.db = d /\ at.id \in matched
      BY <2>2
    <3>2. IsFiniteSet(matched)
      <4>1. IsFiniteSet(DOMAIN d.mods)
        BY RowsFinite DEF Sound, Rowed
      <4> QED
        BY <1>2, <4>1, FS_Subset
    <3>3. \A m \in matched : m = at.id
      <4> HIDE DEF matched, at
      <4> QED
        BY <2>2, <3>1, <3>2, PairCounted
    <3>4. Aliased(d, at.id) /\ at.id \in DOMAIN d.mods
      BY <1>2, <3>1 DEF Aliased
    <3>5. \A a \in known : d.alias[a] = at.id
      BY <3>3
    <3> HIDE DEF at, known, matched
    <3> QED
      BY <3>1, <3>4, <3>5, SparesItself DEF Led
  <2>3. CASE matched # {} /\ Cardinality(matched) # 1
    <3>1. at = MergeCollidedMods(d, matched)
      BY <2>3
    <3>2. known \in SUBSET DOMAIN d.alias /\ known # {}
      BY <2>3
    <3> HIDE DEF known, at
    <3> QED
      BY <3>1, <3>2, CollisionLed
  <2> QED
    BY <2>1, <2>2, <2>3
<1>4. known \subseteq DOMAIN d.alias /\ known \subseteq aliases /\ aliases \cap DOMAIN d.alias \subseteq known
  OBVIOUS
<1> HIDE DEF at, known
<1>5. /\ DOMAIN e = Tables /\ e.mods = at.db.mods /\ e.alias = alias /\ e.files = at.db.files
      /\ e.releases = at.db.releases /\ e.rels = at.db.rels /\ e.packages = at.db.packages
      /\ e.links = at.db.links /\ e.jarClass = at.db.jarClass
  BY <1>3 DEF Led, Sound, Rowed, Tables
<1> HIDE DEF e
<1>6. \A a \in DOMAIN alias : alias[a] \in DOMAIN at.db.mods
  BY <1>3 DEF Led, Sound, Lands
<1>7. /\ DOMAIN alias = DOMAIN at.db.alias \cup aliases
      /\ \A a \in DOMAIN at.db.alias : alias[a] = at.db.alias[a]
      /\ \A a \in DOMAIN alias \ DOMAIN at.db.alias : alias[a] = at.id
  OBVIOUS
<1> HIDE DEF alias
<1>8. Rowed(e) /\ Lands(e)
  BY <1>3, <1>5, <1>6 DEF Led, Sound, Rowed, Lands
<1>9. Spares(d, e)
  BY <1>3, <1>5, <1>7, AliasesAdded DEF Led
<1>10. Collapsed(e, aliases)
  <2>1. aliases \subseteq DOMAIN e.alias
    BY <1>5, <1>7
  <2>2. CASE \A a \in known : at.db.alias[a] = at.id
    <3>1. \A a \in aliases : e.alias[a] = at.id
      BY <1>3, <1>4, <1>5, <1>7, <2>2 DEF Led
    <3> QED
      BY <2>1, <3>1 DEF Collapsed
  <2>3. CASE Torn(d, known) /\ at.db = d
    <3>1. \A a \in known : e.alias[a] = d.alias[a] /\ e.mods = d.mods
      BY <1>4, <1>5, <1>7, <2>3
    <3>2. Torn(e, aliases)
      BY <1>4, <2>3, <3>1 DEF Torn
    <3> QED
      BY <2>1, <3>2 DEF Collapsed
  <2> QED
    BY <1>3, <2>2, <2>3 DEF Led
<1>11. Sound(e) /\ at.id \in DOMAIN e.mods
  BY <1>3, <1>5, <1>8 DEF Led, Sound
<1> QED
  BY <1>1, <1>9, <1>10, <1>11 DEF Named

-----------------------------------------------------------------------------
(* What the harvest writes of one jar *)

\* What every step on a jar keeps: sound tables, the mods there are and what
\* a harvest spares.
Keeps(d, e) == Sound(e) /\ DOMAIN e.mods = DOMAIN d.mods /\ Spares(d, e)

LEMMA KeepsItself == ASSUME NEW d, Sound(d) PROVE Keeps(d, d)
BY SparesItself DEF Keeps

LEMMA KeepsOn ==
    ASSUME NEW d, Sound(d), NEW e, NEW f, Keeps(d, e), Keeps(e, f)
    PROVE  Keeps(d, f)
BY SparesOn DEF Keeps

\* One artifact's row rewritten without moving it.
LEMMA RowRewritten ==
    ASSUME NEW d, Sound(d), NEW sha \in DOMAIN d.files, NEW f, DOMAIN f = FileFields,
           f.n = d.files[sha].n, f.mod = d.files[sha].mod, f.release = d.files[sha].release
    PROVE  LET e == [d EXCEPT !.files[sha] = f]
           IN  /\ Sound(e) /\ e.mods = d.mods /\ e.files = [d.files EXCEPT ![sha] = f]
               /\ (IsPreciousFile(d, sha) => SameFile(d.files[sha], f)) => Spares(d, e)
<1> DEFINE files == [d.files EXCEPT ![sha] = f]
<1>1. /\ DOMAIN files = DOMAIN d.files
      /\ \A s \in DOMAIN files : /\ DOMAIN files[s] = FileFields /\ files[s].n = d.files[s].n
                                 /\ files[s].mod = d.files[s].mod /\ files[s].release = d.files[s].release
  BY DEF Sound, Rowed
<1>2. [d EXCEPT !.files[sha] = f] = [d EXCEPT !.files = files]
  OBVIOUS
<1> HIDE DEF files
<1>3. Sound([d EXCEPT !.files = files])
  BY <1>1, FileColumns
<1> DEFINE e == [d EXCEPT !.files = files]
<1>4. /\ e.mods = d.mods /\ e.files = files /\ e.alias = d.alias /\ e.releases = d.releases
      /\ e.jarClass = d.jarClass /\ e.rels = d.rels
  BY DEF Sound, Rowed, Tables
<1> HIDE DEF e
<1>5. ASSUME IsPreciousFile(d, sha) => SameFile(d.files[sha], f) PROVE FilesStay(d, e)
  BY <1>4, <1>5 DEF FilesStay, SameFile, ChannelOf, Vouched, IsPreciousFile, files
<1>6. ModsStay(d, e) /\ ClassesStay(d, e)
  BY <1>4 DEF ModsStay, ClassesStay
<1>7. (IsPreciousFile(d, sha) => SameFile(d.files[sha], f)) => Spares(d, e)
  BY <1>4, <1>5, <1>6, Spared
<1> QED
  BY <1>2, <1>3, <1>4, <1>7 DEF files, e

\* An artifact under m, or under whoever an operator said.
FiledAs(d, sha, m) == sha \in DOMAIN d.files /\ (IsPreciousFile(d, sha) \/ d.files[sha].mod = m)

LEMMA VersionSound ==
    ASSUME NEW d, Sound(d), NEW m \in DOMAIN d.mods, NEW sha, NEW jar
    PROVE  LET e == UpsertModVersion(d, m, sha, jar)
           IN  Keeps(d, e) /\ FiledAs(e, sha, m)
<1>1. CASE IsPreciousFile(d, sha)
  BY <1>1, KeepsItself DEF UpsertModVersion, IsPreciousFile, FiledAs
<1>2. CASE ~IsPreciousFile(d, sha)
  <2> DEFINE at == UpsertRelease(d, m, jar.version, "unknown", "harvested")
             old == sha \in DOMAIN d.files
             row == [n |-> IF old THEN d.files[sha].n ELSE NextRow({d.files[s].n : s \in DOMAIN d.files}),
                     mod |-> m, version |-> jar.version, mc |-> jar.mc, filename |-> jar.filename,
                     targets |-> EffectiveTargets(jar.loaders), release |-> at.id, source |-> "harvested",
                     mrv |-> IF old THEN d.files[sha].mrv ELSE None,
                     digest |-> IF old THEN d.files[sha].digest ELSE None,
                     needs |-> IF old THEN d.files[sha].needs ELSE {}]
             e == [at.db EXCEPT !.files = Put(@, sha, row)]
  <2>1. UpsertModVersion(d, m, sha, jar) = e
    BY <1>2 DEF UpsertModVersion
  <2>2. /\ Sound(at.db) /\ at.id \in DOMAIN at.db.releases /\ at.db.releases[at.id].mod = m
        /\ at.db.mods = d.mods /\ at.db.files = d.files /\ Spares(d, at.db)
    BY ReleaseSound
  <2>3. DOMAIN row = FileFields
    BY DEF FileFields
  <2>4. row.mod = m /\ row.release = at.id /\ (sha \in DOMAIN d.files => row.n = d.files[sha].n)
    OBVIOUS
  <2> HIDE DEF at, row
  <2>5. /\ Sound(e) /\ e.mods = at.db.mods /\ sha \in DOMAIN e.files /\ e.files[sha] = row
        /\ ~IsPreciousFile(at.db, sha) => Spares(at.db, e)
    BY <2>2, <2>3, <2>4, FiledSound
  <2> HIDE DEF e
  <2>6. Spares(d, e)
    BY <1>2, <2>2, <2>5, SparesOn DEF IsPreciousFile
  <2> QED
    BY <2>1, <2>2, <2>4, <2>5, <2>6 DEF Keeps, FiledAs
<1> QED
  BY <1>1, <1>2

LEMMA ModrinthVersionSound ==
    ASSUME NEW d, Sound(d), NEW sha, NEW m, FiledAs(d, sha, m), NEW mrv
    PROVE  LET e == SetModVersionModrinth(d, sha, mrv)
           IN  Keeps(d, e) /\ FiledAs(e, sha, m)
<1>1. CASE IsPreciousFile(d, sha)
  BY <1>1, KeepsItself DEF SetModVersionModrinth
<1>2. CASE ~IsPreciousFile(d, sha)
  <2> DEFINE f == [d.files[sha] EXCEPT !.mrv = Coalesce(mrv, @)]
             e == [d EXCEPT !.files[sha] = f]
  <2>1. SetModVersionModrinth(d, sha, mrv) = e
    BY <1>2 DEF SetModVersionModrinth
  <2>2. sha \in DOMAIN d.files /\ DOMAIN d.files[sha] = FileFields
    BY DEF FiledAs, Sound, Rowed
  <2>3. /\ DOMAIN f = FileFields /\ f.n = d.files[sha].n /\ f.mod = d.files[sha].mod
        /\ f.release = d.files[sha].release
    BY <2>2 DEF FileFields
  <2> HIDE DEF f
  <2>4. /\ Sound(e) /\ e.mods = d.mods /\ e.files = [d.files EXCEPT ![sha] = f]
        /\ Spares(d, e)
    BY <1>2, <2>2, <2>3, RowRewritten
  <2>5. sha \in DOMAIN e.files /\ e.files[sha].mod = d.files[sha].mod
    BY <2>2, <2>3, <2>4
  <2> QED
    BY <1>2, <2>1, <2>4, <2>5 DEF Keeps, FiledAs
<1> QED
  BY <1>1, <1>2

LEMMA HarvestedReleaseSound ==
    ASSUME NEW d, Sound(d), NEW sha, NEW m \in DOMAIN d.mods, FiledAs(d, sha, m), NEW version, NEW channel
    PROVE  LET e == SetHarvestedRelease(d, sha, m, version, channel)
           IN  Keeps(d, e) /\ sha \in DOMAIN e.files
<1>1. CASE IsPreciousFile(d, sha)
  BY <1>1, KeepsItself DEF SetHarvestedRelease, FiledAs
<1>2. CASE ~IsPreciousFile(d, sha)
  <2> DEFINE at == UpsertRelease(d, m, version, channel, "harvested")
             row == [at.db.files[sha] EXCEPT !.release = at.id]
             e == [at.db EXCEPT !.files = Put(@, sha, row)]
  <2>1. /\ Sound(at.db) /\ at.id \in DOMAIN at.db.releases /\ at.db.releases[at.id].mod = m
        /\ at.db.mods = d.mods /\ at.db.files = d.files /\ Spares(d, at.db)
    BY ReleaseSound
  <2>2. sha \in DOMAIN d.files /\ d.files[sha].mod = m /\ DOMAIN d.files[sha] = FileFields
    BY <1>2 DEF FiledAs, Sound, Rowed
  <2>3. SetHarvestedRelease(d, sha, m, version, channel) = [at.db EXCEPT !.files[sha].release = at.id]
    BY <1>2, <2>2 DEF SetHarvestedRelease
  <2>4. DOMAIN row = FileFields /\ row.mod = m /\ row.release = at.id /\ row.n = d.files[sha].n
    BY <2>1, <2>2 DEF FileFields
  <2> HIDE DEF at
  <2>5. [at.db EXCEPT !.files[sha].release = at.id] = e
    <3>1. [at.db.files EXCEPT ![sha].release = at.id] = Put(at.db.files, sha, row)
      BY <2>1, <2>2 DEF Put
    <3> HIDE DEF row
    <3> QED
      BY <3>1
  <2> HIDE DEF row
  <2>6. /\ Sound(e) /\ e.mods = at.db.mods /\ sha \in DOMAIN e.files
        /\ ~IsPreciousFile(at.db, sha) => Spares(at.db, e)
    BY <2>1, <2>4, FiledSound
  <2> HIDE DEF e
  <2>7. Spares(d, e)
    BY <1>2, <2>1, <2>6, SparesOn DEF IsPreciousFile
  <2> QED
    BY <2>1, <2>3, <2>5, <2>6, <2>7 DEF Keeps
<1> QED
  BY <1>1, <1>2

LEMMA MetaSound ==
    ASSUME NEW d, Sound(d), NEW m, NEW name, NEW slug
    PROVE  Keeps(d, SetModMeta(d, m, name, slug))
<1> DEFINE mods == [d.mods EXCEPT ![m].name = Coalesce(name, @), ![m].slug = Coalesce(slug, @)]
           e == [d EXCEPT !.mods = mods]
<1>1. CASE d.mods[m].source \in Precious
  BY <1>1, KeepsItself DEF SetModMeta
<1>2. CASE d.mods[m].source \notin Precious
  <2>1. SetModMeta(d, m, name, slug) = e
    <3>1. [d EXCEPT !.mods[m].name = Coalesce(name, @), !.mods[m].slug = Coalesce(slug, @)] = e
      BY DEF Sound, Rowed, Tables
    <3> QED
      BY <1>2, <3>1 DEF SetModMeta
  <2>2. DOMAIN mods = DOMAIN d.mods /\ \A x \in DOMAIN d.mods : x # m => mods[x] = d.mods[x]
    OBVIOUS
  <2>3. \A x \in DOMAIN d.mods : Vouched(d.mods[x]) => mods[x] = d.mods[x]
    <3> HIDE DEF mods
    <3> QED
      BY <1>2, <2>2 DEF Vouched
  <2> HIDE DEF mods
  <2>4. Sound(e) /\ e.mods = mods /\ Spares(d, e)
    BY <2>2, <2>3, ModsRewritten, ModsSpared DEF Sound, Rowed, Tables
  <2> QED
    BY <2>1, <2>2, <2>4 DEF Keeps
<1> QED
  BY <1>1, <1>2

LEMMA JarFiled ==
    ASSUME NEW d, Sound(d), NEW m \in DOMAIN d.mods, NEW jar
    PROVE  Keeps(d, FileJar(d, m, jar)) /\ jar.sha \in DOMAIN FileJar(d, m, jar).files
<1> DEFINE d1 == SetModMeta(d, m, jar.name, jar.slug)
           d2 == UpsertModVersion(d1, m, jar.sha, jar)
           d3 == SetModVersionModrinth(d2, jar.sha, jar.mrv)
           d4 == SetHarvestedRelease(d3, jar.sha, m, jar.version, jar.channel)
<1>1. Keeps(d, d1)
  BY MetaSound
<1> HIDE DEF d1
<1>2. Keeps(d1, d2) /\ FiledAs(d2, jar.sha, m)
  BY <1>1, VersionSound DEF Keeps
<1> HIDE DEF d2
<1>3. Keeps(d2, d3) /\ FiledAs(d3, jar.sha, m)
  BY <1>1, <1>2, ModrinthVersionSound DEF Keeps
<1> HIDE DEF d3
<1>4. Keeps(d3, d4) /\ jar.sha \in DOMAIN d4.files
  BY <1>1, <1>2, <1>3, HarvestedReleaseSound DEF Keeps
<1>5. FileJar(d, m, jar) = d4
  BY DEF FileJar, d1, d2, d3
<1> HIDE DEF d4
<1>6. Keeps(d, d2)
  BY <1>1, <1>2, KeepsOn
<1>7. Keeps(d, d3)
  BY <1>3, <1>6, KeepsOn
<1> QED
  BY <1>4, <1>5, <1>7, KeepsOn

LEMMA ClassesSound ==
    ASSUME NEW d, Sound(d), NEW jar, jar.sha \in DOMAIN d.files
    PROVE  Keeps(d, KeepClasses(d, jar)) /\ jar.sha \in DOMAIN KeepClasses(d, jar).files
<1> DEFINE f == [d.files[jar.sha] EXCEPT !.digest = jar.classes, !.needs = jar.needs]
           e == [d EXCEPT !.files[jar.sha] = f]
<1>1. KeepClasses(d, jar) \in {d, e}
  <2>1. SetMixinNeeds(SetClassDigest(d, jar.sha, jar.classes), jar.sha, jar.needs) = e
    BY DEF SetMixinNeeds, SetClassDigest, Sound, Rowed, Tables
  <2> QED
    BY <2>1 DEF KeepClasses
<1>2. DOMAIN d.files[jar.sha] = FileFields
  BY DEF Sound, Rowed
<1>3. /\ DOMAIN f = FileFields /\ f.n = d.files[jar.sha].n /\ f.mod = d.files[jar.sha].mod
      /\ f.release = d.files[jar.sha].release /\ SameFile(d.files[jar.sha], f)
  BY <1>2 DEF FileFields, SameFile
<1> HIDE DEF f
<1>4. /\ Sound(e) /\ e.mods = d.mods /\ e.files = [d.files EXCEPT ![jar.sha] = f]
      /\ Spares(d, e)
  BY <1>3, RowRewritten
<1> QED
  BY <1>1, <1>4, KeepsItself DEF Keeps

\* The tables of readouts, classes and windows are nobody's reference.
LEMMA ReadoutsSound ==
    ASSUME NEW d, Sound(d), NEW read, NEW class, NEW windows
    PROVE  /\ Keeps(d, [d EXCEPT !.jarRead = read]) /\ Keeps(d, [d EXCEPT !.windows = windows])
           /\ [d EXCEPT !.windows = windows].files = d.files
           /\ Sound([d EXCEPT !.jarClass = class])
           /\ ClassesStay(d, [d EXCEPT !.jarClass = class]) => Keeps(d, [d EXCEPT !.jarClass = class])
<1>1. DOMAIN d = Tables
  BY DEF Sound, Rowed
<1>2. Keeps(d, [d EXCEPT !.jarRead = read])
  BY <1>1, Untouched, SameSpared DEF Keeps, Tables
<1>3. Keeps(d, [d EXCEPT !.windows = windows])
  BY <1>1, Untouched, SameSpared DEF Keeps, Tables
<1> DEFINE e == [d EXCEPT !.jarClass = class]
<1>4. /\ DOMAIN e = DOMAIN d /\ e.mods = d.mods /\ e.alias = d.alias /\ e.files = d.files
      /\ e.releases = d.releases /\ e.rels = d.rels /\ e.packages = d.packages /\ e.links = d.links
  BY <1>1 DEF Tables
<1> HIDE DEF e
<1>5. Sound(e)
  BY <1>4, Untouched
<1>6. ASSUME ClassesStay(d, e) PROVE Keeps(d, e)
  <2>1. FilesStay(d, e)
    BY <1>4, SameFilesStay
  <2>2. ModsStay(d, e)
    BY <1>4 DEF ModsStay
  <2>3. Spares(d, e)
    BY <1>4, <1>6, <2>1, <2>2, Spared
  <2> QED
    BY <1>4, <1>5, <2>3 DEF Keeps
<1>7. [d EXCEPT !.windows = windows].files = d.files
  BY <1>1 DEF Tables
<1> QED
  BY <1>2, <1>3, <1>5, <1>6, <1>7 DEF e

LEMMA WindowsSound ==
    ASSUME NEW d, Sound(d), NEW jar
    PROVE  Keeps(d, KeepWindows(d, jar)) /\ KeepWindows(d, jar).files = d.files
<1>1. CASE jar.windows = None
  BY <1>1, KeepsItself DEF KeepWindows
<1>2. CASE jar.windows # None
  BY <1>2, ReadoutsSound DEF KeepWindows, SetArtifactLoaderReqs
<1> QED
  BY <1>1, <1>2

\* What a scan read of a jar and its class are kept whoever it is.
LEMMA ReadSound ==
    ASSUME NEW d, Sound(d), NEW jar
    PROVE  Keeps(d, ClassifyJar(SetJarRead(d, jar.sha, jar.modid, jar.filename), jar))
<1> DEFINE e == SetJarRead(d, jar.sha, jar.modid, jar.filename)
<1>1. Keeps(d, e)
  BY ReadoutsSound DEF SetJarRead
<1> HIDE DEF e
<1>2. Keeps(e, ClassifyJar(e, jar))
  <2>1. Sound(e) /\ Keeps(e, e)
    BY <1>1, KeepsItself DEF Keeps
  <2> DEFINE class == Put(e.jarClass, jar.sha, [jar.class EXCEPT !.source = "derived"])
             said == jar.sha \in DOMAIN e.jarClass /\ e.jarClass[jar.sha].source = "authored"
  <2>2. ClassifyJar(e, jar) = IF jar.class = None \/ said THEN e ELSE [e EXCEPT !.jarClass = class]
    BY DEF ClassifyJar, SetJarClass
  <2>3. ASSUME ~said PROVE ClassesStay(e, [e EXCEPT !.jarClass = class])
    <3>1. [e EXCEPT !.jarClass = class].jarClass = class
      BY <2>1 DEF Sound, Rowed, Tables
    <3>2. \A s \in DOMAIN e.jarClass : s \in DOMAIN class /\ (s # jar.sha => class[s] = e.jarClass[s])
      BY DEF Put
    <3> HIDE DEF class
    <3> QED
      BY <2>3, <3>1, <3>2 DEF ClassesStay
  <2> HIDE DEF class, said
  <2>4. ~said => Keeps(e, [e EXCEPT !.jarClass = class])
    BY <2>1, <2>3, ReadoutsSound
  <2> QED
    BY <2>1, <2>2, <2>4
<1> QED
  BY <1>1, <1>2, KeepsOn DEF e

\* Rows that are relations, whoever they are from.
Row(r) == Stated(r) /\ (r.kind = "conflicts") = (r.severity # None)

Rows(R) == \A r \in R : Row(r)

LEMMA RowsSound ==
    ASSUME NEW d, Sound(d), NEW R, Rows(R)
    PROVE  LET e == UpsertRelationRanked(d, R)
           IN  /\ Keeps(d, e) /\ e.mods = d.mods /\ e.files = d.files /\ e.alias = d.alias
<1> DEFINE e == UpsertRelationRanked(d, R)
<1>1. /\ Sound(e) /\ e.mods = d.mods /\ e.alias = d.alias /\ e.files = d.files
      /\ e.releases = d.releases /\ e.jarClass = d.jarClass /\ d.rels \subseteq e.rels
  BY RelationsSound DEF Rows, Row
<1> HIDE DEF e
<1>2. Spares(d, e)
  BY <1>1, SameSpared
<1> QED
  BY <1>1, <1>2 DEF Keeps, e

LEMMA SourcedRow ==
    ASSUME NEW from, NEW n, NEW target, NEW range, NEW kind, NEW severity, NEW source
    PROVE  Row(Sourced(from, n, target, range, kind, severity, source))
BY RelationRow DEF Sourced, Row, Stated

\* Relations may be wiped and packages learned.
LEMMA FewerRelations ==
    ASSUME NEW d, Sound(d), NEW R \in SUBSET d.rels
    PROVE  LET e == [d EXCEPT !.rels = R]
           IN  /\ Sound(e)
               /\ (\A r \in d.rels : r.source \in {"authored", "modrinth"} => r \in R) => Keeps(d, e)
<1> DEFINE e == [d EXCEPT !.rels = R]
<1>1. /\ DOMAIN e = Tables /\ e.mods = d.mods /\ e.alias = d.alias /\ e.files = d.files
      /\ e.releases = d.releases /\ e.rels = R /\ e.packages = d.packages /\ e.links = d.links
      /\ e.jarClass = d.jarClass
  BY DEF Sound, Rowed, Tables
<1> HIDE DEF e
<1>2. Sound(e)
  BY <1>1 DEF Sound, Rowed, Lands
<1>3. (\A r \in d.rels : r.source \in {"authored", "modrinth"} => r \in R) => Keeps(d, e)
  BY <1>1, <1>2, SameSpared DEF Keeps
<1> QED
  BY <1>2, <1>3 DEF e

LEMMA PackagesSound ==
    ASSUME NEW d, Sound(d), NEW m \in DOMAIN d.mods, NEW prefixes
    PROVE  Keeps(d, SetModPackages(d, m, prefixes))
<1> DEFINE packages == d.packages \cup {<<m, p>> : p \in prefixes}
           e == [d EXCEPT !.packages = packages]
<1>1. SetModPackages(d, m, prefixes) = e
  BY DEF SetModPackages
<1>2. /\ DOMAIN e = Tables /\ e.mods = d.mods /\ e.alias = d.alias /\ e.files = d.files
      /\ e.releases = d.releases /\ e.rels = d.rels /\ e.packages = packages /\ e.links = d.links
      /\ e.jarClass = d.jarClass
  BY DEF Sound, Rowed, Tables
<1> HIDE DEF e
<1>3. \A p \in packages : p[1] \in DOMAIN d.mods
  BY DEF Sound, Lands
<1> HIDE DEF packages
<1>4. Sound(e)
  BY <1>2, <1>3 DEF Sound, Rowed, Lands
<1>5. Spares(d, e)
  BY <1>2, SameSpared
<1> QED
  BY <1>1, <1>2, <1>4, <1>5 DEF Keeps

LEMMA JarRelationsSound ==
    ASSUME NEW d, Sound(d), NEW m, NEW n, NEW jar
    PROVE  Keeps(d, JarRelations(d, m, n, jar))
<1> DEFINE rest == {r \in d.rels : ~(r.file = n /\ r.source = "jar-meta")}
           clean == [d EXCEPT !.rels = rest]
           declared == {Relation(m, n, x.target, x.range, x.kind, x.severity, "jar-meta", MANIFEST_DEP_RANK) :
                          x \in jar.declared}
           required == {Sourced(m, n, <<"modid", k, "">>, None, "requires", None, "jar-meta") :
                          k \in jar.requires}
<1>1. Keeps(d, clean)
  <2>1. rest \in SUBSET d.rels /\ \A r \in d.rels : r.source \in {"authored", "modrinth"} => r \in rest
    OBVIOUS
  <2> HIDE DEF rest
  <2> QED
    BY <2>1, FewerRelations
<1>2. Rows(declared)
  BY RelationRow DEF Rows, Row, Stated
<1>3. Rows(required)
  BY SourcedRow, Zenon DEF Rows
<1>4. JarRelations(d, m, n, jar)
        \in {clean, UpsertRelationRanked(UpsertRelationRanked(clean, declared), required)}
  BY Zenon DEF JarRelations
<1> HIDE DEF clean, declared, required
<1>5. Keeps(clean, UpsertRelationRanked(clean, declared))
  BY <1>1, <1>2, RowsSound DEF Keeps
<1> DEFINE e == UpsertRelationRanked(clean, declared)
<1> HIDE DEF e
<1>6. Keeps(d, e)
  BY <1>1, <1>5, KeepsOn DEF e
<1>7. Keeps(e, UpsertRelationRanked(e, required))
  BY <1>3, <1>6, RowsSound DEF Keeps
<1>8. Keeps(d, UpsertRelationRanked(e, required))
  BY <1>6, <1>7, KeepsOn
<1> QED
  BY <1>1, <1>4, <1>8 DEF e

LEMMA CapabilitiesSound ==
    ASSUME NEW d, Sound(d), NEW m, NEW n, NEW jar
    PROVE  Keeps(d, Capabilities(d, m, n, jar))
<1> DEFINE R == {Sourced(m, n, <<"loader", Bridges[p], "">>, None, "provides", None, "harvested") :
                    p \in {jar.project} \cap DOMAIN Bridges}
                \cup {Sourced(m, n, <<"runtime", l, "">>, None, "provides", None, "inferred") : l \in jar.providesRt}
                \cup {Sourced(m, n, <<"runtime", l, "">>, None, "requires", None, "inferred") : l \in jar.needsRt}
<1>1. Rows(R)
  BY SourcedRow, Zenon DEF Rows
<1>2. Capabilities(d, m, n, jar) = UpsertRelationRanked(d, R)
  BY Zenon DEF Capabilities
<1> HIDE DEF R
<1>3. Keeps(d, UpsertRelationRanked(d, R))
  BY <1>1, RowsSound
<1> QED
  BY <1>2, <1>3

LEMMA ModrinthRelationsSound ==
    ASSUME NEW d, Sound(d), NEW m, NEW n, NEW jar
    PROVE  Keeps(d, ModrinthRelations(d, m, n, jar))
<1> DEFINE R == {Sourced(m, n, <<"modrinth", x.project, "">>, x.version, ModrinthRelKind(x.type), SeverityOf(x),
                         "modrinth") :
                    x \in {y \in jar.mdeps : y.project \notin {None, jar.project} /\ ModrinthRelKind(y.type) # None}}
<1>1. Rows(R)
  BY SourcedRow, Zenon DEF Rows
<1>2. ModrinthRelations(d, m, n, jar) = UpsertRelationRanked(d, R)
  BY Zenon DEF ModrinthRelations
<1> HIDE DEF R
<1>3. Keeps(d, UpsertRelationRanked(d, R))
  BY <1>1, RowsSound
<1> QED
  BY <1>2, <1>3

LEMMA JarRelated ==
    ASSUME NEW st, NEW d, Sound(d), NEW m \in DOMAIN d.mods, NEW n, NEW jar
    PROVE  LET e == RelateJar(st, d, m, n, jar) IN "db" \in DOMAIN e /\ Keeps(d, e.db)
<1> DEFINE d1 == JarRelations(d, m, n, jar)
           d2 == SetModPackages(d1, m, jar.owned)
           d3 == Capabilities(d2, m, n, jar)
           d4 == ModrinthRelations(d3, m, n, jar)
<1>1. "db" \in DOMAIN RelateJar(st, d, m, n, jar) /\ RelateJar(st, d, m, n, jar).db = d4
  BY DEF RelateJar
<1>2. Keeps(d, d1)
  BY JarRelationsSound
<1> HIDE DEF d1
<1>3. Keeps(d1, d2)
  BY <1>2, PackagesSound DEF Keeps
<1> HIDE DEF d2
<1>4. Keeps(d2, d3)
  BY <1>3, CapabilitiesSound DEF Keeps
<1> HIDE DEF d3
<1>5. Keeps(d3, d4)
  BY <1>4, ModrinthRelationsSound DEF Keeps
<1> HIDE DEF d4
<1>6. Keeps(d, d2)
  BY <1>2, <1>3, KeepsOn
<1>7. Keeps(d, d3)
  BY <1>4, <1>6, KeepsOn
<1>8. Keeps(d, d4)
  BY <1>5, <1>7, KeepsOn
<1> QED
  BY <1>1, <1>8

LEMMA JarIdentified ==
    ASSUME NEW st, NEW at, Sound(at.db), at.id \in DOMAIN at.db.mods, NEW jar
    PROVE  LET e == IdentifyJar(st, at, jar) IN "db" \in DOMAIN e /\ Keeps(at.db, e.db)
<1> DEFINE d1 == FileJar(at.db, at.id, jar)
           d2 == KeepClasses(d1, jar)
           d3 == KeepWindows(d2, jar)
           e == RelateJar(st, d3, at.id, d1.files[jar.sha].n, jar)
<1>1. IdentifyJar(st, at, jar) = e
  BY Zenon DEF IdentifyJar, PlaceJar
<1>2. Keeps(at.db, d1) /\ jar.sha \in DOMAIN d1.files
  BY JarFiled
<1> HIDE DEF d1
<1>3. Keeps(d1, d2)
  BY <1>2, ClassesSound DEF Keeps
<1> HIDE DEF d2
<1>4. Keeps(d2, d3)
  BY <1>3, WindowsSound DEF Keeps
<1> HIDE DEF d3
<1>5. Keeps(at.db, d3)
  <2>1. Keeps(at.db, d2)
    BY <1>2, <1>3, KeepsOn
  <2> QED
    BY <1>4, <2>1, KeepsOn
<1>6. "db" \in DOMAIN e /\ Keeps(d3, e.db)
  BY <1>5, JarRelated DEF Keeps
<1> HIDE DEF e
<1>7. Keeps(at.db, e.db)
  BY <1>5, <1>6, KeepsOn
<1> QED
  BY <1>1, <1>6, <1>7

\* Whatever was spared is, and this jar's aliases name one mod.
LEMMA JarRegistered ==
    ASSUME NEW st, "db" \in DOMAIN st, Sound(st.db), NEW jar
    PROVE  LET e == RegisterJar(st, jar)
           IN  /\ "db" \in DOMAIN e /\ Sound(e.db) /\ Spares(st.db, e.db)
               /\ Collapsed(e.db, AliasesOf(jar))
<1> DEFINE classed == ClassifyJar(SetJarRead(st.db, jar.sha, jar.modid, jar.filename), jar)
           at == UpsertModByAlias(classed, AliasesOf(jar))
           e == IdentifyJar(st, at, jar)
<1>1. Keeps(st.db, classed)
  BY ReadSound
<1>2. RegisterJar(st, jar) = IF AliasesOf(jar) = {} THEN [st EXCEPT !.db = classed] ELSE e
  BY Zenon DEF RegisterJar
<1> HIDE DEF classed
<1>3. Sound(classed) /\ Spares(st.db, classed)
  BY <1>1 DEF Keeps
<1>4. /\ Sound(at.db) /\ at.id \in DOMAIN at.db.mods /\ Spares(classed, at.db)
      /\ Collapsed(at.db, AliasesOf(jar))
  BY <1>3, AliasSound DEF Named
<1> HIDE DEF at
<1>5. "db" \in DOMAIN e /\ Keeps(at.db, e.db)
  BY <1>4, JarIdentified
<1> HIDE DEF e
<1>6. Sound(e.db) /\ Spares(st.db, e.db) /\ Collapsed(e.db, AliasesOf(jar))
  <2>1. Sound(e.db) /\ Spares(at.db, e.db)
    BY <1>5 DEF Keeps
  <2>2. Spares(st.db, at.db)
    BY <1>3, <1>4, SparesOn
  <2>3. Spares(st.db, e.db)
    BY <1>4, <2>1, <2>2, SparesOn
  <2> QED
    BY <1>4, <2>1, <2>3, StaysCollapsed
<1>7. "db" \in DOMAIN [st EXCEPT !.db = classed] /\ [st EXCEPT !.db = classed].db = classed
  OBVIOUS
<1>8. AliasesOf(jar) = {} => Collapsed(classed, AliasesOf(jar))
  BY DEF Collapsed
<1> QED
  BY <1>2, <1>3, <1>5, <1>6, <1>7, <1>8

-----------------------------------------------------------------------------
(* The transaction of a scan *)

\* A step after which the tables are sound and what a harvest spares is there.
Careful(d, e) == Sound(e) /\ Spares(d, e)

LEMMA CarefulOn ==
    ASSUME NEW d, Sound(d), NEW e, NEW f, Careful(d, e), Careful(e, f)
    PROVE  Careful(d, f)
BY SparesOn DEF Careful

\* The tables at every turn of the loop over the jars: whatever was spared is
\* there, and the aliases of each jar met so far name one mod.
JarsHold(c, base, k, st) ==
    /\ "db" \in DOMAIN st /\ Careful(base.db, st.db)
    /\ \A j \in 1..k : Collapsed(st.db, AliasesOf(c.jars[c.order[j]]))

JarLoop == INSTANCE Iteration WITH Step <- JarStep, Holds <- JarsHold

LEMMA JarRound ==
    ASSUME NEW c, NEW st, Sound(st.db), NEW n \in Nat, NEW k \in 1..n, NEW v, JarsHold(c, st, k - 1, v)
    PROVE  JarsHold(c, st, k, JarStep(c, v, k))
<1> DEFINE jar == c.jars[c.order[k]]
           e == RegisterJar(v, jar)
<1>1. JarStep(c, v, k) = e
  BY DEF JarStep
<1>2. /\ "db" \in DOMAIN v /\ Sound(v.db) /\ Spares(st.db, v.db)
      /\ \A j \in 1..(k - 1) : Collapsed(v.db, AliasesOf(c.jars[c.order[j]]))
  BY DEF JarsHold, Careful
<1>3. /\ "db" \in DOMAIN e /\ Sound(e.db) /\ Spares(v.db, e.db)
      /\ Collapsed(e.db, AliasesOf(jar))
  <2> HIDE DEF jar
  <2> QED
    BY <1>2, JarRegistered
<1> HIDE DEF e
<1>4. Spares(st.db, e.db)
  BY <1>2, <1>3, SparesOn
<1>5. \A j \in 1..k : Collapsed(e.db, AliasesOf(c.jars[c.order[j]]))
  <2> TAKE j \in 1..k
  <2>1. CASE j = k
    BY <1>3, <2>1
  <2>2. CASE j # k
    <3>1. j \in 1..(k - 1)
      BY <2>2
    <3>2. Collapsed(v.db, AliasesOf(c.jars[c.order[j]]))
      BY <1>2, <3>1
    <3> QED
      BY <1>2, <1>3, <3>2, StaysCollapsed
  <2> QED
    BY <2>1, <2>2
<1> QED
  BY <1>1, <1>3, <1>4, <1>5 DEF JarsHold, Careful

LEMMA JarsRegistered ==
    ASSUME NEW c, NEW n \in Nat, NEW st, "db" \in DOMAIN st, Sound(st.db)
    PROVE  JarsHold(c, st, n, Loop(JarStep, c, st, n))
<1>1. \A v : \A k \in 1..n : JarsHold(c, st, k - 1, v) => JarsHold(c, st, k, JarStep(c, v, k))
  BY JarRound
<1>2. JarsHold(c, st, 0, st)
  BY SparesItself DEF JarsHold, Careful
<1> QED
  BY ONLY n \in Nat, <1>1, <1>2, JarLoop!Kept DEF Loop, JarLoop!Loop

\* A wipe takes relations and packages only.
LEMMA WipeSound ==
    ASSUME NEW d, Sound(d), NEW legOk
    PROVE  Sound(WipeDerived(d, legOk))
<1> DEFINE R == {r \in d.rels : r.source # "inferred" /\ ~(legOk /\ r.source = "modrinth")}
           e == [d EXCEPT !.packages = {}, !.rels = R]
<1>1. WipeDerived(d, legOk) = e
  BY DEF WipeDerived, Sound, Rowed, Tables
<1>2. R \subseteq d.rels
  OBVIOUS
<1>3. /\ DOMAIN e = Tables /\ e.mods = d.mods /\ e.alias = d.alias /\ e.files = d.files
      /\ e.releases = d.releases /\ e.rels = R /\ e.packages = {} /\ e.links = d.links
  BY DEF Sound, Rowed, Tables
<1> HIDE DEF e, R
<1> QED
  BY <1>1, <1>2, <1>3 DEF Sound, Rowed, Lands

LEMMA InferSound ==
    ASSUME NEW d, Sound(d), NEW derived
    PROVE  Careful(d, InferEdges(d, derived))
<1> DEFINE targets(refs, m) == {ResolveEdgeTarget(d, p, m) : p \in refs} \ {None}
           hard(x) == {t \in targets(x[3].hard, x[1]) : ~IsIntegrationHost(t)}
           soft(x) == (targets(x[3].hard, x[1]) \cup targets(x[3].opt, x[1])) \ hard(x)
           edges(x, T, kind) == {Sourced(x[1], x[2], t, None, kind, None, "inferred") : t \in T}
           R == UNION {edges(x, hard(x), "requires") \cup edges(x, soft(x), "optional_dep") : x \in derived}
<1>1. InferEdges(d, derived) = UpsertRelationRanked(d, R)
  BY Zenon DEF InferEdges
<1>2. \A x, T, kind : Rows(edges(x, T, kind))
  BY SourcedRow, Zenon DEF Rows
<1> HIDE DEF edges
<1>3. Rows(R)
  BY <1>2 DEF Rows
<1> HIDE DEF R
<1> QED
  BY <1>1, <1>3, RowsSound DEF Keeps, Careful

\* A build's links name the artifacts it ships that the registry knows.
LEMMA BuildsSound ==
    ASSUME NEW d, Sound(d), NEW scan
    PROVE  Careful(d, RecordBuilds(d, scan))
<1> DEFINE shipped(p) == {x \in ModsOf(scan.packs[p]) : x.sha \in DOMAIN d.files}
           links(p) == {<<p, scan.packs[p].version, d.files[x.sha].n>> : x \in shipped(p)}
           named == {s \in DOMAIN scan.jars : scan.jars[s].modid # None}
           against == UNION {ConflictsOf(scan.packs[p]) : p \in DOMAIN scan.packs}
           known == {c \in against \cup {<<c[2], c[1]>> : c \in against} :
                       c[1] \in DOMAIN d.files /\ c[2] \in named}
           R == {Sourced(ModIdForSha1(d, c[1]), None, <<"modid", scan.jars[c[2]].modid, "">>, None,
                         "conflicts", "hard", "curator") : c \in known}
           B == {<<p, scan.packs[p].version>> : p \in DOMAIN scan.packs}
           L == UNION {links(p) : p \in DOMAIN scan.packs}
           e == LinkBuildMod(UpsertPackBuild(d, B), L)
<1>1. RecordBuilds(d, scan) = UpsertRelationRanked(e, R)
  BY Zenon DEF RecordBuilds
<1>2. Rows(R)
  BY SourcedRow, Zenon DEF Rows
<1> HIDE DEF R
<1>3. \A l \in L : \E s \in DOMAIN d.files : d.files[s].n = l[3]
  OBVIOUS
<1> HIDE DEF L
<1>4. /\ DOMAIN e = Tables /\ e.mods = d.mods /\ e.alias = d.alias /\ e.files = d.files
      /\ e.releases = d.releases /\ e.rels = d.rels /\ e.packages = d.packages /\ e.links = d.links \cup L
      /\ e.jarClass = d.jarClass
  BY DEF Sound, Rowed, Tables, LinkBuildMod, UpsertPackBuild
<1> HIDE DEF e
<1>5. Sound(e)
  BY <1>3, <1>4 DEF Sound, Rowed, Lands
<1>6. Careful(d, e)
  BY <1>4, <1>5, SameSpared DEF Careful
<1> DEFINE f == UpsertRelationRanked(e, R)
<1>7. Careful(e, f)
  BY <1>2, <1>5, RowsSound DEF Keeps, Careful
<1> HIDE DEF f
<1>8. Careful(d, f)
  BY <1>6, <1>7, CarefulOn
<1> QED
  BY <1>1, <1>8 DEF f

\* Splits are reconciled pair by pair.  Every pair is of mods an alias names,
\* and stays so whatever an earlier pair folded.
SplitsHold(c, base, k, d) ==
    /\ Careful(base, d)
    /\ \A j \in 1..Len(c) : \A m \in {c[j][1], c[j][2]} \cap DOMAIN d.mods : Aliased(d, m)

SplitLoop == INSTANCE Iteration WITH Step <- SplitStep, Holds <- SplitsHold

LEMMA SplitRound ==
    ASSUME NEW c, NEW base, Sound(base), NEW k \in 1..Len(c), NEW d, SplitsHold(c, base, k - 1, d)
    PROVE  SplitsHold(c, base, k, SplitStep(c, d, k))
<1> DEFINE S == {c[k][1], c[k][2]}
           at == MergeCollidedMods(d, S)
<1>1. SplitStep(c, d, k) = IF S \subseteq DOMAIN d.mods THEN at.db ELSE d
  BY DEF SplitStep
<1>2. S # {} /\ \A m \in S \cap DOMAIN d.mods : Aliased(d, m)
  BY DEF SplitsHold
<1> HIDE DEF S
<1>3. Careful(base, d) /\ Sound(d)
  BY DEF SplitsHold, Careful
<1>4. CASE S \in SUBSET DOMAIN d.mods
  <2>1. Merged(d, S, at)
    BY <1>2, <1>3, <1>4, CollisionSound
  <2> HIDE DEF at
  <2>2. /\ Careful(d, at.db)
        /\ \A m \in DOMAIN at.db.mods : m \in DOMAIN d.mods /\ (Aliased(d, m) => Aliased(at.db, m))
    BY <1>2, <1>4, <2>1 DEF Merged, Careful
  <2>3. Careful(base, at.db)
    BY <1>3, <2>2, CarefulOn
  <2> QED
    BY <1>1, <1>4, <2>2, <2>3 DEF SplitsHold
<1>5. CASE S \notin SUBSET DOMAIN d.mods
  BY <1>1, <1>5 DEF SplitsHold
<1> QED
  BY <1>4, <1>5

LEMMA SplitsSound ==
    ASSUME NEW d, Sound(d)
    PROVE  Careful(d, ReconcileSplits(d))
<1> DEFINE Split(a, b) == /\ a[1] = "modid" /\ d.mods[b].slug # None /\ KeysOf(d, "modrinth", b) # {}
                          /\ Fold(a[2]) = Fold(d.mods[b].slug) /\ d.alias[a] # b
           pairs == {<<d.alias[x[1]], x[2]>> :
                       x \in {y \in (DOMAIN d.alias) \X (DOMAIN d.mods) : Split(y[1], y[2])}}
           c == SetToSeq(pairs)
           n == Len(c)
<1>1. ReconcileSplits(d) = Loop(SplitStep, c, d, n)
  BY Zenon DEF ReconcileSplits
<1>2. pairs \subseteq (DOMAIN d.mods) \X (DOMAIN d.mods)
  <2> HIDE DEF Split
  <2> QED
    BY DEF Sound, Lands
<1>3. \A p \in pairs : Aliased(d, p[1]) /\ Aliased(d, p[2])
  <2>1. \A b : KeysOf(d, "modrinth", b) # {} => Aliased(d, b)
    BY DEF KeysOf, Aliased
  <2>2. \A a, b : Split(a, b) => Aliased(d, b)
    BY <2>1
  <2> HIDE DEF Split
  <2> QED
    BY <2>2 DEF Aliased
<1> HIDE DEF pairs
<1>4. IsFiniteSet(pairs)
  <2>1. IsFiniteSet(DOMAIN d.mods)
    BY RowsFinite DEF Sound, Rowed
  <2>2. IsFiniteSet((DOMAIN d.mods) \X (DOMAIN d.mods))
    BY <2>1, FS_Product
  <2> QED
    BY <1>2, <2>2, FS_Subset
<1>5. n \in Nat /\ \A j \in 1..n : c[j] \in pairs
  BY <1>4, OrderOf
<1>6. \A j \in 1..n : \A m \in {c[j][1], c[j][2]} : Aliased(d, m)
  BY <1>3, <1>5
<1> HIDE DEF c
<1>7. SplitsHold(c, d, 0, d)
  BY <1>6, SparesItself DEF SplitsHold, Careful
<1>8. \A v : \A k \in 1..n : SplitsHold(c, d, k - 1, v) => SplitsHold(c, d, k, SplitStep(c, v, k))
  BY SplitRound
<1> HIDE DEF n
<1>9. SplitsHold(c, d, n, Loop(SplitStep, c, d, n))
  BY ONLY <1>5, <1>7, <1>8, SplitLoop!Kept DEF Loop, SplitLoop!Loop
<1> QED
  BY <1>1, <1>9 DEF SplitsHold

LEMMA AliasFound ==
    ASSUME NEW d, Sound(d), NEW target, ModIdForSelector(d, target) # None
    PROVE  /\ ModIdForSelector(d, target) \in DOMAIN d.mods
           /\ Aliased(d, ModIdForSelector(d, target))
<1> DEFINE hits == {a \in DOMAIN d.alias : /\ a[1] = "modid" /\ target[1] = "modid"
                                           /\ Fold(a[2]) = Fold(target[2])}
<1>1. CASE target[1] = "modrinth"
  <2>1. ModIdForSelector(d, target) = ModIdForAlias(d, "modrinth", target[2])
    BY <1>1 DEF ModIdForSelector
  <2> QED
    BY <2>1 DEF ModIdForAlias, Sound, Lands, Aliased
<1>2. CASE target[1] # "modrinth"
  <2>1. ModIdForSelector(d, target) = IF hits = {} THEN None ELSE d.alias[CHOOSE a \in hits : TRUE]
    BY <1>2, Zenon DEF ModIdForSelector
  <2>2. hits # {}
    BY <2>1
  <2>3. (CHOOSE a \in hits : TRUE) \in DOMAIN d.alias
    BY <2>2
  <2> QED
    BY <2>1, <2>2, <2>3 DEF Sound, Lands, Aliased
<1> QED
  BY <1>1, <1>2

LEMMA SelfHostSound ==
    ASSUME NEW d, Sound(d), NEW slugs
    PROVE  Careful(d, SelfHostLinks(d, slugs))
<1> DEFINE host(p) == ModIdForSelector(d, <<"modid", slugs[p], "">>)
           linked == {p \in DOMAIN slugs : ModIdForAlias(d, "modrinth", p) = None /\ host(p) # None}
           alias == [a \in DOMAIN d.alias \cup {<<"modrinth", p>> : p \in linked} |->
                       IF a \in DOMAIN d.alias THEN d.alias[a] ELSE host(a[2])]
           e == [d EXCEPT !.alias = alias]
<1>1. SelfHostLinks(d, slugs) = e
  BY DEF SelfHostLinks
<1>2. \A p \in linked : host(p) \in DOMAIN d.mods /\ Aliased(d, host(p))
  BY AliasFound, Zenon
<1> HIDE DEF host, linked
<1>3. /\ \A a \in DOMAIN alias : alias[a] \in DOMAIN d.mods
      /\ DOMAIN d.alias \subseteq DOMAIN alias
      /\ \A a \in DOMAIN d.alias : alias[a] = d.alias[a]
      /\ \A a \in DOMAIN alias \ DOMAIN d.alias : Aliased(d, alias[a])
  BY <1>2 DEF Sound, Lands
<1>4. /\ DOMAIN e = Tables /\ e.mods = d.mods /\ e.alias = alias /\ e.files = d.files
      /\ e.releases = d.releases /\ e.rels = d.rels /\ e.packages = d.packages /\ e.links = d.links
      /\ e.jarClass = d.jarClass
  BY DEF Sound, Rowed, Tables
<1> HIDE DEF e, alias
<1>5. Sound(e)
  BY <1>3, <1>4 DEF Sound, Rowed, Lands
<1>6. Spares(d, e)
  <2>1. /\ DOMAIN d.alias \subseteq DOMAIN e.alias /\ \A a \in DOMAIN d.alias : e.alias[a] = d.alias[a]
        /\ \A a \in DOMAIN e.alias \ DOMAIN d.alias : e.alias[a] \in DOMAIN d.mods => Aliased(d, e.alias[a])
    BY <1>3, <1>4
  <2>2. Spares(d, d)
    BY SparesItself
  <2>3. /\ e.mods = d.mods /\ e.files = d.files /\ e.releases = d.releases /\ e.rels = d.rels
        /\ e.jarClass = d.jarClass
    BY <1>4
  <2> QED
    BY <2>1, <2>2, <2>3, AliasesAdded
<1> QED
  BY <1>1, <1>5, <1>6 DEF Careful

LEMMA ExternalSound ==
    ASSUME NEW d, Sound(d), NEW waiting
    PROVE  Careful(d, ExternalDeps(d, waiting))
<1> DEFINE R == {Sourced(w[1], w[2], ExternalDepSelector(d, w[3]), None, ModrinthRelKind(w[3].type),
                         SeverityOf(w[3]), "modrinth") : w \in waiting}
<1>1. ExternalDeps(d, waiting) = UpsertRelationRanked(d, R)
  BY Zenon DEF ExternalDeps
<1>2. Rows(R)
  BY SourcedRow, Zenon DEF Rows
<1> HIDE DEF R
<1> QED
  BY <1>1, <1>2, RowsSound DEF Keeps, Careful

LEMMA EnvSound ==
    ASSUME NEW d, Sound(d), NEW envs
    PROVE  Careful(d, EnvFlags(d, envs))
<1>1. \A flags : Careful(d, SetModEnvFlags(d, flags))
  <2> TAKE flags
  <2> DEFINE mods == [m \in DOMAIN d.mods |->
                        IF m \notin DOMAIN flags \/ d.mods[m].source \in Precious THEN d.mods[m]
                        ELSE [d.mods[m] EXCEPT !.env = flags[m]]]
  <2>1. SetModEnvFlags(d, flags) = [d EXCEPT !.mods = mods]
    BY DEF SetModEnvFlags
  <2>2. DOMAIN mods = DOMAIN d.mods /\ \A m \in DOMAIN d.mods : Vouched(d.mods[m]) => mods[m] = d.mods[m]
    BY DEF Vouched
  <2> HIDE DEF mods
  <2> QED
    BY <2>1, <2>2, ModsRewritten, ModsSpared DEF Careful
<1> QED
  BY <1>1, Zenon DEF EnvFlags

\* Only a release no file is in goes.
LEMMA PruneSound ==
    ASSUME NEW d, Sound(d)
    PROVE  Careful(d, PruneEmptyReleases(d))
<1> DEFINE used == {d.files[s].release : s \in DOMAIN d.files}
           empty == {r \in DOMAIN d.releases : d.releases[r].source \notin Precious /\ r \notin used}
           e == [d EXCEPT !.releases = Drop(@, empty)]
<1>1. PruneEmptyReleases(d) = e
  BY DEF PruneEmptyReleases
<1>2. \A s \in DOMAIN d.files : d.files[s].release \notin empty
  OBVIOUS
<1> HIDE DEF used, empty
<1>3. /\ DOMAIN e = Tables /\ e.mods = d.mods /\ e.alias = d.alias /\ e.files = d.files
      /\ e.releases = Drop(d.releases, empty) /\ e.rels = d.rels /\ e.packages = d.packages /\ e.links = d.links
      /\ e.jarClass = d.jarClass
  BY DEF Sound, Rowed, Tables
<1> HIDE DEF e
<1>4. /\ DOMAIN e.releases = DOMAIN d.releases \ empty
      /\ \A r \in DOMAIN e.releases : e.releases[r] = d.releases[r]
  BY <1>3 DEF Drop
<1>5. Bounded(DOMAIN e.releases)
  BY <1>4, FewerRows DEF Sound, Rowed
<1>6. Rowed(e)
  BY <1>3, <1>4, <1>5 DEF Sound, Rowed
<1>7. Lands(e)
  BY <1>2, <1>3, <1>4 DEF Sound, Lands
<1>8. FilesStay(d, e)
  BY <1>2, <1>3, <1>4 DEF FilesStay, SameFile, ChannelOf, Sound, Lands
<1>9. ModsStay(d, e) /\ ClassesStay(d, e)
  BY <1>3 DEF ModsStay, ClassesStay
<1>10. Spares(d, e)
  BY <1>3, <1>8, <1>9, Spared
<1> QED
  BY <1>1, <1>6, <1>7, <1>10 DEF Sound, Careful

LEMMA FinishSound ==
    ASSUME NEW st, Sound(st.db), NEW scan
    PROVE  Careful(st.db, FinishScan(st, scan))
<1> DEFINE d0 == st.db
           d1 == InferEdges(d0, st.derived)
           d2 == RecordBuilds(d1, scan)
           d3 == ReconcileSplits(d2)
           d4 == SelfHostLinks(d3, scan.slugs)
           d5 == ExternalDeps(d4, st.files)
           d6 == EnvFlags(d5, scan.envs)
           d7 == PruneEmptyReleases(d6)
<1>1. FinishScan(st, scan) = d7
  BY DEF FinishScan
<1>2. Careful(d0, d1)
  BY InferSound
<1> HIDE DEF d1, d0
<1>0. Sound(d0)
  BY DEF d0
<1>3. Careful(d1, d2)
  BY <1>2, BuildsSound DEF Careful
<1> HIDE DEF d2
<1>4. Careful(d2, d3)
  BY <1>3, SplitsSound DEF Careful
<1> HIDE DEF d3
<1>5. Careful(d3, d4)
  BY <1>4, SelfHostSound DEF Careful
<1> HIDE DEF d4
<1>6. Careful(d4, d5)
  BY <1>5, ExternalSound DEF Careful
<1> HIDE DEF d5
<1>7. Careful(d5, d6)
  BY <1>6, EnvSound DEF Careful
<1> HIDE DEF d6
<1>8. Careful(d6, d7)
  BY <1>7, PruneSound DEF Careful
<1> HIDE DEF d7
<1>9. Careful(d0, d3)
  <2>1. Careful(d0, d2)
    BY <1>0, <1>2, <1>3, CarefulOn
  <2> QED
    BY <1>0, <1>4, <2>1, CarefulOn
<1>10. Careful(d3, d6)
  <2>1. Careful(d3, d5)
    BY <1>4, <1>5, <1>6, CarefulOn DEF Careful
  <2> QED
    BY <1>4, <1>7, <2>1, CarefulOn DEF Careful
<1>11. Careful(d0, d6)
  BY <1>0, <1>9, <1>10, CarefulOn
<1> QED
  BY <1>0, <1>1, <1>8, <1>11, CarefulOn DEF d0

\* A harvest's whole transaction, in whatever order it meets the jars: what
\* the wipe left is spared, and the aliases of every jar name one mod.
LEMMA WriteSound ==
    ASSUME NEW d, Sound(d), NEW scan, NEW order, Len(order) \in Nat
    PROVE  LET e == WriteScan(d, scan, order)
           IN  /\ Careful(WipeDerived(d, scan.legOk), e)
               /\ \A k \in 1..Len(order) : Collapsed(e, AliasesOf(scan.jars[order[k]]))
<1> DEFINE c == [jars |-> scan.jars, order |-> order]
           st == [db |-> WipeDerived(d, scan.legOk), derived |-> {}, files |-> {}]
           n == Len(order)
           done == Loop(JarStep, c, st, n)
           e == FinishScan(done, scan)
<1>1. WriteScan(d, scan, order) = e
  BY DEF WriteScan
<1>2. "db" \in DOMAIN st /\ Sound(st.db) /\ st.db = WipeDerived(d, scan.legOk)
  BY WipeSound
<1>3. c.jars = scan.jars /\ c.order = order
  OBVIOUS
<1> HIDE DEF c, st
<1>4. JarsHold(c, st, n, done)
  BY <1>2, JarsRegistered
<1> HIDE DEF done
<1>5. /\ Careful(st.db, done.db)
      /\ \A k \in 1..n : Collapsed(done.db, AliasesOf(scan.jars[order[k]]))
  BY <1>3, <1>4 DEF JarsHold
<1>6. Careful(done.db, e)
  BY <1>5, FinishSound DEF Careful
<1> HIDE DEF e
<1>7. Careful(st.db, e)
  BY <1>2, <1>5, <1>6, CarefulOn
<1>8. \A k \in 1..n : Collapsed(e, AliasesOf(scan.jars[order[k]]))
  BY <1>5, <1>6, StaysCollapsed DEF Careful
<1> QED
  BY <1>1, <1>2, <1>7, <1>8

-----------------------------------------------------------------------------
(* What an operator writes *)

LEMMA RelationAuthored ==
    ASSUME NEW d, Sound(d), NEW from, NEW target, NEW kind, NEW severity
    PROVE  Sound(AddAuthoredRelation(d, from, target, kind, severity))
<1> DEFINE R == {Sourced(from, None, target, None, kind, severity, "authored")}
<1>1. AddAuthoredRelation(d, from, target, kind, severity) = UpsertRelationRanked(d, R)
  BY Zenon DEF AddAuthoredRelation, UpsertRelation
<1>2. Rows(R)
  BY SourcedRow, Zenon DEF Rows
<1> HIDE DEF R
<1> QED
  BY <1>1, <1>2, RowsSound DEF Keeps

LEMMA RelationRemoved ==
    ASSUME NEW d, Sound(d), NEW from, NEW target, NEW kind
    PROVE  Sound(RemoveAuthoredRelation(d, from, target, kind))
<1> DEFINE R == {r \in d.rels : ~(r.from = from /\ r.target = target /\ r.kind = kind /\ r.source = "authored")}
<1>1. RemoveAuthoredRelation(d, from, target, kind) = [d EXCEPT !.rels = R]
  BY DEF RemoveAuthoredRelation
<1>2. R \in SUBSET d.rels
  OBVIOUS
<1> HIDE DEF R
<1> QED
  BY <1>1, <1>2, FewerRelations

LEMMA AuthoredSound ==
    ASSUME NEW d, Sound(d), NEW from, NEW target, NEW kind, NEW severity, NEW remove
    PROVE  Sound(AuthorRelation(d, from, target, kind, severity, remove))
BY RelationAuthored, RelationRemoved DEF AuthorRelation

LEMMA ConflictSound ==
    ASSUME NEW d, Sound(d), NEW a, NEW b, NEW remove
    PROVE  Sound(SetConflict(d, a, b, remove))
<1> DEFINE x == ModIdForAlias(d, "modid", a)
           y == ModIdForAlias(d, "modid", b)
           toA == <<"modid", a, "">>
           toB == <<"modid", b, "">>
           gone == RemoveAuthoredRelation(d, x, toB, "conflicts")
           said == AddAuthoredRelation(d, x, toB, "conflicts", "hard")
<1>1. SetConflict(d, a, b, remove) \in
        {Failed(d), RemoveAuthoredRelation(gone, y, toA, "conflicts"),
         AddAuthoredRelation(said, y, toA, "conflicts", "hard")}
  BY Zenon DEF SetConflict
<1>2. Sound(Failed(d))
  BY FailedSound
<1>3. Sound(gone) /\ Sound(said)
  BY RelationAuthored, RelationRemoved
<1> HIDE DEF gone, said, toA, y
<1>4. Sound(RemoveAuthoredRelation(gone, y, toA, "conflicts"))
  BY <1>3, RelationRemoved
<1>5. Sound(AddAuthoredRelation(said, y, toA, "conflicts", "hard"))
  BY <1>3, RelationAuthored
<1> QED
  BY <1>1, <1>2, <1>4, <1>5

LEMMA ClassAuthored ==
    ASSUME NEW d, Sound(d), NEW sha, NEW class, NEW remove
    PROVE  Sound(SetAuthoredJarClass(d, sha, class, remove))
<1>1. Sound(Failed(d))
  BY FailedSound
<1>2. \A classes : Sound([d EXCEPT !.jarClass = classes])
  BY ReadoutsSound
<1>3. \/ SetAuthoredJarClass(d, sha, class, remove) = Failed(d)
      \/ \E classes : SetAuthoredJarClass(d, sha, class, remove) = [d EXCEPT !.jarClass = classes]
  BY DEF SetAuthoredJarClass
<1> QED
  BY <1>1, <1>2, <1>3

LEMMA MergeSound ==
    ASSUME NEW d, Sound(d), NEW from, NEW into
    PROVE  Sound(MergeMods(d, from, into))
<1>1. Sound(Failed(d))
  BY FailedSound
<1>2. CASE from # into /\ {from, into} \subseteq DOMAIN d.mods
  <2> DEFINE e == FoldMods(d, from, into)
             mods == [e.mods EXCEPT ![into].source = "authored"]
  <2>1. MergeMods(d, from, into) = [e EXCEPT !.mods[into].source = "authored"]
    BY <1>2 DEF MergeMods
  <2>2. Sound(e)
    BY <1>2, FoldSound DEF Folded
  <2> HIDE DEF e
  <2>3. [e EXCEPT !.mods[into].source = "authored"] = [e EXCEPT !.mods = mods]
    OBVIOUS
  <2>4. DOMAIN mods = DOMAIN e.mods
    OBVIOUS
  <2> HIDE DEF mods
  <2> QED
    BY <2>1, <2>2, <2>3, <2>4, ModsRewritten
<1>3. CASE ~(from # into /\ {from, into} \subseteq DOMAIN d.mods)
  BY <1>1, <1>3 DEF MergeMods
<1> QED
  BY <1>2, <1>3

\* A jar is given to a mod that exists or to a new one.
LEMMA IdentitySound ==
    ASSUME NEW d, Sound(d), NEW sha, NEW ref, NEW name, NEW version, NEW channel, NEW loaders, NEW mc,
           NEW filename
    PROVE  Sound(AuthorFileIdentity(d, sha, ref, name, version, channel, loaders, mc, filename))
<1> DEFINE fresh == NextRow(DOMAIN d.mods)
           m == Coalesce(ref, fresh)
           row == [source |-> "authored", name |-> name, slug |-> None, env |-> None]
           with == IF ref # None THEN d ELSE [d EXCEPT !.mods = Put(@, fresh, row)]
           at == UpsertRelease(with, m, version, channel, "authored")
           old == IF sha \in DOMAIN d.files THEN d.files[sha]
                  ELSE [n |-> NextRow({d.files[s].n : s \in DOMAIN d.files}), filename |-> None,
                        mrv |-> None, digest |-> None, needs |-> {}]
           file == [n |-> old.n, mod |-> m, version |-> version, mc |-> mc,
                    filename |-> Coalesce(filename, old.filename), targets |-> EffectiveTargets(loaders),
                    release |-> at.id, source |-> "authored", mrv |-> old.mrv, digest |-> old.digest,
                    needs |-> old.needs]
           e == [at.db EXCEPT !.files = Put(@, sha, file)]
<1>1. AuthorFileIdentity(d, sha, ref, name, version, channel, loaders, mc, filename) =
        IF m \notin DOMAIN with.mods THEN Failed(d) ELSE e
  BY Zenon DEF AuthorFileIdentity
<1>2. Sound(with) /\ with.files = d.files
  BY ModBorn
<1>3. sha \in DOMAIN d.files => old.n = d.files[sha].n
  OBVIOUS
<1> HIDE DEF with, old
<1>4. CASE m \in DOMAIN with.mods
  <2> HIDE DEF m
  <2>1. /\ Sound(at.db) /\ at.id \in DOMAIN at.db.releases /\ at.db.releases[at.id].mod = m
        /\ at.db.mods = with.mods /\ at.db.files = with.files
    BY <1>2, <1>4, ReleaseSound
  <2>2. DOMAIN file = FileFields /\ file.mod = m /\ file.release = at.id /\ file.n = old.n
    BY DEF FileFields
  <2> HIDE DEF at, file
  <2>3. Sound(e)
    BY <1>2, <1>3, <1>4, <2>1, <2>2, FiledSound
  <2> QED
    BY <1>1, <1>4, <2>3 DEF m
<1>5. CASE m \notin DOMAIN with.mods
  BY <1>1, <1>5, FailedSound
<1> QED
  BY <1>4, <1>5

LEMMA RenameSound ==
    ASSUME NEW d, Sound(d), NEW m, NEW name, NEW slug
    PROVE  Sound(RenameMod(d, m, name, slug))
<1> DEFINE mods == [d.mods EXCEPT ![m].name = Coalesce(name, @), ![m].slug = Coalesce(slug, @),
                                  ![m].source = "authored"]
<1>1. RenameMod(d, m, name, slug) \in {d, Failed(d), [d EXCEPT !.mods = mods]}
  <2>1. [d EXCEPT !.mods[m].name = Coalesce(name, @), !.mods[m].slug = Coalesce(slug, @),
                  !.mods[m].source = "authored"] = [d EXCEPT !.mods = mods]
    BY DEF Sound, Rowed, Tables
  <2> QED
    BY <2>1 DEF RenameMod
<1>2. DOMAIN mods = DOMAIN d.mods
  OBVIOUS
<1> HIDE DEF mods
<1> QED
  BY <1>1, <1>2, FailedSound, ModsRewritten

\* A release keeps its mod whatever else of it is edited.
LEMMA ReleaseEdited ==
    ASSUME NEW d, Sound(d), NEW r, NEW version, NEW channel
    PROVE  Sound(EditRelease(d, r, version, channel))
<1> DEFINE v == Coalesce(version, d.releases[r].version)
           c == Coalesce(channel, d.releases[r].channel)
           releases == [d.releases EXCEPT ![r].version = v, ![r].channel = c, ![r].source = "authored"]
           e == [d EXCEPT !.releases = releases]
<1>1. EditRelease(d, r, version, channel) \in {d, Failed(d), e}
  <2>1. [d EXCEPT !.releases[r].version = v, !.releases[r].channel = c, !.releases[r].source = "authored"] = e
    <3>1. DOMAIN d = Tables
      BY DEF Sound, Rowed
    <3> HIDE DEF v, c
    <3> QED
      BY <3>1 DEF Tables
  <2> HIDE DEF e, releases
  <2> QED
    BY <2>1 DEF EditRelease
<1>2. DOMAIN releases = DOMAIN d.releases
  OBVIOUS
<1>3. \A x \in DOMAIN releases : DOMAIN releases[x] = ReleaseFields /\ releases[x].mod = d.releases[x].mod
  <2> TAKE x \in DOMAIN releases
  <2>1. DOMAIN d.releases[x] = ReleaseFields
    BY DEF Sound, Rowed
  <2> QED
    BY <2>1 DEF ReleaseFields
<1>4. /\ DOMAIN e = Tables /\ e.mods = d.mods /\ e.alias = d.alias /\ e.files = d.files
      /\ e.releases = releases /\ e.rels = d.rels /\ e.packages = d.packages /\ e.links = d.links
  BY DEF Sound, Rowed, Tables
<1> HIDE DEF e, releases, v, c
<1>5. Rowed(e) /\ Lands(e)
  BY <1>2, <1>3, <1>4 DEF Sound, Rowed, Lands
<1> QED
  BY <1>1, <1>5, FailedSound DEF Sound

-----------------------------------------------------------------------------
(* What a harvest in flight holds *)

\* The world the scan reads is finite, and so is what it carries to the write.
World ==
    /\ cache \subseteq DOMAIN JarBytes /\ IsFiniteSet(DOMAIN latest)
    /\ \A p \in DOMAIN latest : p \in DOMAIN Manifests /\ latest[p] \in Manifests[p]

InFlight(r) ==
    \/ r = NoRun
    \/ DOMAIN r = {"pc", "still", "known"} /\ r.pc = "scan"
    \/ DOMAIN r = {"pc", "still", "scan"} /\ r.pc = "write" /\ IsFiniteSet(DOMAIN r.scan.jars)

\* TypeOK is not inductive: a write may only be trusted with finitely many
\* jars, and its tables only when their rows have their columns.
Consistent == Sound(db) /\ db.ok /\ World /\ InFlight(run)

LEMMA ConsistentTyped == Consistent => TypeOK
BY DEF Consistent, World, InFlight, TypeOK, Sound, NoRun

LEMMA FiniteImage ==
    ASSUME NEW f, IsFiniteSet(DOMAIN f)
    PROVE  IsFiniteSet({f[x] : x \in DOMAIN f})
<1> DEFINE T == {f[x] : x \in DOMAIN f}
           g == [x \in DOMAIN f |-> f[x]]
<1>1. g \in Surjection(DOMAIN f, T)
  BY DEF Surjection
<1> HIDE DEF g, T
<1>2. IsFiniteSet(T)
  BY <1>1, FS_Surjection
<1> QED
  BY <1>2 DEF T

LEMMA KnownFinite == ASSUME World PROVE IsFiniteSet(KnownShas)
<1> DEFINE shipped == [p \in DOMAIN latest |-> ModsOf(latest[p])]
           all == {shipped[p] : p \in DOMAIN shipped}
           hashes == [m \in Published |-> m.sha]
<1>1. \A p \in DOMAIN latest : IsFiniteSet(ModsOf(latest[p]))
  <2> TAKE p \in DOMAIN latest
  <2> DEFINE mods == latest[p].mods
  <2>1. mods \in Seq(Range(mods))
    BY ScanAssumption DEF World
  <2> HIDE DEF mods
  <2>2. DOMAIN mods = 1..Len(mods) /\ Len(mods) \in Nat
    BY <2>1
  <2>3. IsFiniteSet(DOMAIN mods)
    BY <2>2, FS_Interval
  <2>4. IsFiniteSet({mods[i] : i \in DOMAIN mods})
    BY <2>3, FiniteImage
  <2> QED
    BY <2>4 DEF ModsOf, mods
<1>2. IsFiniteSet(all)
  <2>1. IsFiniteSet(DOMAIN shipped)
    BY DEF World
  <2> HIDE DEF shipped
  <2> QED
    BY <2>1, FiniteImage
<1>3. \A T \in all : IsFiniteSet(T)
  BY <1>1
<1>4. Published = UNION all
  BY DEF Published
<1> HIDE DEF all
<1>5. IsFiniteSet(Published)
  BY <1>2, <1>3, <1>4, FS_UNION
<1>6. IsFiniteSet({hashes[m] : m \in DOMAIN hashes})
  <2>1. IsFiniteSet(DOMAIN hashes)
    BY <1>5
  <2> HIDE DEF hashes
  <2> QED
    BY <2>1, FiniteImage
<1>7. {m.sha : m \in Published} = {hashes[m] : m \in DOMAIN hashes}
  OBVIOUS
<1>8. IsFiniteSet(cache)
  BY ScanAssumption, FS_Subset DEF World
<1> HIDE DEF hashes
<1>9. IsFiniteSet({m.sha : m \in Published})
  BY <1>6, <1>7
<1> QED
  BY <1>8, <1>9, FS_Union DEF KnownShas

\* An order of the jars is as long as there are jars, and meets them all.
LEMMA OrdersCounted ==
    ASSUME NEW S, IsFiniteSet(S), NEW order \in SetToSeqs(S)
    PROVE  Len(order) \in Nat /\ \A x \in S : \E k \in 1..Len(order) : order[k] = x
<1>1. Cardinality(S) \in Nat
  BY FS_CardinalityType
<1>2. order \in [1..Cardinality(S) -> S]
  BY DEF SetToSeqs
<1>3. Len(order) = Cardinality(S)
  BY <1>1, <1>2
<1>4. IsInjective(order)
  BY <1>2 DEF SetToSeqs, IsInjective
<1>5. order \in Surjection(1..Cardinality(S), S)
  BY <1>2, <1>4, FullOrder
<1> QED
  BY <1>1, <1>3, <1>5 DEF Surjection

LEMMA DisturbedFlight == ASSUME InFlight(run), Disturb PROVE InFlight(run')
<1>1. CASE run = NoRun
  BY <1>1 DEF Disturb, InFlight
<1>2. CASE run # NoRun
  <2>1. run' = [run EXCEPT !.still = FALSE]
    BY <1>2 DEF Disturb
  <2> QED
    BY <1>2, <2>1 DEF InFlight
<1> QED
  BY <1>1, <1>2

-----------------------------------------------------------------------------
(* The steps *)

LEMMA InitConsistent == Init => Consistent
<1> SUFFICES ASSUME Init PROVE Consistent
  OBVIOUS
<1>1. Sound(db) /\ db.ok
  BY EmptySound DEF Init, EmptyDb
<1>2. World
  <2>1. DOMAIN latest = {}
    BY DEF Init
  <2> QED
    BY <2>1, FS_EmptySet DEF Init, World
<1>3. InFlight(run)
  BY DEF Init, InFlight
<1> QED
  BY <1>1, <1>2, <1>3 DEF Consistent

LEMMA WritesSound == ASSUME Consistent, NEW write \in OperatorWrites PROVE Sound(write)
<1>1. Sound(db)
  BY DEF Consistent
<1>2. CASE write \in PostConflict
  BY <1>1, <1>2, ConflictSound DEF PostConflict
<1>3. CASE write \in PostRelation
  <2> DEFINE Said(m, k, r) == AuthorRelation(db, m, <<"modid", k, "">>, "requires", None, r)
  <2>1. \A m, k, r : Sound(Said(m, k, r))
    BY <1>1, AuthoredSound
  <2>2. PostRelation = {Said(m, k, r) : m \in DOMAIN db.mods, k \in Modids, r \in BOOLEAN}
    BY DEF PostRelation
  <2> HIDE DEF Said
  <2>3. \E m, k, r : write = Said(m, k, r)
    BY <1>3, <2>2
  <2> QED
    BY <2>1, <2>3
<1>4. CASE write \in PostMerge
  BY <1>1, <1>4, MergeSound DEF PostMerge
<1>5. CASE write \in PutModRename
  BY <1>1, <1>5, RenameSound DEF PutModRename
<1>6. CASE write \in PutReleaseEdit
  BY <1>1, <1>6, ReleaseEdited DEF PutReleaseEdit
<1>7. CASE write \in PutFileIdentity
  BY <1>1, <1>7, IdentitySound DEF PutFileIdentity
<1>8. CASE write \in PutFileClass
  BY <1>1, <1>8, ClassAuthored DEF PutFileClass
<1> QED
  BY <1>2, <1>3, <1>4, <1>5, <1>6, <1>7, <1>8 DEF OperatorWrites

LEMMA NextConsistent == Consistent /\ [Next]_vars => Consistent'
<1> SUFFICES ASSUME Consistent, [Next]_vars PROVE Consistent'
  OBVIOUS
<1>1. ASSUME NEW s \in DOMAIN JarBytes, CacheJar(s) PROVE Consistent'
  BY <1>1, DisturbedFlight DEF CacheJar, Consistent, World
<1>2. ASSUME NEW s \in DOMAIN JarBytes, EvictJar(s) PROVE Consistent'
  BY <1>2, DisturbedFlight DEF EvictJar, Consistent, World
<1>3. ASSUME NEW p \in DOMAIN Manifests, NEW x \in Manifests[p], Publish(p, x) PROVE Consistent'
  <2>1. /\ DOMAIN latest' = DOMAIN latest \cup {p}
        /\ \A q \in DOMAIN latest' : latest'[q] = IF q = p THEN x ELSE latest[q]
    BY <1>3 DEF Publish, Put
  <2>2. IsFiniteSet(DOMAIN latest \cup {p})
    BY FS_AddElement DEF Consistent, World
  <2>3. World'
    BY <1>3, <2>1, <2>2 DEF Publish, Consistent, World
  <2>4. InFlight(run')
    BY <1>3, DisturbedFlight DEF Publish, Consistent
  <2> QED
    BY <1>3, <2>3, <2>4 DEF Publish, Consistent
<1>4. ASSUME BeginHarvest PROVE Consistent'
  <2>1. InFlight(run')
    BY <1>4 DEF BeginHarvest, InFlight
  <2> QED
    BY <1>4, <2>1 DEF BeginHarvest, Consistent, World
<1>5. ASSUME NEW up \in Outcomes, ScanWorld(up) PROVE Consistent'
  <2>1. IsFiniteSet(KnownShas)
    BY KnownFinite DEF Consistent
  <2>2. DOMAIN Scan(run.known, up).jars = KnownShas
    BY DEF Scan
  <2> DEFINE scan == Scan(run.known, up)
  <2>3. run' = [pc |-> "write", still |-> run.still /\ up = AllUp, scan |-> scan]
    BY <1>5 DEF ScanWorld
  <2>4. IsFiniteSet(DOMAIN scan.jars)
    BY <2>1, <2>2
  <2> HIDE DEF scan
  <2>5. InFlight(run')
    BY <2>3, <2>4 DEF InFlight
  <2> QED
    BY <1>5, <2>5 DEF ScanWorld, Consistent, World
<1>6. ASSUME WriteHarvest PROVE Consistent'
  <2>1. IsFiniteSet(DOMAIN run.scan.jars)
    BY <1>6 DEF WriteHarvest, Consistent, InFlight, NoRun
  <2>2. PICK order \in SetToSeqs(DOMAIN run.scan.jars) : Commits(WriteScan(db, run.scan, order))
    BY <1>6 DEF WriteHarvest
  <2>3. Sound(WriteScan(db, run.scan, order))
    BY <2>1, OrdersCounted, WriteSound DEF Consistent, Careful
  <2>4. Sound(db') /\ db'.ok
    BY <2>2, <2>3 DEF Commits, Consistent
  <2>5. InFlight(run')
    BY <1>6 DEF WriteHarvest, InFlight
  <2> QED
    BY <1>6, <2>4, <2>5 DEF WriteHarvest, Consistent, World
<1>7. ASSUME Operator PROVE Consistent'
  <2>1. PICK write \in OperatorWrites : Authored(write)
    BY <1>7 DEF Operator
  <2>2. Sound(write)
    BY WritesSound
  <2>3. Sound(db') /\ db'.ok
    BY <2>1, <2>2 DEF Authored, Consistent
  <2>4. InFlight(run')
    BY <2>1, DisturbedFlight DEF Authored, Consistent
  <2> QED
    BY <2>1, <2>3, <2>4 DEF Authored, Consistent, World
<1>8. ASSUME UNCHANGED vars PROVE Consistent'
  BY <1>8 DEF vars, Consistent, World
<1> QED
  BY <1>1, <1>2, <1>3, <1>4, <1>5, <1>6, <1>7, <1>8 DEF Next

\* However harvests, operators and publications interleave, an alias, a file,
\* a release, a relation, a package and a link of the registry all land on a
\* row, and a file's release is one of its own mod's: upsert.rs and authored.rs
\* fold, prune and move rows under one another's feet.
THEOREM ReferencesLand == Spec => []TypeOK
<1> QED
  BY InitConsistent, NextConsistent, ConsistentTyped, PTL DEF Spec

-----------------------------------------------------------------------------
(* What a harvest leaves *)

\* Only the write of a scan ends a harvest.
LEMMA WriteEnds ==
    ASSUME Consistent, [Next]_vars, run.pc = "write", run'.pc = "idle"
    PROVE  WriteHarvest /\ IsFiniteSet(DOMAIN run.scan.jars)
<1>1. run # NoRun /\ run.pc # "scan"
  BY DEF NoRun
<1>2. DOMAIN run = {"pc", "still", "scan"} /\ IsFiniteSet(DOMAIN run.scan.jars)
  BY <1>1 DEF Consistent, InFlight
<1>3. ~Disturb
  <2> SUFFICES ASSUME Disturb PROVE FALSE
    OBVIOUS
  <2>1. run' = [run EXCEPT !.still = FALSE]
    BY <1>1 DEF Disturb
  <2>2. run'.pc = run.pc
    BY <1>2, <2>1
  <2> QED
    BY <2>2
<1>4. \A s \in DOMAIN JarBytes : ~CacheJar(s) /\ ~EvictJar(s)
  BY <1>3 DEF CacheJar, EvictJar
<1>5. \A p \in DOMAIN Manifests : \A x \in Manifests[p] : ~Publish(p, x)
  BY <1>3 DEF Publish
<1>6. ~Operator
  BY <1>3 DEF Operator, Authored
<1>7. ~BeginHarvest /\ \A up \in Outcomes : ~ScanWorld(up)
  BY <1>1 DEF BeginHarvest, ScanWorld
<1>8. ~UNCHANGED vars
  BY DEF vars
<1> QED
  BY <1>2, <1>4, <1>5, <1>6, <1>7, <1>8 DEF Next

\* w is what the write starts from: the tables before, but for relations a
\* harvest may rewrite.
LEMMA PreciousAfter ==
    ASSUME NEW d, Sound(d), NEW w, NEW e, Careful(w, e), NEW legOk,
           w.mods = d.mods, w.alias = d.alias, w.files = d.files, w.releases = d.releases,
           w.jarClass = d.jarClass, \A r \in d.rels : r.source = "authored" => r \in w.rels,
           ~legOk => \A r \in d.rels : r.source = "modrinth" => r \in w.rels
    PROVE  KeepsPrecious(d, e, legOk)
<1>0. Sound(e) /\ ModsStay(w, e) /\ FilesStay(w, e) /\ ClassesStay(w, e) /\ RelationsStay(w, e)
  BY DEF Careful, Spares
<1>1. \A m \in DOMAIN d.mods : d.mods[m].source \in Precious =>
        m \in DOMAIN e.mods /\ e.mods[m] = d.mods[m]
  BY <1>0 DEF ModsStay, Vouched
<1>2. ASSUME NEW s \in DOMAIN d.files, d.files[s].source \in Precious
      PROVE  /\ s \in DOMAIN e.files
             /\ [e.files[s] EXCEPT !.mod = 0, !.release = 0, !.digest = 0, !.needs = 0]
                   = [d.files[s] EXCEPT !.mod = 0, !.release = 0, !.digest = 0, !.needs = 0]
             /\ ChannelOf(e, s) = ChannelOf(d, s)
  <2>1. s \in DOMAIN e.files /\ SameFile(d.files[s], e.files[s]) /\ ChannelOf(e, s) = ChannelOf(w, s)
    BY <1>0, <1>2 DEF FilesStay, Vouched
  <2>2. DOMAIN d.files[s] = FileFields /\ DOMAIN e.files[s] = FileFields
    BY <1>0, <2>1 DEF Sound, Rowed
  <2>3. ChannelOf(w, s) = ChannelOf(d, s)
    BY DEF ChannelOf
  <2> QED
    BY <2>1, <2>2, <2>3 DEF SameFile, FileFields
<1>3. \A s \in DOMAIN d.jarClass : d.jarClass[s].source = "authored" =>
        s \in DOMAIN e.jarClass /\ e.jarClass[s] = d.jarClass[s]
  BY <1>0 DEF ClassesStay
<1>4. ASSUME NEW r \in d.rels, r \in w.rels, r.source \in {"authored", "modrinth"}
      PROVE  \E m \in Heir(d, e, r.from), q \in e.rels :
                /\ q.from = m /\ SameRelation(r, q)
                /\ r = [c \in RelationFields |-> r[c]] /\ q = [c \in RelationFields |-> q[c]]
                /\ q.source = "authored" => q.rank = r.rank
  <2>1. PICK q \in e.rels : SameRelation(r, q) /\ Follows(w, e, r.from, q.from)
    BY <1>0, <1>4 DEF RelationsStay
  <2>2. q.from \in Heir(d, e, r.from)
    <3> DEFINE keys == {a \in DOMAIN d.alias : d.alias[a] = r.from}
    <3>1. Aliased(w, r.from) <=> keys # {}
      BY DEF Aliased
    <3>2. CASE keys = {}
      BY <2>1, <3>1, <3>2 DEF Follows, Heir
    <3>3. CASE keys # {}
      <4>1. PICK a \in keys : e.alias[a] = q.from
        BY <2>1, <3>1, <3>3 DEF Follows
      <4>2. Heir(d, e, r.from) = {e.alias[b] : b \in keys}
        BY <3>3 DEF Heir
      <4> QED
        BY <4>1, <4>2
    <3> QED
      BY <3>2, <3>3
  <2>3. Stated(r) /\ Stated(q)
    BY <1>0 DEF Sound, Rowed
  <2>4. q.source = r.source
    BY <2>1 DEF SameRelation, RelationFields
  <2> QED
    BY <2>1, <2>2, <2>3, <2>4 DEF Stated
<1>5. ASSUME NEW r \in d.rels, r.source = "authored"
      PROVE  \E m \in Heir(d, e, r.from) : [r EXCEPT !.from = m] \in e.rels
  <2>1. PICK m \in Heir(d, e, r.from), q \in e.rels :
                /\ q.from = m /\ SameRelation(r, q)
                /\ r = [c \in RelationFields |-> r[c]] /\ q = [c \in RelationFields |-> q[c]]
                /\ q.source = "authored" => q.rank = r.rank
    BY <1>4, <1>5
  <2>2. q.source = "authored"
    BY <1>5, <2>1 DEF SameRelation, RelationFields
  <2>3. \A c \in RelationFields : q[c] = [r EXCEPT !.from = m][c]
    BY <2>1, <2>2 DEF SameRelation, RelationFields
  <2>4. [r EXCEPT !.from = m] = [c \in RelationFields |-> [r EXCEPT !.from = m][c]]
    BY <2>1 DEF RelationFields
  <2>5. q = [r EXCEPT !.from = m]
    BY <2>1, <2>3, <2>4
  <2> QED
    BY <2>1, <2>5
<1>6. ASSUME ~legOk, NEW r \in {x \in d.rels : x.source = "modrinth"}
      PROVE  \E m \in Heir(d, e, r.from), q \in e.rels :
                [r EXCEPT !.from = m, !.rank = 0] = [q EXCEPT !.rank = 0]
  <2>1. PICK m \in Heir(d, e, r.from), q \in e.rels :
                /\ q.from = m /\ SameRelation(r, q)
                /\ r = [c \in RelationFields |-> r[c]] /\ q = [c \in RelationFields |-> q[c]]
    BY <1>4, <1>6
  <2>2. DOMAIN r = RelationFields /\ DOMAIN q = RelationFields
    BY <2>1
  <2>3. [r EXCEPT !.from = m, !.rank = 0] = [q EXCEPT !.rank = 0]
    BY <2>1, <2>2 DEF SameRelation, RelationFields
  <2> QED
    BY <2>3
<1> QED
  BY <1>1, <1>2, <1>3, <1>5, <1>6 DEF KeepsPrecious

\* The wipe spares what nobody but Modrinth may take back.
LEMMA PreciousWritten ==
    ASSUME NEW d, Sound(d), NEW legOk, NEW e, Careful(WipeDerived(d, legOk), e)
    PROVE  KeepsPrecious(d, e, legOk)
<1> DEFINE R == {r \in d.rels : r.source # "inferred" /\ ~(legOk /\ r.source = "modrinth")}
           w == [d EXCEPT !.packages = {}, !.rels = R]
<1>1. WipeDerived(d, legOk) = w
  BY DEF WipeDerived, Sound, Rowed, Tables
<1>2. /\ w.mods = d.mods /\ w.alias = d.alias /\ w.files = d.files /\ w.releases = d.releases
      /\ w.jarClass = d.jarClass /\ w.rels = R
  BY DEF Sound, Rowed, Tables
<1>3. \A r \in d.rels : r.source = "authored" => r \in R
  OBVIOUS
<1>4. ~legOk => \A r \in d.rels : r.source = "modrinth" => r \in R
  OBVIOUS
<1>5. Careful(w, e)
  BY <1>1
<1> HIDE DEF w, R
<1> QED
  BY <1>2, <1>3, <1>4, <1>5, PreciousAfter

\* A harvest keeps what operators decided, whenever they did: the mods, files,
\* channels, relations and classes they vouched for come through write_scan's
\* wipe, its upserts, folds and prune, and a lookup that failed costs no
\* Modrinth relation.
THEOREM OperatorsKept == Spec => PreciousKept
<1>1. Consistent /\ [Next]_vars =>
        [run.pc = "write" /\ run'.pc = "idle" => KeepsPrecious(db, db', run.scan.legOk)]_vars
  <2> SUFFICES ASSUME Consistent, [Next]_vars, run.pc = "write", run'.pc = "idle"
               PROVE  KeepsPrecious(db, db', run.scan.legOk)
    OBVIOUS
  <2>1. WriteHarvest /\ IsFiniteSet(DOMAIN run.scan.jars)
    BY WriteEnds
  <2>2. PICK order \in SetToSeqs(DOMAIN run.scan.jars) : Commits(WriteScan(db, run.scan, order))
    BY <2>1 DEF WriteHarvest
  <2>3. Sound(db)
    BY DEF Consistent
  <2>4. CASE db' = WriteScan(db, run.scan, order)
    <3>1. Careful(WipeDerived(db, run.scan.legOk), db')
      BY <2>1, <2>3, <2>4, OrdersCounted, WriteSound
    <3> QED
      BY <2>3, <3>1, PreciousWritten
  <2>5. CASE db' = db
    <3>1. Careful(db, db)
      BY <2>3, SparesItself DEF Careful
    <3> QED
      BY <2>3, <2>5, <3>1, PreciousAfter
  <2> QED
    BY <2>2, <2>4, <2>5 DEF Commits
<1> QED
  BY <1>1, InitConsistent, NextConsistent, PTL DEF Spec, PreciousKept

LEMMA CollapsedCounted ==
    ASSUME NEW d, Sound(d), NEW A, Collapsed(d, A)
    PROVE  Collapses(d, A)
<1> DEFINE mods == {d.alias[a] : a \in A}
           precious == {m \in mods : d.mods[m].source \in Precious}
<1>1. Collapses(d, A) <=> Cardinality(mods) <= 1 \/ Cardinality(precious) >= 2
  BY DEF Collapses
<1>2. CASE \A a, b \in A : d.alias[a] = d.alias[b]
  <2>1. CASE A = {}
    <3>1. Cardinality(mods) = 0
      BY <2>1, FS_EmptySet
    <3> QED
      BY <1>1, <3>1
  <2>2. CASE A # {}
    <3>1. PICK a \in A : TRUE
      BY <2>2
    <3>2. mods = {d.alias[a]}
      BY <1>2, <3>1
    <3>3. Cardinality(mods) = 1
      BY <3>2, FS_Singleton
    <3> QED
      BY <1>1, <3>3
  <2> QED
    BY <2>1, <2>2
<1>3. CASE Torn(d, A)
  <2>1. IsFiniteSet(precious)
    <3>1. IsFiniteSet(DOMAIN d.mods)
      BY RowsFinite DEF Sound, Rowed
    <3>2. precious \subseteq DOMAIN d.mods
      BY DEF Collapsed, Sound, Lands
    <3> QED
      BY <3>1, <3>2, FS_Subset
  <2>2. PICK a \in A, b \in A : /\ d.alias[a] # d.alias[b]
                               /\ Vouched(d.mods[d.alias[a]]) /\ Vouched(d.mods[d.alias[b]])
    BY <1>3 DEF Torn
  <2>3. d.alias[a] \in precious /\ d.alias[b] \in precious
    BY <2>2 DEF Vouched
  <2> HIDE DEF precious
  <2>4. Cardinality(precious) >= 2
    BY <2>1, <2>2, <2>3, PairCounted
  <2> QED
    BY <1>1, <2>4
<1> QED
  BY <1>2, <1>3 DEF Collapsed

\* In whatever order write_scan meets the jars, and whatever its later passes
\* fold, link and prune, the aliases upsert_mod_by_alias took from one jar end
\* up on one mod, or on two that operators vouched for.
THEOREM IdentitiesCollapse == Spec => IdentityCollapsed
<1>1. Consistent /\ [Next]_vars =>
        [run.pc = "write" /\ run'.pc = "idle" /\ db' # db =>
            \A s \in DOMAIN run.scan.jars : Collapses(db', AliasesOf(run.scan.jars[s]))]_vars
  <2> SUFFICES ASSUME Consistent, [Next]_vars, run.pc = "write", run'.pc = "idle", db' # db,
                      NEW s \in DOMAIN run.scan.jars
               PROVE  Collapses(db', AliasesOf(run.scan.jars[s]))
    OBVIOUS
  <2>1. WriteHarvest /\ IsFiniteSet(DOMAIN run.scan.jars)
    BY WriteEnds
  <2>2. PICK order \in SetToSeqs(DOMAIN run.scan.jars) : Commits(WriteScan(db, run.scan, order))
    BY <2>1 DEF WriteHarvest
  <2>3. db' = WriteScan(db, run.scan, order)
    BY <2>2 DEF Commits
  <2>4. Len(order) \in Nat /\ \E k \in 1..Len(order) : order[k] = s
    BY <2>1, OrdersCounted
  <2>5. PICK k \in 1..Len(order) : order[k] = s
    BY <2>4
  <2>6. Sound(db)
    BY DEF Consistent
  <2>7. Sound(db') /\ Collapsed(db', AliasesOf(run.scan.jars[order[k]]))
    BY <2>3, <2>4, <2>6, WriteSound DEF Careful
  <2> QED
    BY <2>5, <2>7, CollapsedCounted
<1> QED
  BY <1>1, InitConsistent, NextConsistent, PTL DEF Spec, IdentityCollapsed
=============================================================================
