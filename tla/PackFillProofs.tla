--------------------------- MODULE PackFillProofs ----------------------------
(***************************************************************************)
(* What holds of every pack a curator saves and every build of it, for all *)
(* registries, catalogues and weathers: the fill keeps the declared rows a *)
(* list without duplicates whose recorded edges stay inside it, what a     *)
(* manifest locks is closed and never a mod the launcher must not install, *)
(* and a harvested pack builds to one content whatever Modrinth answers.   *)
(***************************************************************************)
EXTENDS PackFill, FiniteSetTheorems, WellFoundedInduction, TLAPS

-----------------------------------------------------------------------------
(* The first of a set of places, the highest of bounded ranks *)

\* Least is well defined on a set of numbers that has one.
LEMMA LeastIn == ASSUME NEW S \in SUBSET Nat, S # {} PROVE Least(S) \in S /\ \A n \in S : Least(S) <= n
<1> DEFINE R == OpToRel(<, Nat)
<1>1. PICK x \in S : \A y \in S : ~(<<y, x>> \in R)
  <2>1. IsWellFoundedOn(R, Nat)
    BY NatLessThanWellFounded
  <2> HIDE DEF R
  <2> QED
    BY <2>1, WFMin
<1>2. \A y \in S : x <= y
  <2> TAKE y \in S
  <2>1. ~(y < x)
    BY <1>1, Zenon DEF OpToRel
  <2> QED
    BY <2>1
<1> QED
  BY <1>2 DEF Least

-----------------------------------------------------------------------------
(* Lists *)

Listed(s) == s \in Seq(Range(s))

\* A list has a length and a place for every number up to it.
LEMMA ListedPlaces ==
    ASSUME NEW s, Listed(s)
    PROVE  Len(s) \in Nat /\ DOMAIN s = 1..Len(s) /\ s = [i \in 1..Len(s) |-> s[i]]
<1> DEFINE T == Range(s)
<1>1. s \in Seq(T)
  BY DEF Listed
<1> HIDE DEF T
<1> QED
  BY <1>1

\* What is built place by place is a list.
LEMMA PlacesListed ==
    ASSUME NEW n \in Nat, NEW s, DOMAIN s = 1..n, s = [i \in 1..n |-> s[i]]
    PROVE  Listed(s) /\ Len(s) = n
<1> DEFINE T == Range(s)
<1>1. \A i \in 1..n : s[i] \in T
  BY DEF Range
<1>2. s \in [1..n -> T]
  <2> HIDE DEF T
  <2> QED
    BY <1>1
<1>3. s \in Seq(T) /\ Len(s) = n
  <2> HIDE DEF T
  <2> QED
    BY <1>2
<1> QED
  BY <1>3 DEF Listed

LEMMA AppendListed ==
    ASSUME NEW s, NEW x, Listed(s)
    PROVE  /\ Listed(Append(s, x)) /\ Len(Append(s, x)) = Len(s) + 1
           /\ DOMAIN Append(s, x) = 1..(Len(s) + 1)
           /\ \A i \in 1..Len(s) : Append(s, x)[i] = s[i]
           /\ Append(s, x)[Len(s) + 1] = x
<1> DEFINE T == Range(s) \cup {x}
           t == Append(s, x)
<1>1. s \in Seq(T) /\ x \in T
  <2>1. s \in Seq(Range(s))
    BY DEF Listed
  <2>2. \A i \in 1..Len(s) : s[i] \in T
    BY <2>1
  <2> QED
    BY <2>1, <2>2, ListedPlaces
<1>2. t \in Seq(T) /\ Len(t) = Len(s) + 1 /\ (\A i \in 1..Len(s) : t[i] = s[i]) /\ t[Len(s) + 1] = x
  <2> HIDE DEF T
  <2> QED
    BY <1>1
<1>3. Len(t) \in Nat /\ DOMAIN t = 1..Len(t) /\ t = [i \in 1..Len(t) |-> t[i]]
  <2> HIDE DEF T, t
  <2> QED
    BY <1>2
<1>4. Listed(t)
  <2> HIDE DEF T, t
  <2> QED
    BY <1>3, PlacesListed
<1> QED
  BY <1>2, <1>3, <1>4

LEMMA ConcatListed ==
    ASSUME NEW s, NEW t, Listed(s), Listed(t)
    PROVE  /\ Listed(s \o t) /\ Len(s \o t) = Len(s) + Len(t)
           /\ DOMAIN (s \o t) = 1..(Len(s) + Len(t))
           /\ \A i \in 1..Len(s) : (s \o t)[i] = s[i]
           /\ \A i \in 1..Len(t) : (s \o t)[Len(s) + i] = t[i]
<1> DEFINE T == Range(s) \cup Range(t)
           u == s \o t
<1>1. s \in Seq(T) /\ t \in Seq(T)
  <2>1. s \in Seq(Range(s)) /\ t \in Seq(Range(t))
    BY DEF Listed
  <2>2. (\A i \in 1..Len(s) : s[i] \in T) /\ (\A i \in 1..Len(t) : t[i] \in T)
    BY <2>1
  <2> QED
    BY <2>1, <2>2, ListedPlaces
<1>2. /\ u \in Seq(T) /\ Len(u) = Len(s) + Len(t)
      /\ \A i \in 1..Len(s) : u[i] = s[i]
      /\ \A i \in 1..Len(t) : u[Len(s) + i] = t[i]
  <2> HIDE DEF T
  <2> QED
    BY <1>1
<1>3. Len(u) \in Nat /\ DOMAIN u = 1..Len(u) /\ u = [i \in 1..Len(u) |-> u[i]]
  <2> HIDE DEF T, u
  <2> QED
    BY <1>2
<1>4. Listed(u)
  <2> HIDE DEF T, u
  <2> QED
    BY <1>3, PlacesListed
<1> QED
  BY <1>2, <1>3, <1>4

LEMMA EmptyListed == Listed(<<>>) /\ Len(<<>>) = 0 /\ DOMAIN <<>> = {}
  BY DEF Listed

-----------------------------------------------------------------------------
(* Picked: what is kept of a list *)

\* After k places, the rows kept so far stand for the wanted ones among them.
PickHolds(c, base, k, v) ==
    /\ Listed(v)
    /\ \A i \in DOMAIN v : \E a \in 1..k : a \in c[2] /\ v[i] = c[1][a]
    /\ \A a \in 1..k : a \in c[2] => \E i \in DOMAIN v : v[i] = c[1][a]
    /\ Distinct(c[1]) => Distinct(v)

PickLoop == INSTANCE Iteration WITH Step <- PickStep, Holds <- PickHolds

\* One place further.
LEMMA PickRound ==
    ASSUME NEW s, NEW at, Listed(s), NEW v, NEW k \in 1..Len(s), PickHolds(<<s, at>>, <<>>, k - 1, v)
    PROVE  PickHolds(<<s, at>>, <<>>, k, PickStep(<<s, at>>, v, k))
<1> DEFINE c == <<s, at>>
           w == Append(v, s[k])
<1>0. Len(s) \in Nat /\ DOMAIN s = 1..Len(s) /\ k \in Nat /\ k - 1 \in Nat /\ 1..(k - 1) \subseteq 1..k
  BY ListedPlaces
<1>1. /\ Listed(v)
      /\ \A i \in DOMAIN v : \E a \in 1..(k - 1) : a \in at /\ v[i] = s[a]
      /\ \A a \in 1..(k - 1) : a \in at => \E i \in DOMAIN v : v[i] = s[a]
      /\ Distinct(s) => Distinct(v)
  BY DEF PickHolds
<1>2. CASE k \notin at
  <2>1. PickStep(c, v, k) = v
    BY <1>2 DEF PickStep
  <2>2. \A a \in 1..k : a \in at => a \in 1..(k - 1)
    BY <1>2, <1>0
  <2> QED
    BY <1>0, <1>1, <2>1, <2>2 DEF PickHolds
<1>3. CASE k \in at
  <2>1. PickStep(c, v, k) = w
    BY <1>3 DEF PickStep
  <2>2. /\ Listed(w) /\ DOMAIN w = 1..(Len(v) + 1) /\ Len(v) \in Nat /\ DOMAIN v = 1..Len(v)
        /\ (\A i \in 1..Len(v) : w[i] = v[i]) /\ w[Len(v) + 1] = s[k]
    BY <1>1, AppendListed, ListedPlaces
  <2> HIDE DEF w
  <2>3. \A i \in DOMAIN w : \E a \in 1..k : a \in at /\ w[i] = s[a]
    <3> TAKE i \in DOMAIN w
    <3>1. CASE i = Len(v) + 1
      BY <1>0, <1>3, <2>2, <3>1
    <3>2. CASE i # Len(v) + 1
      <4>1. i \in DOMAIN v /\ w[i] = v[i]
        BY <2>2, <3>2
      <4>2. PICK a \in 1..(k - 1) : a \in at /\ v[i] = s[a]
        BY <1>1, <4>1
      <4> QED
        BY <1>0, <4>1, <4>2
    <3> QED
      BY <3>1, <3>2
  <2>4. \A a \in 1..k : a \in at => \E i \in DOMAIN w : w[i] = s[a]
    <3> TAKE a \in 1..k
    <3> HAVE a \in at
    <3>1. CASE a = k
      BY <3>1, <2>2
    <3>2. CASE a # k
      <4>1. a \in 1..(k - 1)
        BY <3>2, <1>0
      <4>2. PICK i \in DOMAIN v : v[i] = s[a]
        BY <1>1, <4>1
      <4> QED
        BY <4>2, <2>2
    <3> QED
      BY <3>1, <3>2
  <2>5. ASSUME Distinct(s) PROVE Distinct(w)
    <3>1. \A i \in DOMAIN v : w[Len(v) + 1].file # w[i].file
                               /\ SourceIdentity(w[Len(v) + 1].source) # SourceIdentity(w[i].source)
      <4> TAKE i \in DOMAIN v
      <4>1. PICK a \in 1..(k - 1) : v[i] = s[a]
        BY <1>1
      <4>2. a # k /\ a \in DOMAIN s /\ k \in DOMAIN s
        BY <4>1, <1>0
      <4> QED
        BY <4>1, <4>2, <2>2, <2>5 DEF Distinct
    <3>2. Distinct(v)
      BY <1>1, <2>5
    <3> SUFFICES ASSUME NEW i \in DOMAIN w, NEW j \in DOMAIN w, i # j
                 PROVE  w[i].file # w[j].file /\ SourceIdentity(w[i].source) # SourceIdentity(w[j].source)
      BY DEF Distinct
    <3>3. CASE i \in DOMAIN v /\ j \in DOMAIN v
      BY <3>2, <3>3, <2>2 DEF Distinct
    <3>4. CASE i = Len(v) + 1
      BY <3>1, <3>4, <2>2
    <3>5. CASE j = Len(v) + 1
      BY <3>1, <3>5, <2>2
    <3> QED
      BY <3>3, <3>4, <3>5, <2>2
  <2> QED
    BY <2>1, <2>2, <2>3, <2>4, <2>5 DEF PickHolds
<1> QED
  BY <1>2, <1>3

\* Picked keeps exactly the wanted elements, and no duplicate arises.
LEMMA PickedKeeps ==
    ASSUME NEW s, NEW at, Listed(s)
    PROVE  LET v == Picked(s, at)
           IN  /\ Listed(v)
               /\ \A i \in DOMAIN v : \E a \in DOMAIN s \cap at : v[i] = s[a]
               /\ \A a \in DOMAIN s \cap at : \E i \in DOMAIN v : v[i] = s[a]
               /\ Distinct(s) => Distinct(v)
<1> DEFINE c == <<s, at>>
<1>1. PickHolds(c, <<>>, 0, <<>>)
  BY EmptyListed DEF PickHolds, Distinct
<1>2. \A v : \A k \in 1..Len(s) : PickHolds(c, <<>>, k - 1, v) => PickHolds(c, <<>>, k, PickStep(c, v, k))
  BY PickRound
<1>3. Len(s) \in Nat /\ DOMAIN s = 1..Len(s)
  BY ListedPlaces
<1>4. PickHolds(c, <<>>, Len(s), Loop(PickStep, c, <<>>, Len(s)))
  <2> HIDE DEF c
  <2> QED
    BY ONLY <1>1, <1>2, <1>3, PickLoop!Kept DEF Loop, PickLoop!Loop
<1> QED
  BY <1>3, <1>4 DEF PickHolds, Picked

-----------------------------------------------------------------------------
(* The plan of a fill *)

\* What the declared edges leave missing.
LEMMA MissingTargetsListed == ASSUME NEW unmet PROVE Listed(MissingTargets(unmet))
<1> DEFINE asked == Picked(Selectors, {i \in DOMAIN Selectors : \E x \in unmet : x[2].target = Selectors[i]})
           F(i) == LET first(t) == CHOOSE x \in unmet : x[2].target = t /\ \A y \in unmet : y[2].target = t => x[1] <= y[1]
                   IN  Target(asked[i], first(asked[i])[2].range, None)
           t == [i \in DOMAIN asked |-> F(i)]
<1>1. Listed(asked)
  BY PickedKeeps, ListsAssumption DEF Listed
<1>2. Listed(t)
  <2>1. Len(asked) \in Nat /\ DOMAIN asked = 1..Len(asked)
    BY <1>1, ListedPlaces
  <2>2. DOMAIN t = 1..Len(asked) /\ t = [i \in 1..Len(asked) |-> t[i]]
    <3> HIDE DEF asked, F
    <3> QED
      BY <2>1
  <2> HIDE DEF t, asked
  <2> QED
    BY <2>1, <2>2, PlacesListed
<1>3. MissingTargets(unmet) = t
  BY DEF MissingTargets
<1> QED
  <2> HIDE DEF t
  <2> QED
    BY <1>2, <1>3

\* What one version says is a list.
LEMMA SaidListed == ASSUME NEW d, d.source[3] \in DOMAIN MrVersions PROVE Listed(Said(d))
<1> DEFINE all == MrVersions[d.source[3]].deps
           deps == Required(d)
           t == Said(d)
<1>1. Listed(deps)
  <2>1. Listed(all)
    BY ListsAssumption DEF Listed
  <2> QED
    BY <2>1, PickedKeeps DEF Required
<1>2. Len(deps) \in Nat /\ DOMAIN deps = 1..Len(deps)
  BY <1>1, ListedPlaces
<1>3. DOMAIN t = 1..Len(deps) /\ t = [i \in 1..Len(deps) |-> t[i]]
  <2>1. t = [i \in 1..Len(deps) |-> [by |-> d.file, project |-> deps[i].project, version |-> deps[i].version]]
    BY <1>2 DEF Said
  <2> HIDE DEF t, deps
  <2> QED
    BY <2>1
<1> QED
  <2> HIDE DEF t, deps
  <2>1. Listed(t)
    BY <1>2, <1>3, PlacesListed
  <2> QED
    BY <2>1 DEF t

SayHolds(c, base, k, v) == Listed(v)

SayLoop == INSTANCE Iteration WITH Step <- SayStep, Holds <- SayHolds

LEMMA WireDepsListed ==
    ASSUME NEW db, NEW rows, NEW up, Listed(rows)
    PROVE  Listed(WireDeps(db, rows, up))
<1> DEFINE c == [db |-> db, rows |-> rows]
<1>1. SayHolds(c, <<>>, 0, <<>>)
  BY EmptyListed DEF SayHolds
<1>2. \A v : \A k \in 1..Len(rows) : SayHolds(c, <<>>, k - 1, v) => SayHolds(c, <<>>, k, SayStep(c, v, k))
  <2> TAKE v
  <2> TAKE k \in 1..Len(rows)
  <2> HAVE SayHolds(c, <<>>, k - 1, v)
  <2>1. CASE SayStep(c, v, k) = v
    BY <2>1 DEF SayHolds
  <2>2. CASE SayStep(c, v, k) # v
    <3>1. /\ rows[k].source[3] \in DOMAIN MrVersions
          /\ SayStep(c, v, k) = v \o Said(rows[k])
      BY <2>2 DEF SayStep
    <3> QED
      BY <3>1, SaidListed, ConcatListed DEF SayHolds
  <2> QED
    BY <2>1, <2>2
<1>3. Len(rows) \in Nat
  BY ListedPlaces
<1>4. SayHolds(c, <<>>, Len(rows), Loop(SayStep, c, <<>>, Len(rows)))
  <2> HIDE DEF c
  <2> QED
    BY ONLY <1>1, <1>2, <1>3, SayLoop!Kept DEF Loop, SayLoop!Loop
<1> QED
  BY <1>4, EmptyListed DEF SayHolds, WireDeps

\* The fill's plan lists what is missing.
LEMMA PlanListed ==
    ASSUME NEW db, NEW rows, NEW up, Listed(rows)
    PROVE  Listed(Plan(db, rows, up).missing)
<1> DEFINE plan == DependencyFillPlan(db, ConfigOf(rows))
           deps == WireDeps(db, rows, up)
           pinned(p) == {i \in Pins(rows) : rows[i].source[2] = p}
           new == Picked(deps, {k \in DOMAIN deps :
                   /\ pinned(deps[k].project) = {}
                   /\ \A i \in DOMAIN plan.missing : plan.missing[i].target # OfProject(deps[k].project)
                   /\ \A j \in 1..(k - 1) : deps[j].project # deps[k].project})
           t == [i \in DOMAIN new |-> Target(OfProject(new[i].project), None, new[i].version)]
<1>1. Listed(plan.missing)
  BY MissingTargetsListed DEF DependencyFillPlan, FillPlan, FillPlanOf
<1>2. Listed(new)
  <2>1. Listed(deps)
    BY WireDepsListed
  <2> HIDE DEF deps, plan
  <2> QED
    BY <2>1, PickedKeeps
<1>3. Listed(t)
  <2> HIDE DEF new
  <2>1. Len(new) \in Nat /\ DOMAIN new = 1..Len(new)
    BY <1>2, ListedPlaces
  <2>2. DOMAIN t = 1..Len(new) /\ t = [i \in 1..Len(new) |-> t[i]]
    BY <2>1
  <2> HIDE DEF t
  <2> QED
    BY <2>1, <2>2, PlacesListed
<1>4. Plan(db, rows, up).missing = plan.missing \o t
  BY DEF Plan, MergeWireDeps
<1> QED
  <2> HIDE DEF plan, t
  <2> QED
    BY <1>1, <1>3, <1>4, ConcatListed

-----------------------------------------------------------------------------
(* Rows *)

IsRow(d) ==
    /\ DOMAIN d = {"file", "on", "source", "requires", "pulled"}
    /\ d.on \in BOOLEAN /\ d.pulled \in BOOLEAN

\* The declared rows: a list of rows, no two of one file or one source.
Rowed(rows) ==
    /\ Listed(rows)
    /\ \A i \in DOMAIN rows : IsRow(rows[i])
    /\ Distinct(rows)

\* What a target resolves to, if anything, is a row.
LEMMA ResolvedIsRow ==
    ASSUME NEW db, NEW target, NEW cfg, NEW jars, NEW up
    PROVE  LET d == ResolveTarget(db, target, cfg, jars, up) IN d = None \/ IsRow(d)
<1>1. \A file, source : IsRow(Row(file, source))
  BY DEF IsRow, Row
<1>2. \A t, newest : IsRow(PulledFromCache(db, t, newest))
  BY <1>1 DEF PulledFromCache
<1>3. \A t, fits : PickCached(db, t, fits) = None \/ IsRow(PickCached(db, t, fits))
  BY <1>2 DEF PickCached
<1>4. \A p, v : IsRow(PulledFromVersion(p, v))
  BY <1>1 DEF PulledFromVersion
<1>5. \A p : NewestUsable(p) = None \/ IsRow(NewestUsable(p))
  BY <1>4 DEF NewestUsable
<1>6. \A p, pin, fallback : fallback = None \/ IsRow(fallback) =>
          PickUpstream(p, pin, fallback, up) = None \/ IsRow(PickUpstream(p, pin, fallback, up))
  BY <1>4, <1>5 DEF PickUpstream, Coalesce
<1>7. ResolveFromCache(db, target, cfg, jars) = None \/ IsRow(ResolveFromCache(db, target, cfg, jars))
  BY <1>3 DEF ResolveFromCache
<1> QED
  BY <1>6, <1>7 DEF ResolveTarget

\* A row nobody has yet joins the list without a duplicate.
LEMMA AppendRowed ==
    ASSUME NEW rows, Rowed(rows), NEW d, IsRow(d), ~AlreadyPresent(rows, d)
    PROVE  Rowed(Append(rows, d))
<1> DEFINE w == Append(rows, d)
<1>1. /\ Listed(w) /\ DOMAIN w = 1..(Len(rows) + 1) /\ Len(rows) \in Nat /\ DOMAIN rows = 1..Len(rows)
      /\ (\A i \in 1..Len(rows) : w[i] = rows[i]) /\ w[Len(rows) + 1] = d
  BY AppendListed, ListedPlaces DEF Rowed
<1> HIDE DEF w
<1>2. \A i \in DOMAIN w : IsRow(w[i])
  BY <1>1 DEF Rowed
<1>3. Distinct(w)
  <2> SUFFICES ASSUME NEW i \in DOMAIN w, NEW j \in DOMAIN w, i # j
               PROVE  w[i].file # w[j].file /\ SourceIdentity(w[i].source) # SourceIdentity(w[j].source)
    BY DEF Distinct
  <2>1. \A a \in DOMAIN rows : rows[a].file # d.file /\ SourceIdentity(rows[a].source) # SourceIdentity(d.source)
    BY DEF AlreadyPresent
  <2>2. CASE i \in DOMAIN rows /\ j \in DOMAIN rows
    BY <1>1, <2>2 DEF Rowed, Distinct
  <2>3. CASE i = Len(rows) + 1
    BY <1>1, <2>1, <2>3
  <2>4. CASE j = Len(rows) + 1
    BY <1>1, <2>1, <2>4
  <2> QED
    BY <1>1, <2>2, <2>3, <2>4
<1> QED
  BY <1>1, <1>2, <1>3 DEF Rowed, w

LEMMA AddedRowed ==
    ASSUME NEW rows, Rowed(rows), NEW d, d = None \/ IsRow(d)
    PROVE  Rowed(Added(rows, d))
  BY AppendRowed DEF Added

AddHolds(c, base, k, v) == Rowed(v)

AddLoop == INSTANCE Iteration WITH Step <- AddStep, Holds <- AddHolds

LEMMA FillPassRowed ==
    ASSUME NEW db, NEW rows, NEW jars, NEW up, Rowed(rows)
    PROVE  Rowed(FillPass(db, rows, jars, up))
<1> DEFINE missing == Plan(db, rows, up).missing
           c == [db |-> db, missing |-> missing, jars |-> jars, up |-> up]
<1>1. AddHolds(c, rows, 0, rows)
  BY DEF AddHolds
<1>2. \A v : \A k \in 1..Len(missing) : AddHolds(c, rows, k - 1, v) => AddHolds(c, rows, k, AddStep(c, v, k))
  <2> HIDE DEF c, missing
  <2> QED
    BY ResolvedIsRow, AddedRowed DEF AddHolds, AddStep
<1>3. Len(missing) \in Nat
  <2>1. Listed(missing)
    BY PlanListed DEF Rowed
  <2> HIDE DEF missing
  <2> QED
    BY <2>1, ListedPlaces
<1>4. AddHolds(c, rows, Len(missing), Loop(AddStep, c, rows, Len(missing)))
  <2> HIDE DEF c, missing
  <2> QED
    BY ONLY <1>1, <1>2, <1>3, AddLoop!Kept DEF Loop, AddLoop!Loop
<1> QED
  BY <1>4 DEF AddHolds, FillPass

PassHolds(c, base, k, v) == Rowed(v)

PassLoop == INSTANCE Iteration WITH Step <- PassStep, Holds <- PassHolds

LEMMA PassesRowed ==
    ASSUME NEW db, NEW rows, NEW jars, NEW up, Rowed(rows)
    PROVE  Rowed(Loop(PassStep, [db |-> db, jars |-> jars, up |-> up], rows, MaxPasses))
<1> DEFINE c == [db |-> db, jars |-> jars, up |-> up]
<1>1. PassHolds(c, rows, 0, rows)
  BY DEF PassHolds
<1>2. \A v : \A k \in 1..MaxPasses : PassHolds(c, rows, k - 1, v) => PassHolds(c, rows, k, PassStep(c, v, k))
  <2> HIDE DEF c
  <2> QED
    BY FillPassRowed DEF PassHolds, PassStep
<1>3. MaxPasses \in Nat
  BY DEF MaxPasses
<1>4. PassHolds(c, rows, MaxPasses, Loop(PassStep, c, rows, MaxPasses))
  <2> HIDE DEF c
  <2> QED
    BY ONLY <1>1, <1>2, <1>3, PassLoop!Kept DEF Loop, PassLoop!Loop
<1> QED
  BY <1>4 DEF PassHolds

-----------------------------------------------------------------------------
(* The recorded edges *)

\* A mod the pack ships has a place in it.
LEMMA HolderPlaced ==
    ASSUME NEW present, DOMAIN present \subseteq Nat \ {0}, NEW m
    PROVE  /\ Holder(present, m) # 0 => /\ Holder(present, m) \in DOMAIN present
                                        /\ present[Holder(present, m)].mod = m
           /\ Holder(present, m) = 0 => \A i \in DOMAIN present : present[i].mod # m
<1> DEFINE at == {i \in DOMAIN present : present[i].mod = m}
<1>1. CASE at = {}
  BY <1>1 DEF Holder
<1>2. CASE at # {}
  <2>1. at \subseteq Nat /\ 0 \notin at
    OBVIOUS
  <2>2. Least(at) \in at
    <3> HIDE DEF at
    <3> QED
      BY <1>2, <2>1, LeastIn
  <2>3. Holder(present, m) = Least(at)
    BY <1>2 DEF Holder
  <2> QED
    BY <2>1, <2>2, <2>3
<1> QED
  BY <1>1, <1>2

\* What is placed keeps its declaration's file name and index.
LEMMA PlacedKeeps ==
    ASSUME NEW db, NEW rows, Listed(rows)
    PROVE  LET present == PlaceMods(db, ConfigOf(rows)).present
           IN  /\ DOMAIN present \subseteq DOMAIN rows
               /\ DOMAIN present \subseteq Nat \ {0}
               /\ \A i \in DOMAIN present : present[i].file = rows[i].file
<1> DEFINE present == PlaceMods(db, ConfigOf(rows)).present
           at == {i \in DOMAIN rows : Placed(db, rows[i]) # None}
<1>1. present = [i \in at |-> Placed(db, rows[i])]
  BY DEF PlaceMods, ConfigOf
<1>2. \A d : Placed(db, d) # None => Placed(db, d).file = d.file
  BY DEF Placed, PlacedAt
<1>3. DOMAIN rows \subseteq Nat \ {0}
  BY ListedPlaces
<1> QED
  <2> HIDE DEF present
  <2>1. /\ DOMAIN present \subseteq DOMAIN rows
        /\ DOMAIN present \subseteq Nat \ {0}
        /\ \A i \in DOMAIN present : present[i].file = rows[i].file
    BY <1>1, <1>2, <1>3
  <2> QED
    BY <2>1 DEF present

\* An edge of the plan leads to a row of the pack.
LEMMA PlanRequires ==
    ASSUME NEW db, NEW rows, NEW up, Listed(rows), NEW e \in Plan(db, rows, up).requires
    PROVE  e[2] \in Files(rows)
<1> DEFINE plan == DependencyFillPlan(db, ConfigOf(rows))
           present == PlaceMods(db, ConfigOf(rows)).present
<1>1. CASE e \in plan.requires
  <2>1. PICK x : e = <<present[x[1]].file, present[Ships(db, present, x[2].target)].file>>
                 /\ Ships(db, present, x[2].target) # 0
    BY <1>1 DEF DependencyFillPlan, FillPlan, FillPlanOf
  <2>2. Ships(db, present, x[2].target) \in DOMAIN present
    <3>1. DOMAIN present \subseteq Nat \ {0}
      BY PlacedKeeps
    <3> HIDE DEF present
    <3> QED
      BY <2>1, <3>1, HolderPlaced DEF Ships, HolderOf
  <2>3. present[Ships(db, present, x[2].target)].file \in Files(rows)
    BY <2>2, PlacedKeeps DEF Files
  <2> QED
    BY <2>1, <2>3
<1>2. CASE e \notin plan.requires
  <2>1. PICK d : /\ e = <<d.by, rows[Least({i \in Pins(rows) : rows[i].source[2] = d.project})].file>>
                 /\ {i \in Pins(rows) : rows[i].source[2] = d.project} # {}
    BY <1>2 DEF Plan, MergeWireDeps
  <2> DEFINE at == {i \in Pins(rows) : rows[i].source[2] = d.project}
  <2>2. at \subseteq Nat /\ at \subseteq DOMAIN rows
    BY ListedPlaces DEF Pins
  <2>3. Least(at) \in at
    <3> HIDE DEF at
    <3>1. at # {}
      BY <2>1 DEF at
    <3> QED
      BY <2>2, <3>1, LeastIn
  <2> QED
    BY <2>1, <2>2, <2>3 DEF Files
<1> QED
  BY <1>1, <1>2

LEMMA AppliedRowed ==
    ASSUME NEW rows, Rowed(rows), NEW requires, \A e \in requires : e[2] \in Files(rows)
    PROVE  LET applied == ApplyRequires(rows, requires)
           IN  /\ Rowed(applied)
               /\ Files(applied) = Files(rows)
               /\ \A i \in DOMAIN applied : applied[i].requires \subseteq Files(applied)
<1> DEFINE to(i) == {e[2] : e \in {f \in requires : f[1] = rows[i].file}}
           applied == ApplyRequires(rows, requires)
<1>1. Len(rows) \in Nat /\ DOMAIN rows = 1..Len(rows)
  BY ListedPlaces DEF Rowed
<1>2. applied = [i \in DOMAIN rows |-> [rows[i] EXCEPT !.requires = to(i)]]
  BY DEF ApplyRequires
<1>3. \A i \in DOMAIN rows : to(i) \subseteq Files(rows)
  OBVIOUS
<1> HIDE DEF applied, to
<1>4. DOMAIN applied = DOMAIN rows /\ applied = [i \in 1..Len(rows) |-> applied[i]]
  BY <1>1, <1>2
<1>5. \A i \in DOMAIN rows : /\ DOMAIN applied[i] = {"file", "on", "source", "requires", "pulled"}
                             /\ applied[i].on = rows[i].on /\ applied[i].pulled = rows[i].pulled
                             /\ applied[i].file = rows[i].file /\ applied[i].source = rows[i].source
                             /\ applied[i].requires = to(i)
  BY <1>2 DEF Rowed, IsRow
<1>6. Listed(applied)
  BY <1>1, <1>4, PlacesListed
<1>7. Rowed(applied)
  <2>1. \A i \in DOMAIN applied : IsRow(applied[i])
    BY <1>4, <1>5 DEF Rowed, IsRow
  <2>2. Distinct(applied)
    <3>1. Distinct(rows)
      BY DEF Rowed
    <3>2. \A i, j \in DOMAIN rows : i # j =>
              /\ applied[i].file # applied[j].file
              /\ SourceIdentity(applied[i].source) # SourceIdentity(applied[j].source)
      BY ONLY <1>5, <3>1 DEF Distinct
    <3> QED
      BY ONLY <1>4, <3>2 DEF Distinct
  <2> QED
    BY <1>6, <2>1, <2>2 DEF Rowed
<1>8. Files(applied) = Files(rows)
  BY <1>4, <1>5 DEF Files
<1> QED
  BY <1>3, <1>4, <1>5, <1>7, <1>8 DEF applied

\* What is reached holds the start and everything it steps to, inside the whole.
LEMMA ReachClosed ==
    ASSUME NEW all, NEW start, NEW StepsTo(_)
    PROVE  LET reached == Reach(all, start, StepsTo)
           IN  /\ start \cap all \subseteq reached
               /\ \A f \in reached : StepsTo(f) \cap all \subseteq reached
  BY DEF Reach

\* Pruning leaves no edge to a row it dropped.
LEMMA PrunedRowed ==
    ASSUME NEW rows, Rowed(rows), \A i \in DOMAIN rows : rows[i].requires \subseteq Files(rows)
    PROVE  LET pruned == PruneOrphanedPulled(rows)
           IN  Rowed(pruned) /\ \A i \in DOMAIN pruned : pruned[i].requires \subseteq Files(pruned)
<1> DEFINE needs(f) == UNION {rows[i].requires : i \in {j \in DOMAIN rows : rows[j].file = f}}
           start == {rows[i].file : i \in {j \in DOMAIN rows : ~rows[j].pulled}}
           reached == Reached(rows)
           at == {i \in DOMAIN rows : ~rows[i].pulled \/ rows[i].file \in reached}
           pruned == PruneOrphanedPulled(rows)
<1>1. /\ start \subseteq reached
      /\ \A f \in reached : needs(f) \cap Files(rows) \subseteq reached
  <2>1. reached = Reach(Files(rows), start, needs)
    BY DEF Reached
  <2>2. start \subseteq Files(rows)
    BY DEF Files
  <2> HIDE DEF reached, start, needs
  <2> QED
    BY <2>1, <2>2 DEF Reach
<1>2. pruned = Picked(rows, at)
  BY DEF PruneOrphanedPulled
<1> HIDE DEF reached, pruned
<1>3. /\ Listed(pruned) /\ Distinct(pruned)
      /\ \A i \in DOMAIN pruned : \E a \in DOMAIN rows \cap at : pruned[i] = rows[a]
      /\ \A a \in DOMAIN rows \cap at : \E i \in DOMAIN pruned : pruned[i] = rows[a]
  <2> HIDE DEF at
  <2> QED
    BY <1>2, PickedKeeps DEF Rowed
<1>4. \A i \in DOMAIN pruned : IsRow(pruned[i])
  BY <1>3 DEF Rowed
<1>5. ASSUME NEW i \in DOMAIN pruned, NEW g \in pruned[i].requires PROVE g \in Files(pruned)
  <2>1. PICK a \in DOMAIN rows \cap at : pruned[i] = rows[a]
    BY <1>3
  <2>2. rows[a].file \in reached
    <3>1. CASE rows[a].pulled
      BY <2>1, <3>1
    <3>2. CASE ~rows[a].pulled
      BY <1>1, <2>1, <3>2
    <3> QED
      BY <3>1, <3>2
  <2>3. g \in needs(rows[a].file) /\ g \in Files(rows)
    BY <1>5, <2>1
  <2>4. g \in reached
    BY <1>1, <2>2, <2>3
  <2>5. PICK b \in DOMAIN rows : rows[b].file = g
    BY <2>3 DEF Files
  <2>6. b \in DOMAIN rows \cap at
    BY <2>4, <2>5
  <2>7. PICK j \in DOMAIN pruned : pruned[j] = rows[b]
    BY <1>3, <2>6
  <2> QED
    BY <2>5, <2>7 DEF Files
<1> QED
  BY <1>3, <1>4, <1>5 DEF Rowed, pruned

\* Whatever was declared, the filled pack is a list of rows without duplicates,
\* and its edges stay inside it.
LEMMA FilledRowed ==
    ASSUME NEW db, NEW rows, NEW jars, NEW up, Rowed(rows)
    PROVE  LET filled == FillDependencies(db, rows, jars, up)
           IN  Rowed(filled) /\ \A i \in DOMAIN filled : filled[i].requires \subseteq Files(filled)
<1> DEFINE full == Loop(PassStep, [db |-> db, jars |-> jars, up |-> up], rows, MaxPasses)
           requires == Plan(db, full, up).requires
           applied == ApplyRequires(full, requires)
<1>1. Rowed(full)
  BY PassesRowed
<1>2. \A e \in requires : e[2] \in Files(full)
  <2> HIDE DEF full
  <2> QED
    BY <1>1, PlanRequires DEF Rowed
<1>3. Rowed(applied) /\ \A i \in DOMAIN applied : applied[i].requires \subseteq Files(applied)
  <2> HIDE DEF full, requires
  <2> QED
    BY <1>1, <1>2, AppliedRowed
<1>4. FillDependencies(db, rows, jars, up) = PruneOrphanedPulled(applied)
  BY DEF FillDependencies, Recorded
<1> QED
  <2> HIDE DEF applied
  <2> QED
    BY <1>3, <1>4, PrunedRowed

LEMMA PickedRowed == ASSUME NEW rows, Rowed(rows), NEW at PROVE Rowed(Picked(rows, at))
  BY PickedKeeps DEF Rowed

\* A body and what the saved pack keeps of its libraries.
LEMMA MergedRowed ==
    ASSUME NEW saved, Rowed(saved), NEW body, Rowed(body)
    PROVE  Rowed(MergePulled(saved, body))
<1> DEFINE at == {i \in DOMAIN saved : saved[i].pulled /\ ~AlreadyPresent(body, saved[i])}
           kept == Picked(saved, at)
           w == body \o kept
<1>1. Rowed(kept) /\ \A i \in DOMAIN kept : ~AlreadyPresent(body, kept[i])
  <2>1. \A i \in DOMAIN kept : \E a \in DOMAIN saved \cap at : kept[i] = saved[a]
    <3> HIDE DEF at
    <3> QED
      BY PickedKeeps DEF Rowed
  <2>2. Rowed(kept)
    <3> HIDE DEF at
    <3> QED
      BY PickedRowed
  <2> HIDE DEF kept
  <2> QED
    BY <2>1, <2>2
<1> HIDE DEF kept
<1>2. /\ Listed(w) /\ Len(body) \in Nat /\ Len(kept) \in Nat
      /\ DOMAIN body = 1..Len(body) /\ DOMAIN kept = 1..Len(kept)
      /\ DOMAIN w = 1..(Len(body) + Len(kept))
      /\ \A i \in 1..Len(body) : w[i] = body[i]
      /\ \A i \in 1..Len(kept) : w[Len(body) + i] = kept[i]
  BY <1>1, ConcatListed, ListedPlaces DEF Rowed
<1> HIDE DEF w
<1>3. \A i \in DOMAIN w : \/ i \in DOMAIN body /\ w[i] = body[i]
                          \/ i - Len(body) \in DOMAIN kept /\ w[i] = kept[i - Len(body)]
  <2> TAKE i \in DOMAIN w
  <2>1. CASE i <= Len(body)
    BY <1>2, <2>1
  <2>2. CASE ~(i <= Len(body))
    <3>1. i - Len(body) \in 1..Len(kept) /\ i = Len(body) + (i - Len(body))
      BY <1>2, <2>2
    <3> QED
      BY <1>2, <3>1
  <2> QED
    BY <2>1, <2>2
<1>4. \A i \in DOMAIN w : IsRow(w[i])
  BY <1>1, <1>3 DEF Rowed
<1>5. Distinct(w)
  <2> SUFFICES ASSUME NEW i \in DOMAIN w, NEW j \in DOMAIN w, i # j
               PROVE  w[i].file # w[j].file /\ SourceIdentity(w[i].source) # SourceIdentity(w[j].source)
    BY DEF Distinct
  <2>1. \A a \in DOMAIN body, b \in DOMAIN kept :
            body[a].file # kept[b].file /\ SourceIdentity(body[a].source) # SourceIdentity(kept[b].source)
    BY <1>1 DEF AlreadyPresent
  <2>2. CASE i \in DOMAIN body /\ w[i] = body[i] /\ j \in DOMAIN body /\ w[j] = body[j]
    BY <2>2 DEF Rowed, Distinct
  <2>3. CASE i - Len(body) \in DOMAIN kept /\ w[i] = kept[i - Len(body)]
             /\ j - Len(body) \in DOMAIN kept /\ w[j] = kept[j - Len(body)]
    <3>1. i - Len(body) # j - Len(body)
      BY <1>2
    <3> QED
      BY <1>1, <2>3, <3>1 DEF Rowed, Distinct
  <2> QED
    BY <1>3, <2>1, <2>2, <2>3
<1> QED
  BY <1>2, <1>4, <1>5 DEF Rowed, w, MergePulled, kept

-----------------------------------------------------------------------------
(* The graph explains the report and the plan *)

Highest == SourceRank("curator")

LEMMA TopIn ==
    ASSUME NEW rows, rows # {}, \A r \in rows : r.rank \in 0..Highest
    PROVE  Top(rows) \in rows
<1> DEFINE below == {Highest - r.rank : r \in rows}
<1>1. Highest \in Nat
  BY DEF Highest, SourceRank
<1>2. below \in SUBSET Nat /\ below # {}
  BY <1>1
<1>3. PICK r \in rows : Least(below) = Highest - r.rank
  <2>1. Least(below) \in below
    <3> HIDE DEF below
    <3> QED
      BY <1>2, LeastIn
  <2> QED
    BY <2>1
<1>4. \A n \in below : Least(below) <= n
  <2> HIDE DEF below
  <2> QED
    BY <1>2, LeastIn
<1>5. \A s \in rows : s.rank <= r.rank
  <2> TAKE s \in rows
  <2>1. Highest - s.rank \in below
    OBVIOUS
  <2>2. Highest - r.rank <= Highest - s.rank
    BY <1>3, <1>4, <2>1
  <2>3. r.rank \in Nat /\ s.rank \in Nat
    BY <1>1
  <2> QED
    BY <1>1, <2>2, <2>3
<1> QED
  BY <1>5 DEF Top

\* What is true of the ranks on record is true of the tables a pack is read from.
LEMMA DbRead ==
    ASSUME stage \in DOMAIN Learned
    PROVE  /\ Db.rels = Learned[stage].rels /\ Db.files = Learned[stage].files
           /\ Db.jarClass = Learned[stage].jarClass
           /\ \A r \in Db.rels : r.rank \in 0..Highest
<1>1. DOMAIN Learned[stage] = DOMAIN EmptyDb
  BY LearnedAssumption
<1>2. {"rels", "files", "jarClass"} \subseteq DOMAIN Learned[stage]
  BY <1>1 DEF EmptyDb
<1>3. /\ Db.rels = Learned[stage].rels /\ Db.files = Learned[stage].files
      /\ Db.jarClass = Learned[stage].jarClass
  BY <1>2 DEF Db
<1> QED
  BY <1>3, LearnedAssumption DEF Highest

\* Every edge the report or the plan reads of a mod is one the graph draws.
LEMMA EdgesDrawn ==
    ASSUME NEW db, \A r \in db.rels : r.rank \in 0..Highest, NEW p
    PROVE  /\ EdgesOf(db, p) \subseteq RelationsForArtifact(db, p.n, p.mod)
           /\ FillEdgesOf(db, p) \subseteq RelationsForArtifact(db, p.n, p.mod)
<1> DEFINE rows == RelationsForArtifact(db, p.n, p.mod)
<1>0. \A r \in rows : r.rank \in 0..Highest
  BY DEF RelationsForArtifact
<1> HIDE DEF rows
<1>1. ASSUME NEW t \in {r.target : r \in rows} PROVE Top({r \in rows : r.target = t}) \in rows
  <2> DEFINE S == {r \in rows : r.target = t}
  <2>1. S # {} /\ \A r \in S : r.rank \in 0..Highest
    BY <1>0
  <2> HIDE DEF S
  <2>2. Top(S) \in S
    BY <2>1, TopIn
  <2> QED
    BY <2>2 DEF S
<1>2. ASSUME NEW k \in {<<r.kind, r.target>> : r \in rows}
      PROVE  Top({r \in rows : <<r.kind, r.target>> = k}) \in rows
  <2> DEFINE S == {r \in rows : <<r.kind, r.target>> = k}
  <2>1. S # {} /\ \A r \in S : r.rank \in 0..Highest
    BY <1>0
  <2> HIDE DEF S
  <2>2. Top(S) \in S
    BY <2>1, TopIn
  <2> QED
    BY <2>2 DEF S
<1> QED
  BY <1>1, <1>2 DEF EdgesOf, FillEdgesOf, rows

\* An edge of a mod of the pack is in the graph, and leads to the pack's own
\* mod when the pack ships the target.
LEMMA GraphHas ==
    ASSUME NEW db, NEW present, DOMAIN present \subseteq Nat \ {0},
           NEW i \in DOMAIN present, NEW r \in RelationsForArtifact(db, present[i].n, present[i].mod)
    PROVE  /\ Ships(db, present, r.target) # 0 => Ships(db, present, r.target) \in DOMAIN present
           /\ [from |-> present[i].mod, target |-> r.target, kind |-> r.kind,
               to |-> IF Ships(db, present, r.target) = 0 THEN None
                      ELSE present[Ships(db, present, r.target)].mod] \in PackGraphAmong(db, present).edges
<1> DEFINE in == {present[j].mod : j \in DOMAIN present}
           m == ModIdForSelector(db, r.target)
           Inside(x) == IF x \in in THEN x ELSE None
           Drawn(j, q) == [from |-> present[j].mod, target |-> q.target, kind |-> q.kind,
                           to |-> Inside(ModIdForSelector(db, q.target))]
           e == Drawn(i, r)
<1>1. e \in PackGraphAmong(db, present).edges
  <2>1. PackGraphAmong(db, present).edges =
            UNION {{Drawn(j, q) : q \in RelationsForArtifact(db, present[j].n, present[j].mod)} : j \in DOMAIN present}
    BY DEF PackGraphAmong, PackGraphOf
  <2> HIDE DEF Drawn
  <2> QED
    BY <2>1
<1>2. e = [from |-> present[i].mod, target |-> r.target, kind |-> r.kind, to |-> Inside(m)]
  OBVIOUS
<1> HIDE DEF e
<1>3. CASE Ships(db, present, r.target) = 0
  <2>1. m = None \/ m \notin in
    BY <1>3, HolderPlaced DEF Ships, HolderOf
  <2>2. Inside(m) = None
    BY <2>1
  <2> QED
    BY <1>1, <1>2, <1>3, <2>2
<1>4. CASE Ships(db, present, r.target) # 0
  <2>1. /\ Ships(db, present, r.target) \in DOMAIN present
        /\ present[Ships(db, present, r.target)].mod = m
    BY <1>4, HolderPlaced DEF Ships, HolderOf
  <2>2. Inside(m) = m
    BY <2>1
  <2> QED
    BY <1>1, <1>2, <1>4, <2>1, <2>2
<1> QED
  BY <1>3, <1>4

\* Every dependency the report calls unmet dangles in the graph, and every
\* requirement a save would record is an edge of it.
LEMMA GraphExplains ==
    ASSUME stage \in DOMAIN Learned, Listed(mods)
    PROVE  Explains(PackGraph(Db, ConfigOf(mods)), PlaceMods(Db, ConfigOf(mods)))
<1> DEFINE placed == PlaceMods(Db, ConfigOf(mods))
           present == placed.present
           graph == PackGraphAmong(Db, present)
           loader == Loader.name
<1>0. DOMAIN present \subseteq Nat \ {0}
  BY PlacedKeeps
<1>1. PackGraph(Db, ConfigOf(mods)) = graph
  BY DEF PackGraph
<1>2. \A r \in Db.rels : r.rank \in 0..Highest
  BY DbRead
<1>3. DependencyFillPlan(Db, ConfigOf(mods)) = FillPlan(Db, placed, loader)
  BY DEF DependencyFillPlan, ConfigOf
<1> HIDE DEF placed
<1>4. ASSUME NEW m \in MissingDeps(Db, placed, loader)
      PROVE  \E e \in graph.edges : e.kind = "requires" /\ e.target = m.target /\ e.to = None
  <2>1. PICK x \in Unmet(Db, placed, loader) : m.target = x[2].target
    BY <1>4 DEF MissingDeps, MissingRows
  <2>2. /\ Ships(Db, present, x[2].target) = 0
        /\ x \in HardEdges(Db, present)
    BY <2>1 DEF Unmet
  <2>3. x[1] \in DOMAIN present /\ x[2] \in EdgesOf(Db, present[x[1]]) /\ x[2].kind = "requires"
    BY <2>2 DEF HardEdges
  <2>4. x[2] \in RelationsForArtifact(Db, present[x[1]].n, present[x[1]].mod)
    BY <1>2, <2>3, EdgesDrawn
  <2> QED
    BY <1>0, <2>1, <2>2, <2>3, <2>4, GraphHas
<1>5. ASSUME NEW r \in FillPlan(Db, placed, loader).requires
      PROVE  \E e \in graph.edges, i, j \in DOMAIN present :
              /\ e.from = present[i].mod /\ e.to = present[j].mod
              /\ present[i].file = r[1] /\ present[j].file = r[2]
  <2> DEFINE answered == LoaderProvidedCapabilities(loader) \cup BridgedApiProvided(Db, present)
  <2>1. PICK x \in Demands(Db, present, answered) :
            /\ Ships(Db, present, x[2].target) # 0
            /\ r = <<present[x[1]].file, present[Ships(Db, present, x[2].target)].file>>
    BY <1>5 DEF FillPlan, FillPlanOf
  <2>2. x[1] \in DOMAIN present /\ x[2] \in FillEdgesOf(Db, present[x[1]])
    BY <2>1 DEF Demands
  <2>3. x[2] \in RelationsForArtifact(Db, present[x[1]].n, present[x[1]].mod)
    BY <1>2, <2>2, EdgesDrawn
  <2>4. PICK e \in graph.edges : /\ e.from = present[x[1]].mod
                                 /\ Ships(Db, present, x[2].target) \in DOMAIN present
                                 /\ e.to = present[Ships(Db, present, x[2].target)].mod
    <3> DEFINE i == x[1]
               q == x[2]
    <3>1. i \in DOMAIN present /\ q \in RelationsForArtifact(Db, present[i].n, present[i].mod)
      BY <2>2, <2>3
    <3> HIDE DEF i, q, present
    <3>2. Ships(Db, present, q.target) # 0
      BY <2>1 DEF q
    <3>3. /\ Ships(Db, present, q.target) \in DOMAIN present
          /\ [from |-> present[i].mod, target |-> q.target, kind |-> q.kind,
              to |-> IF Ships(Db, present, q.target) = 0 THEN None
                     ELSE present[Ships(Db, present, q.target)].mod] \in PackGraphAmong(Db, present).edges
      BY <1>0, <3>1, <3>2, GraphHas
    <3> QED
      BY <3>2, <3>3 DEF i, q
  <2> QED
    BY <2>1, <2>2, <2>4
<1>6. Explains(graph, placed)
  <2> HIDE DEF graph, loader
  <2> QED
    BY <1>3, <1>4, <1>5 DEF Explains, loader
<1> QED
  BY <1>1, <1>6 DEF placed

-----------------------------------------------------------------------------
(* What a manifest locks *)

\* A launcher never installs these.
NeverLocked(class, f) == NonMod(class, f) \/ ClassIn(class, f).side = "server"

\* A manifest's verdicts: closed under the edges that may lock, and never on a
\* mod that must not be locked.
ManifestSound(m, class) ==
    \A f \in DOMAIN m :
        /\ m[f].required => /\ ~NeverLocked(class, f)
                            /\ ClassIn(class, f).side = "client" => ClassIn(class, f).confidence = "low"
        /\ m[f].on \/ m[f].required =>
              \A g \in m[f].requires \cap DOMAIN m :
                  \/ m[g].required \/ NeverLocked(class, g) \/ ClassIn(class, g).optionalBoth
                  \/ ClassIn(class, g).side = "client"

\* Nothing classified says both "client" and "must match".
Sided(class) == \A f : ~(ClassIn(class, f).side = "client" /\ ClassIn(class, f).policy = "must_match")

\* The derivation is sound, and its backstop never fires.
LEMMA DerivedSound ==
    ASSUME NEW entries, NEW class, Sided(class)
    PROVE  /\ DeriveRequired(entries, class).ok
           /\ ManifestSound(DeriveRequired(entries, class).mods, class)
<1> DEFINE on(f) == entries[f].on /\ ClassIn(class, f).side # "server"
           deps(f) == {g \in entries[f].requires \cap DOMAIN entries : Lockable(class, g)}
           seed == {f \in DOMAIN entries : on(f) /\ ~NonMod(class, f) /\ ClassIn(class, f).policy = "must_match"}
           start == seed \cup UNION {deps(f) : f \in {g \in DOMAIN entries : on(g) \/ g \in seed}}
           reached == Reach(DOMAIN entries, start, deps)
           required == {f \in reached : ClassIn(class, f).side # "server" /\ ~NonMod(class, f)}
           m == DeriveRequired(entries, class).mods
<1>1. DeriveRequired(entries, class) = WithVerdicts(entries, class, required)
  BY DEF DeriveRequired
<1>2. /\ start \subseteq reached /\ \A f \in reached : deps(f) \subseteq reached
      /\ \A f \in reached : f \in seed \/ Lockable(class, f)
  <2>1. start \subseteq DOMAIN entries /\ \A f : deps(f) \subseteq DOMAIN entries
    OBVIOUS
  <2> DEFINE S == {f \in DOMAIN entries : f \in seed \/ Lockable(class, f)}
  <2>2. start \subseteq S /\ \A f : deps(f) \subseteq S
    OBVIOUS
  <2>3. start \subseteq reached /\ \A f \in reached : deps(f) \subseteq reached
    <3> HIDE DEF start, deps
    <3> QED
      BY <2>1 DEF Reach
  <2>4. reached \subseteq S
    <3>1. S \in SUBSET DOMAIN entries
      OBVIOUS
    <3> HIDE DEF start, deps, S
    <3> QED
      BY <2>2, <3>1 DEF Reach
  <2> QED
    BY <2>3, <2>4
<1>3. ASSUME NEW f \in required, ClassIn(class, f).side = "client" PROVE ClientVerdictIsSoft(ClassIn(class, f))
  <2>1. f \in seed \/ Lockable(class, f)
    BY <1>2
  <2>2. f \notin seed
    BY <1>3 DEF Sided
  <2> QED
    BY <1>3, <2>1, <2>2 DEF Lockable
<1>4. DeriveRequired(entries, class).ok
  <2> HIDE DEF required
  <2> QED
    BY <1>1, <1>3 DEF WithVerdicts
<1>5. /\ DOMAIN m = DOMAIN entries
      /\ \A f \in DOMAIN m : /\ m[f].required = (f \in required)
                             /\ m[f].on = on(f) /\ m[f].requires = entries[f].requires
  <2> HIDE DEF required
  <2> QED
    BY <1>1 DEF WithVerdicts
<1> HIDE DEF m
<1>6. ASSUME NEW f \in DOMAIN m, m[f].required
      PROVE  ~NeverLocked(class, f) /\ (ClassIn(class, f).side = "client" => ClassIn(class, f).confidence = "low")
  <2>1. f \in required
    BY <1>5, <1>6
  <2>2. ~NeverLocked(class, f)
    BY <2>1 DEF NeverLocked
  <2> QED
    BY <1>3, <2>1, <2>2 DEF ClientVerdictIsSoft
<1>7. ASSUME NEW f \in DOMAIN m, m[f].on \/ m[f].required, NEW g \in m[f].requires \cap DOMAIN m
      PROVE  \/ m[g].required \/ NeverLocked(class, g) \/ ClassIn(class, g).optionalBoth
             \/ ClassIn(class, g).side = "client"
  <2> SUFFICES ASSUME ~NeverLocked(class, g), ~ClassIn(class, g).optionalBoth, ClassIn(class, g).side # "client"
               PROVE  m[g].required
    OBVIOUS
  <2>1. g \in deps(f)
    BY <1>5, <1>7 DEF Lockable
  <2>2. g \in reached
    <3>1. CASE m[f].on
      <4>1. g \in start
        BY <1>5, <2>1, <3>1
      <4> QED
        BY <1>2, <4>1
    <3>2. CASE m[f].required
      <4>1. f \in reached
        BY <1>5, <3>2
      <4> QED
        BY <1>2, <2>1, <4>1
    <3> QED
      BY <1>7, <3>1, <3>2
  <2>3. g \in required
    BY <2>2 DEF NeverLocked
  <2> QED
    BY <1>5, <2>3
<1>8. ManifestSound(m, class)
  BY <1>6, <1>7 DEF ManifestSound
<1> QED
  BY <1>4, <1>8 DEF m

\* No pack is classified both "client" and "must match".
LEMMA PackSided ==
    ASSUME stage \in DOMAIN Learned, NEW cfg
    PROVE  Sided(ClassifyPack(Db, cfg))
<1> DEFINE Fine(c) == ~(c.side = "client" /\ c.policy = "must_match")
<1>1. \A jar, env, flags : Fine(jar) /\ (flags # None => Fine(flags)) => Fine(Classification(jar, env, flags))
  <2> TAKE jar, env, flags
  <2> HAVE Fine(jar) /\ (flags # None => Fine(flags))
  <2>1. None = "client" => None # "must_match"
    OBVIOUS
  <2> QED
    BY <2>1 DEF Classification
<1>2. \A c, s : SideFromModrinthEnv(c, s) # None => Fine(SideFromModrinthEnv(c, s))
  <2> TAKE c, s
  <2> HAVE SideFromModrinthEnv(c, s) # None
  <2>1. /\ SideFromModrinthEnv(c, s).side = (IF s = "unsupported" THEN "client" ELSE IF c = "unsupported" THEN "server" ELSE "both")
        /\ SideFromModrinthEnv(c, s).policy = (IF c = "required" /\ s = "required" THEN "must_match" ELSE "tolerant")
    BY DEF SideFromModrinthEnv
  <2>2. CASE s = "unsupported"
    BY <2>1, <2>2
  <2>3. CASE s # "unsupported"
    <3>1. SideFromModrinthEnv(c, s).side # "client"
      BY <2>1, <2>3
    <3> QED
      BY <3>1
  <2> QED
    BY <2>2, <2>3
<1>3. \A jar, env : Fine(jar) => Fine(ClassifyFrom(jar, env))
  <2> HIDE DEF Fine
  <2> QED
    BY <1>1, <1>2 DEF ClassifyFrom
<1>4. \A n, sha : Fine(ClassifyArtifact(Db, n, sha))
  <2> TAKE n, sha
  <2> DEFINE jar == IF sha \in DOMAIN Db.jarClass THEN Db.jarClass[sha]
                    ELSE [kind |-> None, side |-> None, policy |-> None, confidence |-> None]
             env == IF n \in DOMAIN Db.mods THEN Db.mods[n].env ELSE None
  <2>1. CASE sha \in DOMAIN Db.jarClass
    <3>1. Db.jarClass = Learned[stage].jarClass
      BY DbRead
    <3>2. Fine(Learned[stage].jarClass[sha])
      BY <2>1, <3>1, LearnedAssumption
    <3> QED
      BY <2>1, <3>1, <3>2, <1>3 DEF ClassifyArtifact
  <2>2. CASE sha \notin DOMAIN Db.jarClass
    <3>1. jar.side = None /\ jar.policy = None
      BY <2>2
    <3>2. None = "client" => None # "must_match"
      OBVIOUS
    <3>3. Fine(jar)
      BY <3>1, <3>2
    <3>4. ClassifyArtifact(Db, n, sha) = ClassifyFrom(jar, env)
      BY DEF ClassifyArtifact
    <3> HIDE DEF Fine, jar, env
    <3> QED
      BY <1>3, <3>3, <3>4
  <2> QED
    BY <2>1, <2>2
<1> DEFINE class == ClassifyPack(Db, cfg)
<1>5. \A f \in DOMAIN class : Fine(class[f])
  <2> HIDE DEF Fine
  <2> QED
    BY <1>4 DEF ClassifyPack
<1> HIDE DEF class
<1>6. \A f : Fine(ClassIn(class, f))
  <2> TAKE f
  <2>1. CASE f \in DOMAIN class
    BY <1>5, <2>1 DEF ClassIn
  <2>2. CASE f \notin DOMAIN class
    <3>1. ClassIn(class, f).side = None /\ ClassIn(class, f).policy = None
      BY <2>2 DEF ClassIn
    <3>2. None = "client" => None # "must_match"
      OBVIOUS
    <3> QED
      BY <3>1, <3>2
  <2> QED
    BY <2>1, <2>2
<1> QED
  BY <1>6 DEF Sided, class

\* However a build of the saved pack goes, it ends for its sources or built,
\* and what it builds is sound.
LEMMA BuiltSound ==
    ASSUME stage \in DOMAIN Learned, NEW up
    PROVE  LET built == BuiltIn(up)
           IN  /\ built.end \in {"sources", "built"}
               /\ built.end = "built" => ManifestSound(built.mods, ClassifyPack(Db, ConfigOf(mods)))
<1> DEFINE class == ClassifyPack(Db, ConfigOf(mods))
           built == BuiltIn(up)
<1>1. CASE built = [end |-> "sources"]
  BY <1>1
<1>2. CASE built # [end |-> "sources"]
  <2>1. PICK entries, placed : built = Derived(DeriveRequired(entries, class), placed)
    BY <1>2 DEF BuildManifest, BuiltIn
  <2> DEFINE d == DeriveRequired(entries, class)
  <2>2. d.ok /\ ManifestSound(d.mods, class)
    <3>1. Sided(class)
      BY PackSided
    <3> HIDE DEF class
    <3> QED
      BY <3>1, DerivedSound
  <2> HIDE DEF d
  <2>3. built.end = "built" /\ built.mods = d.mods
    BY <2>1, <2>2 DEF Derived, d
  <2> QED
    BY <2>2, <2>3
<1> QED
  BY <1>1, <1>2

-----------------------------------------------------------------------------
(* The inductive invariant *)

BuildsSound == \A v \in DOMAIN builds : ManifestSound(builds[v].mods, builds[v].class)

IInv == TypeOK /\ Rowed(mods) /\ BuildsSound

\* A body is a list of rows: some of the ones last read, maybe a declared one.
LEMMA BodiesRowed ==
    ASSUME Rowed(mods), NEW body \in Bodies, Distinct(body)
    PROVE  Rowed(body)
<1>1. CASE \E at : body = Picked(mods, at)
  BY <1>1, PickedRowed
<1>2. CASE \E at : \E c \in Catalogue : body = Append(Picked(mods, at), c)
  <2>1. PICK at : \E c \in Catalogue : body = Append(Picked(mods, at), c)
    BY <1>2
  <2>2. PICK c \in Catalogue : body = Append(Picked(mods, at), c)
    BY <2>1
  <2> DEFINE rows == Picked(mods, at)
  <2>3. Rowed(rows)
    BY PickedRowed
  <2>4. IsRow(c)
    BY CatalogueAssumption DEF IsRow
  <2> HIDE DEF rows
  <2>5. /\ Listed(body) /\ DOMAIN body = 1..(Len(rows) + 1) /\ DOMAIN rows = 1..Len(rows) /\ Len(rows) \in Nat
        /\ (\A i \in 1..Len(rows) : body[i] = rows[i]) /\ body[Len(rows) + 1] = c
    BY <2>2, <2>3, AppendListed, ListedPlaces DEF Rowed, rows
  <2>6. \A i \in DOMAIN body : IsRow(body[i])
    BY <2>3, <2>4, <2>5 DEF Rowed
  <2> QED
    BY <2>5, <2>6 DEF Rowed
<1> QED
  BY <1>1, <1>2 DEF Bodies

LEMMA InitEstablishes == Init => IInv
<1> SUFFICES ASSUME Init PROVE IInv
  OBVIOUS
<1>1. Rowed(mods) /\ DOMAIN mods = {}
  BY EmptyListed DEF Init, Rowed, Distinct
<1>2. stage \in DOMAIN Learned
  <2>1. Len(Learned) \in Nat /\ DOMAIN Learned = 1..Len(Learned)
    <3>1. Listed(Learned)
      BY LearnedAssumption DEF Listed
    <3> QED
      BY <3>1, ListedPlaces
  <2>2. Len(Learned) # 0
    BY LearnedAssumption
  <2> QED
    BY <2>1, <2>2 DEF Init
<1>3. DOMAIN windows = {} /\ DOMAIN builds = {}
  BY DEF Init
<1> QED
  BY <1>1, <1>2, <1>3 DEF Init, IInv, TypeOK, BuildsSound, Rowed

\* The tables a step leaves alone.
LEMMA SaveKeeps ==
    ASSUME IInv, NEW body \in Bodies, NEW extras \in Extras, NEW up, Save(body, extras, up)
    PROVE  IInv'
<1> DEFINE merged == MergePulled(mods, body)
<1>1. Rowed(merged)
  BY BodiesRowed, MergedRowed DEF IInv, Save
<1>2. Rowed(mods') /\ \A i \in DOMAIN mods' : mods'[i].requires \subseteq Files(mods')
  <2>1. CASE merged = mods
    BY <2>1 DEF Save, IInv, TypeOK
  <2>2. CASE merged # mods
    <3>1. mods' = FillDependencies(Db, merged, cached, up)
      BY <2>2 DEF Save
    <3> HIDE DEF merged
    <3> QED
      BY <1>1, <3>1, FilledRowed
  <2> QED
    BY <2>1, <2>2
<1>3. UNCHANGED <<stage, windows, cached, builds, job>> /\ assets' \in Extras
  BY DEF Save
<1>4. \A i \in DOMAIN mods' : mods'[i].on \in BOOLEAN /\ mods'[i].pulled \in BOOLEAN
  BY <1>2 DEF Rowed, IsRow
<1>5. Rowed(mods)' /\ Distinct(mods')
  BY <1>2 DEF Rowed
<1>6. TypeOK'
  BY <1>2, <1>3, <1>4, <1>5 DEF IInv, TypeOK
<1> QED
  BY <1>3, <1>5, <1>6 DEF IInv, BuildsSound

LEMMA BuildKeeps == ASSUME IInv, NEW up, NEW override \in BOOLEAN, Build(up, override) PROVE IInv'
<1> DEFINE known == LoaderWindows(mods, cached, up)
           checks == Check(ResolvePack(Db, ConfigOf(mods), KnownFor(mods, known)))
           built == BuiltIn(up)
<1>0. stage \in DOMAIN Learned
  BY DEF IInv, TypeOK
<1>1. /\ UNCHANGED <<mods, stage, cached>> /\ windows' = known
      /\ Conclude(checks, built, override) /\ UNCHANGED assets
  BY DEF Build, BuiltIn
<1>2. \A k \in DOMAIN windows' : k \in DOMAIN JarWindows /\ windows'[k] = JarWindows[k]
  <2> DEFINE keys == KeysOfRows(mods)
             read == ReadArtifacts(keys \ DOMAIN windows, cached, up)
  <2>1. \A k \in DOMAIN read : k \in DOMAIN JarWindows /\ read[k] = JarWindows[k]
    BY DEF ReadArtifacts
  <2>2. windows' = [k \in DOMAIN windows \cup DOMAIN read |-> IF k \in DOMAIN windows THEN windows[k] ELSE read[k]]
    BY <1>1 DEF LoaderWindows
  <2>3. \A k \in DOMAIN windows : k \in DOMAIN JarWindows /\ windows[k] = JarWindows[k]
    BY DEF IInv, TypeOK
  <2> HIDE DEF read
  <2> QED
    BY <2>1, <2>2, <2>3
<1>3. /\ built.end \in {"sources", "built"}
      /\ built.end = "built" => ManifestSound(built.mods, ClassifyPack(Db, ConfigOf(mods)))
  BY <1>0, BuiltSound
<1> HIDE DEF built, checks
<1>4. job' \in {"refused", "sources", "built"}
  BY <1>1, <1>3 DEF Conclude
<1>5. BuildsSound'
  <2>1. CASE builds' = builds
    BY <2>1 DEF IInv, BuildsSound
  <2>2. CASE builds' # builds
    <3> DEFINE v == NextAutoVersion(ExistingVersions)
               entry == [mods |-> built.mods, assets |-> built.assets, print |-> built.fingerprint, checks |-> checks,
                         class |-> ClassifyPack(Db, ConfigOf(mods))]
    <3>1. built.end = "built" /\ builds' = Put(builds, v, entry)
      BY <1>1, <2>2 DEF Conclude
    <3>2. ManifestSound(entry.mods, entry.class)
      BY <1>3, <3>1
    <3> HIDE DEF v, entry
    <3>3. \A x \in DOMAIN builds' : builds'[x] = entry \/ (x \in DOMAIN builds /\ builds'[x] = builds[x])
      BY <3>1 DEF Put
    <3> QED
      BY <3>2, <3>3 DEF IInv, BuildsSound
  <2> QED
    BY <2>1, <2>2
<1>6. Rowed(mods)' /\ TypeOK'
  BY <1>1, <1>2, <1>4 DEF IInv, TypeOK, Distinct, Files
<1> QED
  BY <1>5, <1>6 DEF IInv

\* Every step keeps the invariant.
LEMMA NextKeeps == ASSUME IInv, [Next]_vars PROVE IInv'
<1>1. ASSUME NEW body \in Bodies, NEW extras \in Extras, NEW up \in Weathers, Save(body, extras, up) PROVE IInv'
  BY <1>1, SaveKeeps
<1>2. ASSUME NEW up \in Weathers, NEW override \in BOOLEAN, Build(up, override) PROVE IInv'
  BY <1>2, BuildKeeps
<1>3. CASE Learn
  <2>1. UNCHANGED <<mods, assets, windows, cached, builds, job>> /\ stage < Len(Learned) /\ stage' = stage + 1
    BY <1>3 DEF Learn
  <2>2. stage' \in DOMAIN Learned
    <3>1. Listed(Learned)
      BY LearnedAssumption DEF Listed
    <3>2. Len(Learned) \in Nat /\ DOMAIN Learned = 1..Len(Learned)
      BY <3>1, ListedPlaces
    <3>3. stage \in 1..Len(Learned)
      BY <3>2 DEF IInv, TypeOK
    <3> QED
      BY <2>1, <3>2, <3>3
  <2> QED
    BY <2>1, <2>2 DEF IInv, TypeOK, BuildsSound, Rowed, Distinct, Files
<1>4. ASSUME NEW sha \in cached \cap Doomed, Evict(sha) PROVE IInv'
  BY <1>4 DEF Evict, IInv, TypeOK, BuildsSound, Rowed, Distinct, Files
<1>5. CASE UNCHANGED vars
  BY <1>5 DEF vars, IInv, TypeOK, BuildsSound, Rowed, Distinct, Files
<1> QED
  BY <1>1, <1>2, <1>3, <1>4, <1>5 DEF Next

LEMMA Invariance == Spec => []IInv
<1>1. IInv /\ [Next]_vars => IInv'
  BY NextKeeps
<1> QED
  BY InitEstablishes, <1>1, PTL DEF Spec

\* depfill.rs and pack.rs: whatever saves, fills, prunes, builds and weather
\* come, no two rows of the stored config claim one file or one source, every
\* recorded requirement names a row that is there, the windows on record are
\* the jars' own, and the derivation's backstop never fires.
THEOREM FillTypeCorrect == Spec => []TypeOK
<1>1. IInv => TypeOK
  BY DEF IInv
<1> QED
  BY Invariance, <1>1, PTL

\* build.rs, derive_required: what a published manifest locks is closed under
\* the edges that may lock and holds no mod that must not be locked; and the
\* pack's graph shows every dependency the report calls unmet and every edge a
\* save records.
THEOREM RequiredIsSound == Spec => []RequiredSound
<1>1. IInv => RequiredSound
  <2> SUFFICES ASSUME IInv PROVE RequiredSound
    OBVIOUS
  <2>1. Explains(PackGraph(Db, ConfigOf(mods)), PlaceMods(Db, ConfigOf(mods)))
    BY GraphExplains DEF IInv, TypeOK, Rowed
  <2>2. \A v \in DOMAIN builds : ManifestSound(builds[v].mods, builds[v].class)
    BY DEF IInv, BuildsSound
  <2> QED
    BY <2>1, <2>2 DEF RequiredSound, ManifestSound, NeverLocked
<1> QED
  BY Invariance, <1>1, PTL

\* A row the harvest has read ships something whenever it does with Modrinth
\* up, and the same bytes when the registry has the version's primary file.
LEMMA SourceStands ==
    ASSUME Harvested(mods), NEW i \in DOMAIN mods, NEW up,
           ResolveMod(Db, mods[i], cached, Endpoints) # None
    PROVE  /\ ResolveMod(Db, mods[i], cached, up) # None
           /\ Primary(mods[i]) =>
                 ResolveMod(Db, mods[i], cached, up) = ResolveMod(Db, mods[i], cached, Endpoints)
<1> DEFINE d == mods[i]
<1>1. CASE d.source[1] = "modrinth"
  <2>1. ShaOfModrinthVersion(Db, d.source[3]) # None
    BY <1>1 DEF Harvested, Pins
  <2>2. "version" \in Endpoints
    BY DEF Endpoints
  <2> QED
    BY <1>1, <2>1, <2>2 DEF ResolveMod, Primary
<1>2. CASE d.source[1] # "modrinth"
  BY <1>2 DEF ResolveMod
<1> QED
  BY <1>1, <1>2

\* The derivation reads no hash: entries that differ in nothing else lead to
\* the same verdicts, each with its own hash.
LEMMA DerivedAlike ==
    ASSUME NEW e, NEW g, NEW class, DOMAIN e = DOMAIN g,
           \A f \in DOMAIN e : e[f].on = g[f].on /\ e[f].requires = g[f].requires
    PROVE  LET m == DeriveRequired(e, class).mods
               n == DeriveRequired(g, class).mods
           IN  /\ DeriveRequired(e, class).ok = DeriveRequired(g, class).ok
               /\ DOMAIN m = DOMAIN e /\ DOMAIN n = DOMAIN e
               /\ \A f \in DOMAIN e : /\ m[f].required = n[f].required /\ m[f].on = n[f].on
                                      /\ m[f].sha = e[f].sha /\ n[f].sha = g[f].sha
<1> DEFINE on(h, f) == h[f].on /\ ClassIn(class, f).side # "server"
           deps(h, f) == {x \in h[f].requires \cap DOMAIN h : Lockable(class, x)}
           seed(h) == {f \in DOMAIN h : on(h, f) /\ ~NonMod(class, f) /\ ClassIn(class, f).policy = "must_match"}
           start(h) == seed(h) \cup UNION {deps(h, f) : f \in {x \in DOMAIN h : on(h, x) \/ x \in seed(h)}}
           reached(h) == {f \in DOMAIN h : \A S \in {T \in SUBSET DOMAIN h : start(h) \subseteq T
                              /\ \A x \in T : deps(h, x) \cap DOMAIN h \subseteq T} : f \in S}
           required(h) == {f \in reached(h) : ClassIn(class, f).side # "server" /\ ~NonMod(class, f)}
<1>1. \A h : DeriveRequired(h, class) = WithVerdicts(h, class, required(h))
  BY DEF DeriveRequired, Reach
<1>2. \A f \in DOMAIN e : on(e, f) = on(g, f) /\ deps(e, f) = deps(g, f)
  OBVIOUS
<1>3. seed(e) = seed(g)
  BY <1>2
<1>4. start(e) = start(g)
  <2> HIDE DEF on, deps, seed
  <2> QED
    BY <1>2, <1>3
<1>5. reached(e) = reached(g)
  <2> HIDE DEF deps, start
  <2>1. \A T \in SUBSET DOMAIN e : (\A x \in T : deps(e, x) \cap DOMAIN e \subseteq T)
                                  = (\A x \in T : deps(g, x) \cap DOMAIN g \subseteq T)
    BY <1>2
  <2>2. {T \in SUBSET DOMAIN e : start(e) \subseteq T /\ \A x \in T : deps(e, x) \cap DOMAIN e \subseteq T}
      = {T \in SUBSET DOMAIN g : start(g) \subseteq T /\ \A x \in T : deps(g, x) \cap DOMAIN g \subseteq T}
    BY <1>4, <2>1
  <2> QED
    BY <2>2
<1>6. required(e) = required(g)
  <2> HIDE DEF reached
  <2> QED
    BY <1>5
<1> HIDE DEF required
<1> DEFINE r == required(e)
<1>7. DeriveRequired(e, class) = WithVerdicts(e, class, r) /\ DeriveRequired(g, class) = WithVerdicts(g, class, r)
  BY <1>1, <1>6
<1> HIDE DEF r
<1>8. \A h : LET w == WithVerdicts(h, class, r)
             IN  /\ DOMAIN w.mods = DOMAIN h
                 /\ w.ok = (\A f \in r : ClassIn(class, f).side = "client" => ClientVerdictIsSoft(ClassIn(class, f)))
                 /\ \A f \in DOMAIN h : /\ w.mods[f].required = (f \in r) /\ w.mods[f].sha = h[f].sha
                                         /\ w.mods[f].on = (h[f].on /\ ClassIn(class, f).side # "server")
  BY DEF WithVerdicts
<1>9. \A f \in DOMAIN e : (e[f].on /\ ClassIn(class, f).side # "server") = (g[f].on /\ ClassIn(class, f).side # "server")
  OBVIOUS
<1> DEFINE m == WithVerdicts(e, class, r)
           n == WithVerdicts(g, class, r)
<1>10. m.ok = n.ok /\ DOMAIN m.mods = DOMAIN e /\ DOMAIN n.mods = DOMAIN e
  BY <1>8
<1>11. ASSUME NEW f \in DOMAIN e
       PROVE  /\ m.mods[f].required = n.mods[f].required
              /\ m.mods[f].on = n.mods[f].on
              /\ m.mods[f].sha = e[f].sha /\ n.mods[f].sha = g[f].sha
  <2>1. f \in DOMAIN g
    BY <1>11
  <2>2. m.mods[f].required = (f \in r) /\ n.mods[f].required = (f \in r)
    BY <1>8, <1>11, <2>1
  <2>3. /\ m.mods[f].on = (e[f].on /\ ClassIn(class, f).side # "server")
        /\ n.mods[f].on = (g[f].on /\ ClassIn(class, f).side # "server")
    BY <1>8, <1>11, <2>1
  <2>4. m.mods[f].on = n.mods[f].on
    <3> HIDE DEF m, n
    <3> QED
      BY <1>9, <1>11, <2>3, Zenon
  <2>5. m.mods[f].sha = e[f].sha /\ n.mods[f].sha = g[f].sha
    BY <1>8, <1>11, <2>1
  <2> QED
    BY <2>2, <2>4, <2>5
<1> QED
  <2> HIDE DEF m, n
  <2>1. DeriveRequired(e, class) = m /\ DeriveRequired(g, class) = n
    BY <1>7 DEF m, n
  <2> QED
    BY <1>10, <1>11, <2>1

\* It is enough to compare each weather's build with the one under a clear sky.
LEMMA BuildsCompared ==
    ASSUME Harvested(mods) /\ BuiltIn(Endpoints).end = "built" =>
              \A up \in Weathers : Withstands(BuiltIn(up), BuiltIn(Endpoints), up)
    PROVE  OutageBuilds
<1> DEFINE outs == [up \in Weathers \cup {Endpoints} |-> BuiltIn(up)]
<1>1. outs[Endpoints] = BuiltIn(Endpoints) /\ \A up \in Weathers : outs[up] = BuiltIn(up)
  OBVIOUS
<1> HIDE DEF outs
<1>2. Harvested(mods) => StandsOutages(outs)
  BY <1>1 DEF StandsOutages
<1> QED
  BY <1>2 DEF OutageBuilds, outs

\* sources.rs, resolve_mod: once every pin has been harvested, a pack that
\* builds goes on building whatever part of Modrinth is down, unless an asset
\* is Modrinth's; it lists and locks the same mods, and each is the same file
\* unless the registry has another file of that version.
THEOREM OutagesBuild == Spec => []OutageBuilds
<1>1. IInv => OutageBuilds
  <2> SUFFICES ASSUME IInv, Harvested(mods), BuiltIn(Endpoints).end = "built", NEW up \in Weathers
               PROVE  Withstands(BuiltIn(up), BuiltIn(Endpoints), up)
    BY BuildsCompared
  <2> DEFINE E(w) == [d \in Range(mods) |-> [sha |-> ResolveMod(Db, d, cached, w), on |-> d.on, requires |-> d.requires]]
             A(w) == [a \in DOMAIN assets |-> ResolveAsset(assets[a], w)]
             Row1(f) == CHOOSE d \in Range(mods) : d.file = f
             F(w) == [f \in {d.file : d \in Range(mods)} |-> E(w)[Row1(f)]]
             class == ClassifyPack(Db, ConfigOf(mods))
             D(w) == DeriveRequired(F(w), class)
             Short(w) == (\E d \in Range(mods) : E(w)[d].sha = None) \/ (\E a \in DOMAIN A(w) : A(w)[a] = None)
  <2>1. \A w : BuiltIn(w) = IF Short(w) THEN [end |-> "sources"] ELSE Derived(D(w), A(w))
    BY DEF BuiltIn, BuildManifest
  <2>2. \A f \in {d.file : d \in Range(mods)} : Row1(f) \in Range(mods) /\ Row1(f).file = f
    OBVIOUS
  <2>3. \A w : /\ DOMAIN F(w) = {d.file : d \in Range(mods)}
               /\ \A f \in DOMAIN F(w) : /\ F(w)[f].sha = ResolveMod(Db, Row1(f), cached, w)
                                          /\ F(w)[f].on = Row1(f).on /\ F(w)[f].requires = Row1(f).requires
    BY <2>2
  <2>4. ~Short(Endpoints)
    <3> HIDE DEF Short, D, A
    <3> QED
      BY <2>1
  <2>5. \A d \in Range(mods) :
           /\ ResolveMod(Db, d, cached, up) # None
           /\ Primary(d) => ResolveMod(Db, d, cached, up) = ResolveMod(Db, d, cached, Endpoints)
    <3>1. \A d \in Range(mods) : ResolveMod(Db, d, cached, Endpoints) # None
      BY <2>4
    <3> QED
      BY <3>1, SourceStands DEF Range
  <2>6. \/ \E a \in DOMAIN assets : A(up)[a] = None /\ "version" \notin up /\ a \in FromModrinth(assets)
        \/ A(up) = A(Endpoints) /\ \A a \in DOMAIN assets : A(up)[a] # None
    <3>1. \A a \in DOMAIN assets : A(Endpoints)[a] # None
      BY <2>4
    <3>2. ASSUME NEW a \in DOMAIN assets
          PROVE  \/ A(up)[a] = A(Endpoints)[a]
                 \/ A(up)[a] = None /\ "version" \notin up /\ a \in FromModrinth(assets)
      BY DEF ResolveAsset, FromModrinth, Endpoints
    <3> QED
      BY <3>1, <3>2
  <2>7. CASE \E a \in DOMAIN assets : A(up)[a] = None /\ "version" \notin up /\ a \in FromModrinth(assets)
    <3>1. Short(up)
      BY <2>7
    <3>2. BuiltIn(up) = [end |-> "sources"]
      BY <2>1, <3>1
    <3> QED
      BY <2>7, <3>2 DEF Withstands
  <2>8. CASE A(up) = A(Endpoints) /\ \A a \in DOMAIN assets : A(up)[a] # None
    <3>1. ~Short(up)
      BY <2>5, <2>8
    <3>2. /\ D(up).ok = D(Endpoints).ok
          /\ DOMAIN D(up).mods = DOMAIN F(up) /\ DOMAIN D(Endpoints).mods = DOMAIN F(up)
          /\ \A f \in DOMAIN F(up) :
                /\ D(up).mods[f].required = D(Endpoints).mods[f].required
                /\ D(up).mods[f].on = D(Endpoints).mods[f].on
                /\ D(up).mods[f].sha = F(up)[f].sha /\ D(Endpoints).mods[f].sha = F(Endpoints)[f].sha
      <4> HIDE DEF F, class, Row1
      <4>1. /\ DOMAIN F(up) = DOMAIN F(Endpoints)
            /\ \A f \in DOMAIN F(up) : F(up)[f].on = F(Endpoints)[f].on /\ F(up)[f].requires = F(Endpoints)[f].requires
        BY <2>3
      <4> DEFINE e == F(up)
                 g == F(Endpoints)
      <4>2. DOMAIN e = DOMAIN g /\ \A f \in DOMAIN e : e[f].on = g[f].on /\ e[f].requires = g[f].requires
        BY <4>1
      <4> HIDE DEF e, g
      <4>3. /\ DeriveRequired(e, class).ok = DeriveRequired(g, class).ok
            /\ DOMAIN DeriveRequired(e, class).mods = DOMAIN e /\ DOMAIN DeriveRequired(g, class).mods = DOMAIN e
            /\ \A f \in DOMAIN e :
                  /\ DeriveRequired(e, class).mods[f].required = DeriveRequired(g, class).mods[f].required
                  /\ DeriveRequired(e, class).mods[f].on = DeriveRequired(g, class).mods[f].on
                  /\ DeriveRequired(e, class).mods[f].sha = e[f].sha
                  /\ DeriveRequired(g, class).mods[f].sha = g[f].sha
        BY <4>2, DerivedAlike
      <4> QED
        BY <4>3 DEF e, g
    <3>3. BuiltIn(up) = Derived(D(up), A(up)) /\ BuiltIn(Endpoints) = Derived(D(Endpoints), A(Endpoints))
      <4> HIDE DEF Short, D, A
      <4> QED
        BY <2>1, <2>4, <3>1
    <3> HIDE DEF D, A
    <3>4. D(Endpoints).ok
      BY <3>3 DEF Derived
    <3>5. /\ BuiltIn(up).end = "built" /\ BuiltIn(up).mods = D(up).mods /\ BuiltIn(up).assets = A(up)
          /\ BuiltIn(Endpoints).mods = D(Endpoints).mods /\ BuiltIn(Endpoints).assets = A(Endpoints)
      BY <3>2, <3>3, <3>4 DEF Derived
    <3>6. ASSUME NEW f \in DOMAIN F(up), \A i \in DOMAIN mods : mods[i].file = f => Primary(mods[i])
          PROVE  F(up)[f].sha = F(Endpoints)[f].sha
      <4>1. Row1(f) \in Range(mods) /\ Row1(f).file = f
        BY <2>2, <2>3
      <4>2. Primary(Row1(f))
        BY <3>6, <4>1 DEF Range
      <4>3. f \in DOMAIN F(Endpoints)
        BY <2>3
      <4> HIDE DEF F, Row1
      <4> QED
        BY <2>3, <2>5, <4>1, <4>2, <4>3
    <3> HIDE DEF F
    <3> QED
      BY <2>8, <3>2, <3>5, <3>6 DEF Withstands
  <2> QED
    BY <2>6, <2>7, <2>8
<1> QED
  BY Invariance, <1>1, PTL
=============================================================================
