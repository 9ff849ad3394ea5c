--------------------------- MODULE PackDiffsProofs ---------------------------
(***************************************************************************)
(* What the diffs tell, for any configs, rows, keys and libraries: the     *)
(* diff of two configs against what a person wrote, the count beside it    *)
(* against the gate, and the diff of two builds against what a launcher    *)
(* has to do.                                                              *)
(***************************************************************************)
EXTENDS PackDiffs, FiniteSetTheorems, TLAPS

-----------------------------------------------------------------------------
(* Places in a list *)

\* The places of a finite set of positions are the numbers up to its size, one
\* for each.
LEMMA Places ==
    ASSUME NEW S, IsFiniteSet(S), S \subseteq Nat
    PROVE  /\ \A i \in S : Place(S, i) \in 1..Cardinality(S)
           /\ \A i, j \in S : Place(S, i) = Place(S, j) => i = j
           /\ \A n \in 1..Cardinality(S) : \E i \in S : Place(S, i) = n
<1> DEFINE upTo(i) == {j \in S : j <= i}
<1>0. Cardinality(S) \in Nat
  BY FS_CardinalityType
<1>1. ASSUME NEW i \in S PROVE IsFiniteSet(upTo(i)) /\ Place(S, i) \in 1..Cardinality(S)
  <2>1. upTo(i) \in SUBSET S
    OBVIOUS
  <2>2. IsFiniteSet(upTo(i)) /\ Cardinality(upTo(i)) <= Cardinality(S)
    BY <2>1, FS_Subset
  <2>3. upTo(i) # {}
    BY <1>1
  <2>4. Cardinality(upTo(i)) \in Nat /\ Cardinality(upTo(i)) # 0
    BY <2>2, <2>3, FS_CardinalityType, FS_EmptySet
  <2> QED
    BY <1>0, <2>2, <2>4 DEF Place
<1>2. ASSUME NEW i \in S, NEW j \in S, i < j PROVE Place(S, i) # Place(S, j)
  <2>0. i \in Nat /\ j \in Nat
    OBVIOUS
  <2>1. upTo(i) \in SUBSET upTo(j)
    <3> SUFFICES ASSUME NEW k \in S, k <= i PROVE k <= j
      OBVIOUS
    <3>1. k \in Nat
      OBVIOUS
    <3> QED
      BY <1>2, <2>0, <3>1
  <2>2. j \in upTo(j) /\ j \notin upTo(i)
    BY <1>2, <2>0
  <2> QED
    BY <1>1, <2>1, <2>2, FS_Subset DEF Place
<1>3. \A i, j \in S : Place(S, i) = Place(S, j) => i = j
  BY <1>2
<1> DEFINE f == [i \in S |-> Place(S, i)]
<1>4. f \in Injection(S, 1..Cardinality(S))
  BY <1>1, <1>3 DEF Injection, IsInjective
<1>5. IsFiniteSet(1..Cardinality(S)) /\ Cardinality(1..Cardinality(S)) = Cardinality(S)
  BY <1>0, FS_Interval
<1>6. f \in Surjection(S, 1..Cardinality(S))
  BY <1>4, <1>5, FS_Injection
<1>7. \A n \in 1..Cardinality(S) : \E i \in S : Place(S, i) = n
  BY <1>6 DEF Surjection
<1> QED
  BY <1>1, <1>3, <1>7

\* Nth is what it is named for.
LEMMA NthOf ==
    ASSUME NEW S, IsFiniteSet(S), S \subseteq Nat, NEW n \in 1..Cardinality(S)
    PROVE  Nth(S, n) \in S /\ Place(S, Nth(S, n)) = n
<1>1. \E i \in S : Place(S, i) = n
  BY Places
<1> QED
  BY <1>1 DEF Nth

-----------------------------------------------------------------------------
(* The rows a person wrote *)

\* The authored rows of a config are its rows, each at most once.
LEMMA AuthoredRowsOf ==
    ASSUME NEW cfg, cfg.mods \in Seq(ModDecls)
    PROVE  /\ AuthoredRows(cfg) \in Seq(ModDecls)
           /\ \E at \in [DOMAIN AuthoredRows(cfg) -> DOMAIN cfg.mods] :
                \A m, n \in DOMAIN AuthoredRows(cfg) :
                    AuthoredRows(cfg)[n] = cfg.mods[at[n]] /\ (at[m] = at[n] => m = n)
           /\ \A n \in DOMAIN AuthoredRows(cfg) : ~AuthoredRows(cfg)[n].pulled
<1> DEFINE own == {i \in DOMAIN cfg.mods : ~cfg.mods[i].pulled}
           N == Cardinality(own)
           at == [n \in 1..N |-> Nth(own, n)]
<1>1. DOMAIN cfg.mods = 1..Len(cfg.mods) /\ Len(cfg.mods) \in Nat
  OBVIOUS
<1>2. IsFiniteSet(own) /\ own \subseteq Nat /\ N \in Nat
  <2>1. own \in SUBSET (1..Len(cfg.mods))
    BY <1>1
  <2>2. IsFiniteSet(1..Len(cfg.mods))
    BY <1>1, FS_Interval
  <2> QED
    BY <1>1, <2>1, <2>2, FS_Subset, FS_CardinalityType
<1>3. ASSUME NEW n \in 1..N PROVE Nth(own, n) \in own /\ Place(own, Nth(own, n)) = n
  BY <1>2, <1>3, NthOf
<1>4. AuthoredRows(cfg) = [n \in 1..N |-> cfg.mods[Nth(own, n)]]
  BY DEF AuthoredRows
<1>a. \A i \in own : ~cfg.mods[i].pulled
  OBVIOUS
<1> HIDE DEF own, N
<1>5. own \subseteq DOMAIN cfg.mods
  BY DEF own
<1>6. \A n \in 1..N : cfg.mods[Nth(own, n)] \in ModDecls
  BY <1>3, <1>5
<1>7. AuthoredRows(cfg) \in Seq(ModDecls) /\ DOMAIN AuthoredRows(cfg) = 1..N
  BY <1>2, <1>4, <1>6
<1>8. at \in [1..N -> DOMAIN cfg.mods]
  BY <1>3, <1>5
<1>9. \A m, n \in 1..N : AuthoredRows(cfg)[n] = cfg.mods[at[n]] /\ (at[m] = at[n] => m = n)
  BY <1>3, <1>4
<1> HIDE DEF at
<1>10. /\ at \in [DOMAIN AuthoredRows(cfg) -> DOMAIN cfg.mods]
       /\ \A m, n \in DOMAIN AuthoredRows(cfg) : AuthoredRows(cfg)[n] = cfg.mods[at[n]] /\ (at[m] = at[n] => m = n)
  BY <1>7, <1>8, <1>9
<1>11. \A n \in DOMAIN AuthoredRows(cfg) : ~AuthoredRows(cfg)[n].pulled
  BY <1>3, <1>4, <1>a
<1> QED
  BY <1>7, <1>10, <1>11

\* No two authored rows have one file name.
LEMMA FilesApart ==
    ASSUME NEW cfg, cfg.mods \in Seq(ModDecls), Distinct(cfg)
    PROVE  \A i, j \in DOMAIN AuthoredRows(cfg) : AuthoredRows(cfg)[i].file = AuthoredRows(cfg)[j].file => i = j
<1> DEFINE rows == AuthoredRows(cfg)
<1>1. PICK at \in [DOMAIN rows -> DOMAIN cfg.mods] :
        \A m, n \in DOMAIN rows : rows[n] = cfg.mods[at[n]] /\ (at[m] = at[n] => m = n)
  BY AuthoredRowsOf
<1> HIDE DEF rows
<1> QED
  BY <1>1 DEF Distinct, rows

\* A row's key is no other row's.
LEMMA KeysApart ==
    ASSUME NEW rows \in Seq(ModDecls),
           \A i, j \in DOMAIN rows : rows[i].file = rows[j].file => i = j
    PROVE  \A i, j \in DOMAIN rows : KeyAt(rows, i) = KeyAt(rows, j) => i = j
<1>1. ASSUME NEW i \in DOMAIN rows, NEW j \in DOMAIN rows, i < j PROVE KeyAt(rows, i) # KeyAt(rows, j)
  <2>1. i \in 1..(j - 1) /\ rows[i].file # rows[j].file
    BY <1>1
  <2>2. ASSUME NEW a \in DOMAIN rows, NEW b \in DOMAIN rows, rows[a].file # rows[b].file
        PROVE  <<"f", rows[a].file>> # Identity(rows[b]) /\ <<"f", rows[a].file>> # <<"f", rows[b].file>>
    BY <2>2 DEF Identity
  <2>3. Identity(rows[i]) # Identity(rows[j]) \/ KeyAt(rows, j) = <<"f", rows[j].file>>
    BY <2>1 DEF KeyAt
  <2>4. \A a \in {i, j} : KeyAt(rows, a) \in {Identity(rows[a]), <<"f", rows[a].file>>}
    BY DEF KeyAt
  <2> QED
    BY <2>1, <2>2, <2>3, <2>4
<1> QED
  BY <1>1

\* The numbers up to n are n numbers.
LEMMA UpToSize == \A n \in Nat : IsFiniteSet(1..n) /\ Cardinality(1..n) = n
<1> SUFFICES ASSUME NEW n \in Nat PROVE IsFiniteSet(1..n) /\ Cardinality(1..n) = n
  OBVIOUS
<1>1. IsFiniteSet(1..n) /\ Cardinality(1..n) = IF 1 > n THEN 0 ELSE n - 1 + 1
  BY FS_Interval
<1> QED
  BY <1>1

\* What a one-to-one map makes of a finite set is as large.
LEMMA ImageSize ==
    ASSUME NEW S, IsFiniteSet(S), NEW f, DOMAIN f = S, \A x, y \in S : f[x] = f[y] => x = y
    PROVE  LET T == {f[x] : x \in S} IN IsFiniteSet(T) /\ Cardinality(T) = Cardinality(S)
<1> DEFINE T == {f[x] : x \in S}
           g == [x \in S |-> f[x]]
<1>1. g \in Bijection(S, T)
  BY DEF Bijection, Injection, Surjection, IsInjective
<1> HIDE DEF g, T
<1>2. ExistsBijection(S, T)
  BY <1>1 DEF ExistsBijection
<1>3. IsFiniteSet(T) /\ Cardinality(T) = Cardinality(S)
  BY <1>2, FS_Bijection
<1> QED
  BY <1>3 DEF T

-----------------------------------------------------------------------------
(* Rows by their keys *)

\* The rows of one config by their keys.
Keyed(map) == IsFiniteSet(DOMAIN map) /\ DOMAIN map \subseteq Range(Keys)

\* authored_mods loses no row and makes none up: one key for each, and the row
\* under it.
LEMMA KeyedMods ==
    ASSUME NEW cfg, cfg.mods \in Seq(ModDecls), Distinct(cfg)
    PROVE  LET rows == AuthoredRows(cfg)
               map == AuthoredMods(cfg)
           IN  /\ Keyed(map)
               /\ DOMAIN map = {KeyAt(rows, i) : i \in DOMAIN rows}
               /\ \A i \in DOMAIN rows : map[KeyAt(rows, i)] = rows[i]
               /\ \A k \in DOMAIN map : map[k] \in ModDecls /\ ~map[k].pulled
               /\ \A j, k \in DOMAIN map : map[j].file = map[k].file => j = k
               /\ Cardinality(DOMAIN map) = Len(rows)
<1> DEFINE rows == AuthoredRows(cfg)
           map == AuthoredMods(cfg)
<1>1. rows \in Seq(ModDecls)
  BY AuthoredRowsOf
<1>2. \A i, j \in DOMAIN rows : rows[i].file = rows[j].file => i = j
  BY FilesApart
<1>3. map = [k \in {KeyAt(rows, i) : i \in DOMAIN rows} |-> rows[CHOOSE i \in DOMAIN rows : KeyAt(rows, i) = k]]
  BY DEF AuthoredMods
<1> HIDE DEF rows, map
<1>4. \A i, j \in DOMAIN rows : KeyAt(rows, i) = KeyAt(rows, j) => i = j
  BY <1>1, <1>2, KeysApart
<1>5. DOMAIN map = {KeyAt(rows, i) : i \in DOMAIN rows}
  BY <1>3
<1>6. ASSUME NEW i \in DOMAIN rows PROVE map[KeyAt(rows, i)] = rows[i]
  <2>1. (CHOOSE j \in DOMAIN rows : KeyAt(rows, j) = KeyAt(rows, i)) = i
    BY <1>4
  <2> QED
    BY <1>3, <2>1
<1>7. \A k \in DOMAIN map : map[k] \in ModDecls /\ ~map[k].pulled
  <2>1. \A i \in DOMAIN rows : ~rows[i].pulled
    BY AuthoredRowsOf DEF rows
  <2> QED
    BY <1>1, <1>5, <1>6, <2>1
<1>8. \A j, k \in DOMAIN map : map[j].file = map[k].file => j = k
  BY <1>2, <1>5, <1>6
<1>9. IsFiniteSet(DOMAIN map) /\ Cardinality(DOMAIN map) = Len(rows)
  <2> DEFINE keys == [i \in DOMAIN rows |-> KeyAt(rows, i)]
  <2>1. DOMAIN rows = 1..Len(rows) /\ Len(rows) \in Nat
    BY <1>1
  <2>2. IsFiniteSet(DOMAIN rows) /\ Cardinality(DOMAIN rows) = Len(rows)
    BY <2>1, UpToSize
  <2>3. DOMAIN keys = DOMAIN rows /\ \A i, j \in DOMAIN rows : keys[i] = keys[j] => i = j
    BY <1>4
  <2>4. DOMAIN map = {keys[i] : i \in DOMAIN rows}
    BY <1>5
  <2> HIDE DEF keys
  <2> QED
    BY <2>2, <2>3, <2>4, ImageSize
<1>10. DOMAIN map \subseteq Range(Keys)
  <2> SUFFICES ASSUME NEW i \in DOMAIN rows PROVE KeyAt(rows, i) \in Range(Keys)
    BY <1>5
  <2>1. rows[i] \in ModDecls
    BY <1>1
  <2>2. rows[i].file \in Files /\ rows[i].slug \in Slugs \cup {None, Blank} /\ rows[i].source \in Sources
    BY <2>1 DEF ModDecls
  <2>3. rows[i].source[1] = "modrinth" => rows[i].source[2] \in Projects
    BY <2>2, SourcesAssumption
  <2>4. KeyAt(rows, i) \in ({"f"} \X Files) \cup ({"s"} \X Slugs) \cup ({"m"} \X Projects)
    BY <2>2, <2>3 DEF KeyAt, Identity
  <2> QED
    BY <2>4, KeysAssumption
<1> QED
  BY <1>5, <1>6, <1>7, <1>8, <1>9, <1>10 DEF rows, map, Keyed

\* An asset's key is the path it is installed to.
LEMMA KeyedAssets ==
    ASSUME NEW cfg, cfg.assets \in SUBSET Assets, IsFiniteSet(cfg.assets), Distinct(cfg)
    PROVE  LET map == AuthoredAssets(cfg)
           IN  /\ Keyed(map)
               /\ DOMAIN map = {<<"a", a.dest>> : a \in cfg.assets}
               /\ \A a \in cfg.assets : map[<<"a", a.dest>>] = a
               /\ \A k \in DOMAIN map : map[k] \in cfg.assets /\ k = <<"a", map[k].dest>>
               /\ Cardinality(DOMAIN map) = Cardinality(cfg.assets)
<1> DEFINE map == AuthoredAssets(cfg)
           key == [a \in cfg.assets |-> <<"a", a.dest>>]
<1>1. map = [k \in {<<"a", a.dest>> : a \in cfg.assets} |-> CHOOSE a \in cfg.assets : a.dest = k[2]]
  BY DEF AuthoredAssets
<1> HIDE DEF map
<1>2. DOMAIN map = {<<"a", a.dest>> : a \in cfg.assets}
  BY <1>1
<1>3. ASSUME NEW a \in cfg.assets PROVE map[<<"a", a.dest>>] = a
  <2>1. \A b \in cfg.assets : b.dest = a.dest => b = a
    BY DEF Distinct
  <2>2. (CHOOSE b \in cfg.assets : b.dest = <<"a", a.dest>>[2]) = a
    BY <2>1
  <2> QED
    BY <1>1, <2>2
<1>4. \A k \in DOMAIN map : map[k] \in cfg.assets /\ k = <<"a", map[k].dest>>
  BY <1>2, <1>3
<1>5. DOMAIN key = cfg.assets /\ \A a, b \in cfg.assets : key[a] = key[b] => a = b
  BY DEF Distinct
<1>6. DOMAIN map = {key[a] : a \in cfg.assets}
  BY <1>2
<1>7. DOMAIN map \subseteq Range(Keys)
  <2> SUFFICES ASSUME NEW a \in cfg.assets PROVE <<"a", a.dest>> \in Range(Keys)
    BY <1>2
  <2>1. a \in AssetDecls
    BY RowsAssumption
  <2>2. a.dest \in Dests
    BY <2>1 DEF AssetDecls
  <2> QED
    BY <2>2, KeysAssumption
<1> HIDE DEF key
<1>8. IsFiniteSet(DOMAIN map) /\ Cardinality(DOMAIN map) = Cardinality(cfg.assets)
  BY <1>5, <1>6, ImageSize
<1> QED
  BY <1>2, <1>3, <1>4, <1>7, <1>8 DEF map, Keyed

-----------------------------------------------------------------------------
(* Pairing what no key carries over *)

\* The positions of what is left over are finitely many, one for each key.
LEMMA UnmatchedKeys ==
    ASSUME NEW rows, NEW others, Keyed(rows)
    PROVE  /\ Unmatched(rows, others) \subseteq Nat
           /\ IsFiniteSet(Unmatched(rows, others))
           /\ \A i, j \in Unmatched(rows, others) : Keys[i] = Keys[j] => i = j
           /\ {Keys[i] : i \in Unmatched(rows, others)} = DOMAIN rows \ DOMAIN others
           /\ \A pin : /\ IsFiniteSet(Pointing(rows, others, pin))
                       /\ Pointing(rows, others, pin) \subseteq Nat
<1>1. DOMAIN Keys = 1..Len(Keys) /\ Len(Keys) \in Nat
  BY KeysAssumption
<1>2. Unmatched(rows, others) \in SUBSET (1..Len(Keys)) /\ IsFiniteSet(1..Len(Keys))
  BY <1>1, UpToSize DEF Unmatched
<1>3. Unmatched(rows, others) \subseteq Nat /\ IsFiniteSet(Unmatched(rows, others))
  BY <1>1, <1>2, FS_Subset
<1>4. \A i, j \in Unmatched(rows, others) : Keys[i] = Keys[j] => i = j
  BY KeysAssumption DEF Unmatched
<1>5. {Keys[i] : i \in Unmatched(rows, others)} = DOMAIN rows \ DOMAIN others
  <2>1. \A k \in DOMAIN rows : \E i \in DOMAIN Keys : Keys[i] = k
    BY DEF Keyed, Range
  <2> QED
    BY <2>1 DEF Unmatched
<1>6. \A pin : Pointing(rows, others, pin) \in SUBSET Unmatched(rows, others)
  BY DEF Pointing
<1> QED
  BY <1>3, <1>4, <1>5, <1>6, FS_Subset

\* Pairing is one to one, joins rows that point at one thing, and leaves no two
\* such rows over.
LEMMA PairsMatch ==
    ASSUME NEW was, NEW now, Keyed(was), Keyed(now)
    PROVE  /\ Pairs(was, now) \subseteq Unmatched(was, now) \X Unmatched(now, was)
           /\ \A p, q \in Pairs(was, now) : p[1] = q[1] <=> p[2] = q[2]
           /\ \A k \in Departed(was, now, Pairs(was, now)), n \in Arrived(was, now, Pairs(was, now)) :
                 Pin(was[k].source) # Pin(now[n].source)
<1> DEFINE A(x) == Pointing(was, now, x)
           B(x) == Pointing(now, was, x)
           P == Pairs(was, now)
<1>1. ASSUME NEW x
      PROVE  /\ IsFiniteSet(A(x)) /\ A(x) \subseteq Nat /\ IsFiniteSet(B(x)) /\ B(x) \subseteq Nat
             /\ Cardinality(A(x)) \in Nat /\ Cardinality(B(x)) \in Nat
  <2>1. IsFiniteSet(A(x)) /\ A(x) \subseteq Nat /\ IsFiniteSet(B(x)) /\ B(x) \subseteq Nat
    BY UnmatchedKeys
  <2> QED
    BY <2>1, FS_CardinalityType
<1>2. ASSUME NEW p \in P
      PROVE  LET x == Pin(was[Keys[p[1]]].source)
             IN  /\ p[1] \in A(x) /\ p[2] \in B(x) /\ Pin(now[Keys[p[2]]].source) = x
                 /\ Place(A(x), p[1]) = Place(B(x), p[2])
  BY <1>2 DEF Pairs, Pointing
<1>3. ASSUME NEW x, NEW i \in A(x), NEW n \in B(x), Place(A(x), i) = Place(B(x), n)
      PROVE  <<i, n>> \in P
  BY <1>3 DEF Pairs, Pointing
<1>4. P \subseteq Unmatched(was, now) \X Unmatched(now, was)
  BY DEF Pairs
<1> HIDE DEF A, B, P
<1>5. ASSUME NEW p \in P, NEW q \in P PROVE p[1] = q[1] <=> p[2] = q[2]
  <2> DEFINE x == Pin(was[Keys[p[1]]].source)
             y == Pin(was[Keys[q[1]]].source)
  <2>1. /\ p[1] \in A(x) /\ p[2] \in B(x) /\ Place(A(x), p[1]) = Place(B(x), p[2])
        /\ Pin(now[Keys[p[2]]].source) = x
    BY <1>2
  <2>2. /\ q[1] \in A(y) /\ q[2] \in B(y) /\ Place(A(y), q[1]) = Place(B(y), q[2])
        /\ Pin(now[Keys[q[2]]].source) = y
    BY <1>2
  <2>3. p[1] = q[1] => x = y
    OBVIOUS
  <2>4. p[2] = q[2] => x = y
    BY <2>1, <2>2
  <2> HIDE DEF x, y
  <2>5. \A i, j \in A(x) : Place(A(x), i) = Place(A(x), j) => i = j
    BY <1>1, Places
  <2>6. \A i, j \in B(x) : Place(B(x), i) = Place(B(x), j) => i = j
    BY <1>1, Places
  <2> QED
    BY <2>1, <2>2, <2>3, <2>4, <2>5, <2>6
<1>6. ASSUME NEW k \in Departed(was, now, P), NEW m \in Arrived(was, now, P)
      PROVE  Pin(was[k].source) # Pin(now[m].source)
  <2>1. PICK i \in Unmatched(was, now) : Keys[i] = k /\ \A p \in P : p[1] # i
    BY DEF Departed
  <2>2. PICK n \in Unmatched(now, was) : Keys[n] = m /\ \A p \in P : p[2] # n
    BY DEF Arrived
  <2> SUFFICES ASSUME Pin(was[k].source) = Pin(now[m].source) PROVE FALSE
    OBVIOUS
  <2> DEFINE x == Pin(was[k].source)
  <2>3. i \in A(x) /\ n \in B(x)
    BY <2>1, <2>2 DEF Pointing, A, B
  <2> HIDE DEF x
  <2>4. Place(A(x), i) \in 1..Cardinality(A(x)) /\ Place(B(x), n) \in 1..Cardinality(B(x))
    BY <1>1, <2>3, Places
  <2>5. CASE Place(A(x), i) <= Place(B(x), n)
    <3>1. Place(A(x), i) \in 1..Cardinality(B(x))
      BY <1>1, <2>4, <2>5
    <3>2. PICK j \in B(x) : Place(B(x), j) = Place(A(x), i)
      BY <1>1, <3>1, Places
    <3>3. <<i, j>> \in P
      BY <1>3, <2>3, <3>2
    <3> QED
      BY <2>1, <3>3
  <2>6. CASE Place(B(x), n) <= Place(A(x), i)
    <3>1. Place(B(x), n) \in 1..Cardinality(A(x))
      BY <1>1, <2>4, <2>6
    <3>2. PICK j \in A(x) : Place(A(x), j) = Place(B(x), n)
      BY <1>1, <3>1, Places
    <3>3. <<j, n>> \in P
      BY <1>3, <2>3, <3>2
    <3> QED
      BY <2>2, <3>3
  <2> QED
    BY <1>1, <2>4, <2>5, <2>6
<1> QED
  BY <1>4, <1>5, <1>6 DEF P

\* Departures and arrivals add up to what the two configs hold.
LEMMA PairsCount ==
    ASSUME NEW was, NEW now, Keyed(was), Keyed(now)
    PROVE  LET gone == Departed(was, now, Pairs(was, now))
               new == Arrived(was, now, Pairs(was, now))
           IN  /\ IsFiniteSet(gone) /\ IsFiniteSet(new)
               /\ gone \subseteq DOMAIN was \ DOMAIN now /\ new \subseteq DOMAIN now \ DOMAIN was
               /\ Cardinality(gone) + Cardinality(DOMAIN now) = Cardinality(new) + Cardinality(DOMAIN was)
<1> DEFINE P == Pairs(was, now)
           U == Unmatched(was, now)
           V == Unmatched(now, was)
           F == {p[1] : p \in P}
           G == {p[2] : p \in P}
<1>1. /\ U \subseteq Nat /\ IsFiniteSet(U) /\ {Keys[i] : i \in U} = DOMAIN was \ DOMAIN now
      /\ \A i, j \in U : Keys[i] = Keys[j] => i = j
  BY UnmatchedKeys
<1>2. /\ V \subseteq Nat /\ IsFiniteSet(V) /\ {Keys[i] : i \in V} = DOMAIN now \ DOMAIN was
      /\ \A i, j \in V : Keys[i] = Keys[j] => i = j
  BY UnmatchedKeys
<1>3. P \subseteq U \X V /\ \A p, q \in P : p[1] = q[1] <=> p[2] = q[2]
  BY PairsMatch
<1>4. Departed(was, now, P) = {Keys[i] : i \in U \ F} /\ Arrived(was, now, P) = {Keys[i] : i \in V \ G}
  BY DEF Departed, Arrived
<1> HIDE DEF P, U, V
<1>5. F \in SUBSET U /\ G \in SUBSET V
  BY <1>3
<1>6. IsFiniteSet(F) /\ IsFiniteSet(G)
  BY <1>1, <1>2, <1>5, FS_Subset
<1>7. Cardinality(F) = Cardinality(G)
  <2> DEFINE other == [i \in F |-> (CHOOSE p \in P : p[1] = i)[2]]
  <2>1. ASSUME NEW p \in P PROVE other[p[1]] = p[2]
    <3> DEFINE q == CHOOSE q \in P : q[1] = p[1]
    <3>1. q \in P /\ q[1] = p[1]
      OBVIOUS
    <3>2. q[2] = p[2]
      BY <1>3, <3>1
    <3> QED
      BY <3>2
  <2> HIDE DEF other
  <2>2. G = {other[i] : i \in F}
    BY <2>1
  <2>3. \A i, j \in F : other[i] = other[j] => i = j
    BY <1>3, <2>1
  <2>4. DOMAIN other = F
    BY DEF other
  <2> HIDE DEF F, G
  <2> QED
    BY <1>6, <2>2, <2>3, <2>4, ImageSize
<1> HIDE DEF F, G
<1>8. ASSUME NEW S, IsFiniteSet(S), \A i, j \in S : Keys[i] = Keys[j] => i = j
      PROVE  IsFiniteSet({Keys[i] : i \in S}) /\ Cardinality({Keys[i] : i \in S}) = Cardinality(S)
  <2> DEFINE g == [i \in S |-> Keys[i]]
  <2>1. DOMAIN g = S /\ (\A i, j \in S : g[i] = g[j] => i = j) /\ {Keys[i] : i \in S} = {g[i] : i \in S}
    BY <1>8
  <2> HIDE DEF g
  <2>2. IsFiniteSet({g[i] : i \in S}) /\ Cardinality({g[i] : i \in S}) = Cardinality(S)
    BY <1>8, <2>1, ImageSize
  <2> QED
    BY <2>1, <2>2
<1>9. /\ IsFiniteSet(U \ F) /\ Cardinality(U \ F) = Cardinality(U) - Cardinality(F)
      /\ IsFiniteSet(V \ G) /\ Cardinality(V \ G) = Cardinality(V) - Cardinality(G)
  <2>1. U \cap F = F /\ V \cap G = G
    BY <1>5
  <2>2. IsFiniteSet(U \ F) /\ Cardinality(U \ F) = Cardinality(U) - Cardinality(U \cap F)
    BY <1>1, FS_Difference
  <2>3. IsFiniteSet(V \ G) /\ Cardinality(V \ G) = Cardinality(V) - Cardinality(V \cap G)
    BY <1>2, FS_Difference
  <2> QED
    BY <2>1, <2>2, <2>3
<1>10. /\ Cardinality(DOMAIN was \ DOMAIN now) = Cardinality(U)
       /\ Cardinality(DOMAIN now \ DOMAIN was) = Cardinality(V)
  BY <1>1, <1>2, <1>8
<1>11. /\ IsFiniteSet(Departed(was, now, P)) /\ Cardinality(Departed(was, now, P)) = Cardinality(U \ F)
       /\ IsFiniteSet(Arrived(was, now, P)) /\ Cardinality(Arrived(was, now, P)) = Cardinality(V \ G)
  <2>1. \A i, j \in U \ F : Keys[i] = Keys[j] => i = j
    BY <1>1
  <2>2. \A i, j \in V \ G : Keys[i] = Keys[j] => i = j
    BY <1>2
  <2>3. IsFiniteSet({Keys[i] : i \in U \ F}) /\ Cardinality({Keys[i] : i \in U \ F}) = Cardinality(U \ F)
    BY <1>8, <1>9, <2>1
  <2>4. IsFiniteSet({Keys[i] : i \in V \ G}) /\ Cardinality({Keys[i] : i \in V \ G}) = Cardinality(V \ G)
    BY <1>8, <1>9, <2>2
  <2> QED
    BY <1>4, <2>3, <2>4
<1>12. /\ Cardinality(DOMAIN was \ DOMAIN now) = Cardinality(DOMAIN was) - Cardinality(DOMAIN was \cap DOMAIN now)
       /\ Cardinality(DOMAIN now \ DOMAIN was) = Cardinality(DOMAIN now) - Cardinality(DOMAIN was \cap DOMAIN now)
  <2>1. DOMAIN now \cap DOMAIN was = DOMAIN was \cap DOMAIN now
    OBVIOUS
  <2> QED
    BY <2>1, FS_Difference DEF Keyed
<1>13. /\ Cardinality(U) \in Nat /\ Cardinality(V) \in Nat /\ Cardinality(F) \in Nat
       /\ Cardinality(DOMAIN was) \in Nat /\ Cardinality(DOMAIN now) \in Nat
       /\ Cardinality(DOMAIN was \cap DOMAIN now) \in Nat
  <2>1. IsFiniteSet(DOMAIN was \cap DOMAIN now)
    BY FS_Intersection DEF Keyed
  <2> QED
    BY <1>1, <1>2, <1>6, <2>1, FS_CardinalityType DEF Keyed
<1>14. Departed(was, now, P) \subseteq DOMAIN was \ DOMAIN now /\ Arrived(was, now, P) \subseteq DOMAIN now \ DOMAIN was
  BY <1>1, <1>2, <1>4
<1>15. Cardinality(Departed(was, now, P)) + Cardinality(DOMAIN now)
          = Cardinality(Arrived(was, now, P)) + Cardinality(DOMAIN was)
  BY <1>7, <1>9, <1>10, <1>11, <1>12, <1>13
<1> QED
  BY <1>11, <1>14, <1>15 DEF P

-----------------------------------------------------------------------------
(* A list of changes, of rows of any kind *)

\* What a function makes of a finite set is finite.
LEMMA ImageFinite ==
    ASSUME NEW f, IsFiniteSet(DOMAIN f)
    PROVE  IsFiniteSet({f[x] : x \in DOMAIN f})
<1> DEFINE T == {f[x] : x \in DOMAIN f}
           g == [x \in DOMAIN f |-> f[x]]
<1>1. g \in Surjection(DOMAIN f, T)
  BY DEF Surjection
<1> HIDE DEF g
<1>2. IsFiniteSet(T)
  BY <1>1, FS_Surjection
<1> QED
  BY <1>2

\* Two configs' rows by their keys, what a person sees of each, the changes a
\* row of one makes as a row of the other, and the entries of a departure and of
\* an arrival: what mod_rows and asset_rows have in common.
Rowwise(was, now, seenWas, seenNow, moved, departure, arrival) ==
    /\ Keyed(was) /\ Keyed(now)
    /\ DOMAIN seenWas = DOMAIN was /\ \A j, k \in DOMAIN was : seenWas[j] = seenWas[k] => j = k
    /\ DOMAIN seenNow = DOMAIN now /\ \A j, k \in DOMAIN now : seenNow[j] = seenNow[k] => j = k
    /\ \A j \in DOMAIN was, k \in DOMAIN now :
          /\ IsFiniteSet(moved[<<j, k>>])
          /\ moved[<<j, k>>] = {} <=> seenWas[j] = seenNow[k]
          /\ \A c \in moved[<<j, k>>] : c.op = "change" /\ c.label = arrival[k].label
    /\ DOMAIN departure = DOMAIN was /\ \A j, k \in DOMAIN was : departure[j] = departure[k] => j = k
    /\ \A j \in DOMAIN was : departure[j].op = "remove" /\ departure[j].from = Pin(was[j].source)
    /\ DOMAIN arrival = DOMAIN now /\ \A j, k \in DOMAIN now : arrival[j] = arrival[k] => j = k
    /\ \A k \in DOMAIN now : arrival[k].op = "add" /\ arrival[k].to = Pin(now[k].source)

Listed(was, now, moved, departure, arrival) ==
    (UNION {moved[<<k, k>>] : k \in DOMAIN was \cap DOMAIN now})
      \cup (UNION {moved[<<Keys[p[1]], Keys[p[2]]>>] : p \in Pairs(was, now)})
      \cup {departure[k] : k \in Departed(was, now, Pairs(was, now))}
      \cup {arrival[k] : k \in Arrived(was, now, Pairs(was, now))}

\* Every key of the new config is one of the old, has a partner in it, or arrived;
\* and the other way round.
LEMMA EveryKey ==
    ASSUME NEW was, NEW now, Keyed(was), Keyed(now)
    PROVE  /\ \A k \in DOMAIN now : \/ k \in DOMAIN was
                                    \/ \E p \in Pairs(was, now) : Keys[p[2]] = k
                                    \/ k \in Arrived(was, now, Pairs(was, now))
           /\ \A k \in DOMAIN was : \/ k \in DOMAIN now
                                    \/ \E p \in Pairs(was, now) : Keys[p[1]] = k
                                    \/ k \in Departed(was, now, Pairs(was, now))
           /\ \A p \in Pairs(was, now) : Keys[p[1]] \in DOMAIN was /\ Keys[p[2]] \in DOMAIN now
<1>1. /\ {Keys[i] : i \in Unmatched(was, now)} = DOMAIN was \ DOMAIN now
      /\ {Keys[i] : i \in Unmatched(now, was)} = DOMAIN now \ DOMAIN was
  BY UnmatchedKeys
<1>2. Pairs(was, now) \subseteq Unmatched(was, now) \X Unmatched(now, was)
  BY PairsMatch
<1> QED
  BY <1>1, <1>2 DEF Departed, Arrived

\* The list is finite, and is empty when the rows look the same under the same keys.
LEMMA ListedFinite ==
    ASSUME NEW was, NEW now, NEW seenWas, NEW seenNow, NEW moved, NEW departure, NEW arrival,
           Rowwise(was, now, seenWas, seenNow, moved, departure, arrival)
    PROVE  IsFiniteSet(Listed(was, now, moved, departure, arrival))
<1> DEFINE P == Pairs(was, now)
           common == DOMAIN was \cap DOMAIN now
           f == [k \in common |-> moved[<<k, k>>]]
           g == [p \in P |-> moved[<<Keys[p[1]], Keys[p[2]]>>]]
           r == [k \in Departed(was, now, P) |-> departure[k]]
           a == [k \in Arrived(was, now, P) |-> arrival[k]]
<1>0. Keyed(was) /\ Keyed(now)
  BY DEF Rowwise
<1>1. IsFiniteSet(common)
  BY <1>0, FS_Intersection DEF Keyed
<1>2. IsFiniteSet(P)
  <2>1. IsFiniteSet(Unmatched(was, now)) /\ IsFiniteSet(Unmatched(now, was))
    BY <1>0, UnmatchedKeys
  <2>2. IsFiniteSet(Unmatched(was, now) \X Unmatched(now, was))
    BY <2>1, FS_Product
  <2>3. P \in SUBSET (Unmatched(was, now) \X Unmatched(now, was))
    BY <1>0, PairsMatch
  <2> QED
    BY <2>2, <2>3, FS_Subset
<1>3. IsFiniteSet(Departed(was, now, P)) /\ IsFiniteSet(Arrived(was, now, P))
  BY <1>0, PairsCount
<1>4. IsFiniteSet(UNION {f[k] : k \in common})
  <2>1. DOMAIN f = common
    OBVIOUS
  <2>2. \A k \in common : IsFiniteSet(f[k])
    BY DEF Rowwise
  <2> HIDE DEF f, common
  <2>3. IsFiniteSet({f[k] : k \in common})
    BY <1>1, <2>1, ImageFinite
  <2>4. \A T \in {f[k] : k \in common} : IsFiniteSet(T)
    BY <2>2
  <2> QED
    BY <2>3, <2>4, FS_UNION
<1>5. IsFiniteSet(UNION {g[p] : p \in P})
  <2>1. DOMAIN g = P
    OBVIOUS
  <2>2. \A p \in P : IsFiniteSet(g[p])
    BY <1>0, EveryKey DEF Rowwise
  <2> HIDE DEF g, P
  <2>3. IsFiniteSet({g[p] : p \in P})
    BY <1>2, <2>1, ImageFinite
  <2>4. \A T \in {g[p] : p \in P} : IsFiniteSet(T)
    BY <2>2
  <2> QED
    BY <2>3, <2>4, FS_UNION
<1>6. IsFiniteSet({r[k] : k \in Departed(was, now, P)})
  <2>1. DOMAIN r = Departed(was, now, P)
    OBVIOUS
  <2> HIDE DEF r, P
  <2> QED
    BY <1>3, <2>1, ImageFinite
<1>7. IsFiniteSet({a[k] : k \in Arrived(was, now, P)})
  <2>1. DOMAIN a = Arrived(was, now, P)
    OBVIOUS
  <2> HIDE DEF a, P
  <2> QED
    BY <1>3, <2>1, ImageFinite
<1>8. Listed(was, now, moved, departure, arrival) =
        (((UNION {f[k] : k \in common}) \cup (UNION {g[p] : p \in P})) \cup {r[k] : k \in Departed(was, now, P)})
           \cup {a[k] : k \in Arrived(was, now, P)}
  <2>1. {f[k] : k \in common} = {moved[<<k, k>>] : k \in common}
    OBVIOUS
  <2>2. {g[p] : p \in P} = {moved[<<Keys[p[1]], Keys[p[2]]>>] : p \in P}
    OBVIOUS
  <2>3. {r[k] : k \in Departed(was, now, P)} = {departure[k] : k \in Departed(was, now, P)}
    OBVIOUS
  <2>4. {a[k] : k \in Arrived(was, now, P)} = {arrival[k] : k \in Arrived(was, now, P)}
    OBVIOUS
  <2> HIDE DEF f, g, r, a
  <2> QED
    BY <2>1, <2>2, <2>3, <2>4 DEF Listed
<1> HIDE DEF f, g, r, a, P, common
<1>9. IsFiniteSet((UNION {f[k] : k \in common}) \cup (UNION {g[p] : p \in P}))
  BY <1>4, <1>5, FS_Union
<1>10. IsFiniteSet(((UNION {f[k] : k \in common}) \cup (UNION {g[p] : p \in P})) \cup {r[k] : k \in Departed(was, now, P)})
  BY <1>6, <1>9, FS_Union
<1>11. IsFiniteSet((((UNION {f[k] : k \in common}) \cup (UNION {g[p] : p \in P})) \cup {r[k] : k \in Departed(was, now, P)})
                     \cup {a[k] : k \in Arrived(was, now, P)})
  BY <1>7, <1>10, FS_Union
<1> QED
  BY <1>8, <1>11

\* An empty list means the rows look the same; the same rows under the same keys
\* make an empty list.
LEMMA ListedEmpty ==
    ASSUME NEW was, NEW now, NEW seenWas, NEW seenNow, NEW moved, NEW departure, NEW arrival,
           Rowwise(was, now, seenWas, seenNow, moved, departure, arrival)
    PROVE  /\ Listed(was, now, moved, departure, arrival) = {} =>
                Range(seenWas) = Range(seenNow)
           /\ (DOMAIN was = DOMAIN now /\ \A k \in DOMAIN was : seenWas[k] = seenNow[k]) =>
                Listed(was, now, moved, departure, arrival) = {}
<1> DEFINE P == Pairs(was, now)
           D == Listed(was, now, moved, departure, arrival)
<1>0. Keyed(was) /\ Keyed(now)
  BY DEF Rowwise
<1>1. ASSUME D = {} PROVE Range(seenWas) = Range(seenNow)
  <2>1. Departed(was, now, P) = {} /\ Arrived(was, now, P) = {}
    BY <1>1 DEF Listed
  <2>a. \A j \in DOMAIN was, k \in DOMAIN now : moved[<<j, k>>] = {} => seenWas[j] = seenNow[k]
    BY DEF Rowwise
  <2>b. \A k \in DOMAIN was \cap DOMAIN now : moved[<<k, k>>] = {}
    BY <1>1 DEF Listed
  <2>2. \A k \in DOMAIN was \cap DOMAIN now : seenWas[k] = seenNow[k]
    BY <2>a, <2>b
  <2>3. \A p \in P : moved[<<Keys[p[1]], Keys[p[2]]>>] = {}
    BY <1>1 DEF Listed
  <2>4. \A p \in P : /\ Keys[p[1]] \in DOMAIN was /\ Keys[p[2]] \in DOMAIN now
                     /\ seenWas[Keys[p[1]]] = seenNow[Keys[p[2]]]
    <3>1. \A p \in P : Keys[p[1]] \in DOMAIN was /\ Keys[p[2]] \in DOMAIN now
      BY <1>0, EveryKey
    <3> HIDE DEF P
    <3> QED
      BY <2>3, <2>a, <3>1
  <2>5. \A k \in DOMAIN now : k \in DOMAIN was \/ \E p \in P : Keys[p[2]] = k
    BY <1>0, <2>1, EveryKey
  <2>6. \A k \in DOMAIN was : k \in DOMAIN now \/ \E p \in P : Keys[p[1]] = k
    BY <1>0, <2>1, EveryKey
  <2> HIDE DEF P, D
  <2>7. \A k \in DOMAIN was : \E n \in DOMAIN now : seenNow[n] = seenWas[k]
    BY <2>2, <2>4, <2>6
  <2>8. \A k \in DOMAIN now : \E n \in DOMAIN was : seenWas[n] = seenNow[k]
    BY <2>2, <2>4, <2>5
  <2>9. DOMAIN seenWas = DOMAIN was /\ DOMAIN seenNow = DOMAIN now
    BY DEF Rowwise
  <2> QED
    BY <2>7, <2>8, <2>9 DEF Range
<1>2. ASSUME DOMAIN was = DOMAIN now, \A k \in DOMAIN was : seenWas[k] = seenNow[k] PROVE D = {}
  <2>1. \A k \in DOMAIN was : moved[<<k, k>>] = {}
    BY <1>2 DEF Rowwise
  <2>2. Unmatched(was, now) = {} /\ Unmatched(now, was) = {}
    BY <1>2 DEF Unmatched
  <2>3. P = {} /\ Departed(was, now, P) = {} /\ Arrived(was, now, P) = {}
    BY <2>2 DEF Pairs, Departed, Arrived
  <2> QED
    BY <1>2, <2>1, <2>3 DEF Listed
<1> QED
  BY <1>1, <1>2

OfOp(changes, o) == {c \in changes : c.op = o}
AccountedFor(D, before, after, seenNow, arrival) ==
    /\ \A k \in DOMAIN seenNow : seenNow[k] \notin before => \E c \in D \ OfOp(D, "remove") : c.label = arrival[k].label
    /\ Cardinality(OfOp(D, "add")) + Cardinality(before \ after)
          = Cardinality(OfOp(D, "remove")) + Cardinality(after \ before)
    /\ \A c \in OfOp(D, "remove"), d \in OfOp(D, "add") : c.from # d.to

\* Accounts, of such a list and of labels that go by what is seen of a row.
LEMMA ListedAccounts ==
    ASSUME NEW was, NEW now, NEW seenWas, NEW seenNow, NEW moved, NEW departure, NEW arrival,
           Rowwise(was, now, seenWas, seenNow, moved, departure, arrival)
    PROVE  AccountedFor(Listed(was, now, moved, departure, arrival), Range(seenWas), Range(seenNow), seenNow, arrival)
<1> DEFINE P == Pairs(was, now)
           D == Listed(was, now, moved, departure, arrival)
           gone == Departed(was, now, P)
           new == Arrived(was, now, P)
           before == Range(seenWas)
           after == Range(seenNow)
<1>0. Keyed(was) /\ Keyed(now)
  BY DEF Rowwise
<1>1. /\ IsFiniteSet(gone) /\ IsFiniteSet(new) /\ gone \subseteq DOMAIN was /\ new \subseteq DOMAIN now
      /\ Cardinality(gone) + Cardinality(DOMAIN now) = Cardinality(new) + Cardinality(DOMAIN was)
  BY <1>0, PairsCount
<1>2. \A p \in P : Keys[p[1]] \in DOMAIN was /\ Keys[p[2]] \in DOMAIN now
  BY <1>0, EveryKey
<1>3. ASSUME NEW c \in D
      PROVE  \/ c.op = "change"
             \/ c \in {departure[k] : k \in gone} /\ c.op = "remove"
             \/ c \in {arrival[k] : k \in new} /\ c.op = "add"
  <2>1. \A j \in DOMAIN was, k \in DOMAIN now : \A x \in moved[<<j, k>>] : x.op = "change"
    BY DEF Rowwise
  <2>2. (\A k \in DOMAIN was : departure[k].op = "remove") /\ (\A k \in DOMAIN now : arrival[k].op = "add")
    BY DEF Rowwise
  <2>3. \/ \E k \in DOMAIN was \cap DOMAIN now : c \in moved[<<k, k>>]
        \/ \E p \in P : c \in moved[<<Keys[p[1]], Keys[p[2]]>>]
        \/ c \in {departure[k] : k \in gone}
        \/ c \in {arrival[k] : k \in new}
    BY <1>3 DEF Listed
  <2> HIDE DEF P, D, gone, new
  <2>4. ASSUME NEW p \in P, c \in moved[<<Keys[p[1]], Keys[p[2]]>>] PROVE c.op = "change"
    BY <1>2, <2>1, <2>4
  <2> QED
    BY <1>1, <2>1, <2>2, <2>3, <2>4
<1>4. {c \in D : c.op = "remove"} = {departure[k] : k \in gone}
  <2>1. {departure[k] : k \in gone} \subseteq D
    BY DEF Listed
  <2>2. \A c \in {departure[k] : k \in gone} : c.op = "remove"
    BY <1>1 DEF Rowwise
  <2> HIDE DEF D, gone, new
  <2> QED
    BY <1>3, <2>1, <2>2
<1>5. {c \in D : c.op = "add"} = {arrival[k] : k \in new}
  <2>1. {arrival[k] : k \in new} \subseteq D
    BY DEF Listed
  <2>2. \A c \in {arrival[k] : k \in new} : c.op = "add"
    BY <1>1 DEF Rowwise
  <2> HIDE DEF D, gone, new
  <2> QED
    BY <1>3, <2>1, <2>2
<1>6. \A c \in {departure[k] : k \in gone}, d \in {arrival[k] : k \in new} : c.from # d.to
  <2>1. \A j \in gone, k \in new : Pin(was[j].source) # Pin(now[k].source)
    BY <1>0, PairsMatch
  <2> HIDE DEF gone, new
  <2> QED
    BY <1>1, <2>1 DEF Rowwise
<1>7. ASSUME NEW k \in DOMAIN now, seenNow[k] \notin before
      PROVE  \E c \in D : c.op # "remove" /\ c.label = arrival[k].label
  <2>1. CASE k \in DOMAIN was
    <3>1. moved[<<k, k>>] # {}
      BY <1>7, <2>1 DEF Rowwise, Range
    <3>2. PICK c \in moved[<<k, k>>] : TRUE
      BY <3>1
    <3>3. c \in D
      BY <2>1, <3>2 DEF Listed
    <3>4. c.op = "change" /\ c.label = arrival[k].label
      BY <2>1, <3>2 DEF Rowwise
    <3> QED
      BY <3>3, <3>4
  <2>2. CASE \E p \in P : Keys[p[2]] = k
    <3>1. PICK p \in P : Keys[p[2]] = k
      BY <2>2
    <3>2. Keys[p[1]] \in DOMAIN was
      BY <1>2
    <3>3. moved[<<Keys[p[1]], k>>] # {}
      BY <1>7, <3>2 DEF Rowwise, Range
    <3>4. PICK c \in moved[<<Keys[p[1]], k>>] : TRUE
      BY <3>3
    <3>5. c \in D
      BY <3>1, <3>4 DEF Listed
    <3>6. c.op = "change" /\ c.label = arrival[k].label
      BY <3>2, <3>4 DEF Rowwise
    <3> QED
      BY <3>5, <3>6
  <2>3. CASE k \in new
    <3>1. arrival[k] \in D
      BY <2>3 DEF Listed
    <3>2. arrival[k].op = "add"
      BY DEF Rowwise
    <3> QED
      BY <3>1, <3>2
  <2> QED
    BY <1>0, <2>1, <2>2, <2>3, EveryKey
<1>8. Cardinality({departure[k] : k \in gone}) = Cardinality(gone)
  <2> DEFINE g == [k \in gone |-> departure[k]]
  <2>1. DOMAIN g = gone /\ (\A j, k \in gone : g[j] = g[k] => j = k) /\ {departure[k] : k \in gone} = {g[k] : k \in gone}
    BY <1>1 DEF Rowwise
  <2> HIDE DEF g, gone
  <2> QED
    BY <1>1, <2>1, ImageSize
<1>9. Cardinality({arrival[k] : k \in new}) = Cardinality(new)
  <2> DEFINE g == [k \in new |-> arrival[k]]
  <2>1. DOMAIN g = new /\ (\A j, k \in new : g[j] = g[k] => j = k) /\ {arrival[k] : k \in new} = {g[k] : k \in new}
    BY <1>1 DEF Rowwise
  <2> HIDE DEF g, new
  <2> QED
    BY <1>1, <2>1, ImageSize
<1>10. IsFiniteSet(before) /\ Cardinality(before) = Cardinality(DOMAIN was)
  <2>1. DOMAIN seenWas = DOMAIN was /\ \A j, k \in DOMAIN was : seenWas[j] = seenWas[k] => j = k
    BY DEF Rowwise
  <2>2. before = {seenWas[k] : k \in DOMAIN was}
    BY <2>1 DEF Range
  <2> HIDE DEF before
  <2> QED
    BY <1>0, <2>1, <2>2, ImageSize DEF Keyed
<1>11. IsFiniteSet(after) /\ Cardinality(after) = Cardinality(DOMAIN now)
  <2>1. DOMAIN seenNow = DOMAIN now /\ \A j, k \in DOMAIN now : seenNow[j] = seenNow[k] => j = k
    BY DEF Rowwise
  <2>2. after = {seenNow[k] : k \in DOMAIN now}
    BY <2>1 DEF Range
  <2> HIDE DEF after
  <2> QED
    BY <1>0, <2>1, <2>2, ImageSize DEF Keyed
<1> HIDE DEF before, after, gone, new, D, P
<1>12. Cardinality(before \ after) = Cardinality(before) - Cardinality(before \cap after)
  BY <1>10, FS_Difference
<1>13. Cardinality(after \ before) = Cardinality(after) - Cardinality(before \cap after)
  <2>1. after \cap before = before \cap after
    OBVIOUS
  <2> QED
    BY <1>11, <2>1, FS_Difference
<1>14. /\ Cardinality(before) \in Nat /\ Cardinality(after) \in Nat /\ Cardinality(before \cap after) \in Nat
       /\ Cardinality(gone) \in Nat /\ Cardinality(new) \in Nat
  <2>1. IsFiniteSet(before \cap after)
    BY <1>10, FS_Intersection
  <2> QED
    BY <1>1, <1>10, <1>11, <2>1, FS_CardinalityType
<1>15. Cardinality(new) + Cardinality(before \ after) = Cardinality(gone) + Cardinality(after \ before)
  BY <1>1, <1>10, <1>11, <1>12, <1>13, <1>14
<1>16. Cardinality({c \in D : c.op = "add"}) + Cardinality(before \ after)
          = Cardinality({c \in D : c.op = "remove"}) + Cardinality(after \ before)
  BY <1>4, <1>5, <1>8, <1>9, <1>15
<1>17. \A c \in {c \in D : c.op = "remove"}, d \in {d \in D : d.op = "add"} : c.from # d.to
  BY <1>4, <1>5, <1>6
<1>18. \A o : OfOp(D, o) = {c \in D : c.op = o}
  BY DEF OfOp
<1>19. DOMAIN seenNow = DOMAIN now
  BY DEF Rowwise
<1>20. AccountedFor(D, before, after, seenNow, arrival)
  BY <1>7, <1>16, <1>17, <1>18, <1>19 DEF AccountedFor
<1> QED
  BY <1>20 DEF D, before, after

-----------------------------------------------------------------------------
(* The mods and the assets of a config *)

\* What a change row can show of a config's row (Rendered).
SeenMod(m) == [m EXCEPT !.display = AuthoredDisplay(@)]
SeenAsset(a) ==
    [dest |-> a.dest, pin |-> Pin(a.source), required |-> a.required, display |-> AuthoredDisplay(a.display)]

\* As many rows as mod_changes has aspects are finitely many.
LEMMA FewFinite == ASSUME NEW a, NEW b, NEW c, NEW d, NEW e PROVE IsFiniteSet({a, b, c, d, e})
<1>1. IsFiniteSet({}) /\ {a, b, c, d, e} = (((({} \cup {a}) \cup {b}) \cup {c}) \cup {d}) \cup {e}
  BY FS_EmptySet
<1>2. IsFiniteSet({} \cup {a})
  BY <1>1, FS_AddElement
<1>3. IsFiniteSet(({} \cup {a}) \cup {b})
  BY <1>2, FS_AddElement
<1>4. IsFiniteSet((({} \cup {a}) \cup {b}) \cup {c})
  BY <1>3, FS_AddElement
<1>5. IsFiniteSet(((({} \cup {a}) \cup {b}) \cup {c}) \cup {d})
  BY <1>4, FS_AddElement
<1>6. IsFiniteSet((((({} \cup {a}) \cup {b}) \cup {c}) \cup {d}) \cup {e})
  BY <1>5, FS_AddElement
<1> QED
  BY <1>1, <1>6

\* mod_changes has nothing to say of two rows exactly when a person sees no
\* difference between them.
LEMMA ModChangesTell ==
    ASSUME NEW k, NEW was \in ModDecls, NEW now \in ModDecls, ~was.pulled, ~now.pulled
    PROVE  /\ IsFiniteSet(ModChanges(k, was, now))
           /\ ModChanges(k, was, now) = {} <=> SeenMod(was) = SeenMod(now)
           /\ \A c \in ModChanges(k, was, now) : c.group = "mods" /\ c.op = "change" /\ c.label = now.file
<1> DEFINE row(field, from, to) == Change("mods", "change", k, now.file, field, from, to, ProjectOf(now.source))
           pinned == IF Pin(was.source) # Pin(now.source) THEN row("pin", Pin(was.source), Pin(now.source))
                     ELSE row("pin", ProjectOf(was.source), ProjectOf(now.source))
           file == row("filename", was.file, now.file)
           slug == row("slug", was.slug, now.slug)
           default == row("default_enabled", OnOff(was.on), OnOff(now.on))
           shown == row("display", None, None)
           texts == {AuthoredDisplay(was.display)} \ {AuthoredDisplay(now.display)}
           all == ModChanges(k, was, now)
<1>1. all = {c \in {pinned, file, slug, default} : c.from # c.to} \cup {shown : x \in texts}
  BY DEF ModChanges
<1>2. /\ pinned.from = pinned.to <=> Pin(was.source) = Pin(now.source) /\ ProjectOf(was.source) = ProjectOf(now.source)
      /\ file.from = file.to <=> was.file = now.file
      /\ slug.from = slug.to <=> was.slug = now.slug
      /\ default.from = default.to <=> OnOff(was.on) = OnOff(now.on)
  BY DEF Change
<1>3. \A c \in {pinned, file, slug, default, shown} : c.group = "mods" /\ c.op = "change" /\ c.label = now.file
  BY DEF Change
<1>4. /\ was.source \in Sources /\ now.source \in Sources /\ was.on \in BOOLEAN /\ now.on \in BOOLEAN
      /\ was.pulled = FALSE /\ now.pulled = FALSE
  BY DEF ModDecls
<1>5. Pin(was.source) = Pin(now.source) /\ ProjectOf(was.source) = ProjectOf(now.source) <=> was.source = now.source
  BY <1>4, SourcesAssumption
<1>6. OnOff(was.on) = OnOff(now.on) <=> was.on = now.on
  BY <1>4 DEF OnOff
<1>7. SeenMod(was) = SeenMod(now) <=> /\ was.file = now.file /\ was.source = now.source /\ was.on = now.on
                                      /\ was.slug = now.slug
                                      /\ AuthoredDisplay(was.display) = AuthoredDisplay(now.display)
  BY <1>4 DEF SeenMod, ModDecls
<1>8. {shown : x \in texts} = {} <=> AuthoredDisplay(was.display) = AuthoredDisplay(now.display)
  OBVIOUS
<1>9. {shown : x \in texts} \subseteq {shown}
  OBVIOUS
<1> HIDE DEF pinned, file, slug, default, shown, texts, all
<1>10. all = {} <=> /\ pinned.from = pinned.to /\ file.from = file.to /\ slug.from = slug.to /\ default.from = default.to
                    /\ {shown : x \in texts} = {}
  BY <1>1
<1>11. all = {} <=> SeenMod(was) = SeenMod(now)
  BY <1>2, <1>5, <1>6, <1>7, <1>8, <1>10
<1>12. all \in SUBSET {pinned, file, slug, default, shown}
  BY <1>1, <1>9
<1>13. IsFiniteSet(all)
  BY <1>12, FewFinite, FS_Subset
<1> QED
  BY <1>3, <1>11, <1>12, <1>13 DEF all

\* asset_changes the same, of the pin alone.
LEMMA AssetChangesTell ==
    ASSUME NEW k, NEW was \in Assets, NEW now \in Assets
    PROVE  /\ IsFiniteSet(AssetChanges(k, was, now))
           /\ AssetChanges(k, was, now) = {} <=> SeenAsset(was) = SeenAsset(now)
           /\ \A c \in AssetChanges(k, was, now) : c.group = "assets" /\ c.op = "change" /\ c.label = now.dest
<1> DEFINE row(field, from, to) == Change("assets", "change", k, now.dest, field, from, to, ProjectOf(now.source))
           pinned == row("pin", Pin(was.source), Pin(now.source))
           file == row("filename", was.dest, now.dest)
           required == row("required", OnOff(was.required), OnOff(now.required))
           shown == row("display", None, None)
           texts == {AuthoredDisplay(was.display)} \ {AuthoredDisplay(now.display)}
           all == AssetChanges(k, was, now)
<1>1. all = {c \in {pinned, file, required} : c.from # c.to} \cup {shown : x \in texts}
  BY DEF AssetChanges
<1>2. /\ pinned.from = pinned.to <=> Pin(was.source) = Pin(now.source)
      /\ file.from = file.to <=> was.dest = now.dest
      /\ required.from = required.to <=> OnOff(was.required) = OnOff(now.required)
  BY DEF Change
<1>3. \A c \in {pinned, file, required, shown} : c.group = "assets" /\ c.op = "change" /\ c.label = now.dest
  BY DEF Change
<1>4. was \in AssetDecls /\ now \in AssetDecls
  BY RowsAssumption
<1>6. OnOff(was.required) = OnOff(now.required) <=> was.required = now.required
  BY <1>4 DEF OnOff, AssetDecls
<1>7. SeenAsset(was) = SeenAsset(now) <=> /\ was.dest = now.dest /\ Pin(was.source) = Pin(now.source)
                                          /\ was.required = now.required
                                          /\ AuthoredDisplay(was.display) = AuthoredDisplay(now.display)
  BY DEF SeenAsset
<1>8. {shown : x \in texts} = {} <=> AuthoredDisplay(was.display) = AuthoredDisplay(now.display)
  OBVIOUS
<1>9. {shown : x \in texts} \subseteq {shown}
  OBVIOUS
<1> HIDE DEF pinned, file, required, shown, texts, all
<1>10. all = {} <=> /\ pinned.from = pinned.to /\ file.from = file.to /\ required.from = required.to
                    /\ {shown : x \in texts} = {}
  BY <1>1
<1>11. all = {} <=> SeenAsset(was) = SeenAsset(now)
  BY <1>2, <1>6, <1>7, <1>8, <1>10
<1>12. all \in SUBSET {pinned, file, required, shown, shown}
  BY <1>1, <1>9
<1>13. IsFiniteSet(all)
  BY <1>12, FewFinite, FS_Subset
<1> QED
  BY <1>3, <1>11, <1>12, <1>13 DEF all

\* The entries mod_rows and asset_rows are made of, as functions of the keys.
SeenMods(map) == [k \in DOMAIN map |-> SeenMod(map[k])]
ModMoves(was, now) == [p \in (DOMAIN was) \X (DOMAIN now) |-> ModChanges(p[2], was[p[1]], now[p[2]])]
ModsGone(map) ==
    [k \in DOMAIN map |-> Change("mods", "remove", k, map[k].file, None, Pin(map[k].source), None, ProjectOf(map[k].source))]
ModsNew(map) ==
    [k \in DOMAIN map |-> Change("mods", "add", k, map[k].file, None, None, Pin(map[k].source), ProjectOf(map[k].source))]

SeenAssets(map) == [k \in DOMAIN map |-> SeenAsset(map[k])]
AssetMoves(was, now) == [p \in (DOMAIN was) \X (DOMAIN now) |-> AssetChanges(p[2], was[p[1]], now[p[2]])]
AssetsGone(map) ==
    [k \in DOMAIN map |-> Change("assets", "remove", k, map[k].dest, None, Pin(map[k].source), None, ProjectOf(map[k].source))]
AssetsNew(map) ==
    [k \in DOMAIN map |-> Change("assets", "add", k, map[k].dest, None, None, Pin(map[k].source), ProjectOf(map[k].source))]

\* What the lemmas below ask of a config (put_pack_config stores no other).
Sound(cfg) ==
    cfg \in Configs /\ IsFiniteSet(cfg.assets) /\ Distinct(cfg)

\* mod_rows is such a list, of what a person sees of the authored mods.
LEMMA ModRowwise ==
    ASSUME NEW before, NEW after, Sound(before), Sound(after)
    PROVE  LET was == AuthoredMods(before)
               now == AuthoredMods(after)
           IN  /\ Rowwise(was, now, SeenMods(was), SeenMods(now), ModMoves(was, now), ModsGone(was), ModsNew(now))
               /\ ModRows(before, after) = Listed(was, now, ModMoves(was, now), ModsGone(was), ModsNew(now))
               /\ \A c \in ModRows(before, after) : c.group = "mods"
<1> DEFINE was == AuthoredMods(before)
           now == AuthoredMods(after)
           moves == ModMoves(was, now)
<1>1. /\ Keyed(was) /\ \A k \in DOMAIN was : was[k] \in ModDecls /\ ~was[k].pulled
      /\ \A j, k \in DOMAIN was : was[j].file = was[k].file => j = k
  BY KeyedMods DEF Sound, Configs
<1>2. /\ Keyed(now) /\ \A k \in DOMAIN now : now[k] \in ModDecls /\ ~now[k].pulled
      /\ \A j, k \in DOMAIN now : now[j].file = now[k].file => j = k
  BY KeyedMods DEF Sound, Configs
<1>3. ModRows(before, after) =
        (UNION {ModChanges(k, was[k], now[k]) : k \in DOMAIN was \cap DOMAIN now})
          \cup (UNION {ModChanges(Keys[p[2]], was[Keys[p[1]]], now[Keys[p[2]]]) : p \in Pairs(was, now)})
          \cup {Change("mods", "remove", k, was[k].file, None, Pin(was[k].source), None, ProjectOf(was[k].source)) :
                  k \in Departed(was, now, Pairs(was, now))}
          \cup {Change("mods", "add", k, now[k].file, None, None, Pin(now[k].source), ProjectOf(now[k].source)) :
                  k \in Arrived(was, now, Pairs(was, now))}
  BY DEF ModRows, MatchRows
<1> HIDE DEF was, now
<1>4. \A p \in Pairs(was, now) : Keys[p[1]] \in DOMAIN was /\ Keys[p[2]] \in DOMAIN now
  BY <1>1, <1>2, EveryKey
<1>5. Departed(was, now, Pairs(was, now)) \subseteq DOMAIN was /\ Arrived(was, now, Pairs(was, now)) \subseteq DOMAIN now
  BY <1>1, <1>2, PairsCount
<1>6. ASSUME NEW j \in DOMAIN was, NEW k \in DOMAIN now PROVE moves[<<j, k>>] = ModChanges(k, was[j], now[k])
  BY <1>6 DEF ModMoves
<1>7. /\ \A k \in DOMAIN was : ModsGone(was)[k] =
            Change("mods", "remove", k, was[k].file, None, Pin(was[k].source), None, ProjectOf(was[k].source))
      /\ \A k \in DOMAIN now : ModsNew(now)[k] =
            Change("mods", "add", k, now[k].file, None, None, Pin(now[k].source), ProjectOf(now[k].source))
      /\ DOMAIN ModsGone(was) = DOMAIN was /\ DOMAIN ModsNew(now) = DOMAIN now
  BY DEF ModsGone, ModsNew
<1> HIDE DEF moves
<1>8. ModRows(before, after) = Listed(was, now, moves, ModsGone(was), ModsNew(now))
  <2>1. {ModChanges(k, was[k], now[k]) : k \in DOMAIN was \cap DOMAIN now}
          = {moves[<<k, k>>] : k \in DOMAIN was \cap DOMAIN now}
    BY <1>6
  <2>2. {ModChanges(Keys[p[2]], was[Keys[p[1]]], now[Keys[p[2]]]) : p \in Pairs(was, now)}
          = {moves[<<Keys[p[1]], Keys[p[2]]>>] : p \in Pairs(was, now)}
    <3>1. ASSUME NEW p \in Pairs(was, now)
          PROVE  ModChanges(Keys[p[2]], was[Keys[p[1]]], now[Keys[p[2]]]) = moves[<<Keys[p[1]], Keys[p[2]]>>]
      BY <1>4, <1>6
    <3> QED
      BY <3>1
  <2>3. {Change("mods", "remove", k, was[k].file, None, Pin(was[k].source), None, ProjectOf(was[k].source)) :
            k \in Departed(was, now, Pairs(was, now))} = {ModsGone(was)[k] : k \in Departed(was, now, Pairs(was, now))}
    BY <1>5, <1>7
  <2>4. {Change("mods", "add", k, now[k].file, None, None, Pin(now[k].source), ProjectOf(now[k].source)) :
            k \in Arrived(was, now, Pairs(was, now))} = {ModsNew(now)[k] : k \in Arrived(was, now, Pairs(was, now))}
    BY <1>5, <1>7
  <2> QED
    BY <1>3, <2>1, <2>2, <2>3, <2>4 DEF Listed
<1>9. Rowwise(was, now, SeenMods(was), SeenMods(now), moves, ModsGone(was), ModsNew(now))
  <2>1. /\ DOMAIN SeenMods(was) = DOMAIN was /\ DOMAIN SeenMods(now) = DOMAIN now
        /\ \A k \in DOMAIN was : SeenMods(was)[k] = SeenMod(was[k])
        /\ \A k \in DOMAIN now : SeenMods(now)[k] = SeenMod(now[k])
    BY DEF SeenMods
  <2>2. \A m, n \in ModDecls : SeenMod(m) = SeenMod(n) => m.file = n.file
    BY DEF SeenMod, ModDecls
  <2>3. \A j, k \in DOMAIN was : SeenMods(was)[j] = SeenMods(was)[k] => j = k
    BY <1>1, <2>1, <2>2
  <2>4. \A j, k \in DOMAIN now : SeenMods(now)[j] = SeenMods(now)[k] => j = k
    BY <1>2, <2>1, <2>2
  <2>5. ASSUME NEW j \in DOMAIN was, NEW k \in DOMAIN now
        PROVE  /\ IsFiniteSet(moves[<<j, k>>])
               /\ moves[<<j, k>>] = {} <=> SeenMods(was)[j] = SeenMods(now)[k]
               /\ \A c \in moves[<<j, k>>] : c.op = "change" /\ c.label = ModsNew(now)[k].label
    <3>1. ModsNew(now)[k].label = now[k].file
      BY <1>7 DEF Change
    <3>2. was[j] \in ModDecls /\ now[k] \in ModDecls /\ ~was[j].pulled /\ ~now[k].pulled
      BY <1>1, <1>2
    <3> QED
      BY <1>6, <2>1, <3>1, <3>2, ModChangesTell
  <2>6. /\ \A j, k \in DOMAIN was : ModsGone(was)[j] = ModsGone(was)[k] => j = k
        /\ \A j \in DOMAIN was : ModsGone(was)[j].op = "remove" /\ ModsGone(was)[j].from = Pin(was[j].source)
    BY <1>7 DEF Change
  <2>7. /\ \A j, k \in DOMAIN now : ModsNew(now)[j] = ModsNew(now)[k] => j = k
        /\ \A j \in DOMAIN now : ModsNew(now)[j].op = "add" /\ ModsNew(now)[j].to = Pin(now[j].source)
    BY <1>7 DEF Change
  <2> QED
    BY <1>1, <1>2, <1>7, <2>1, <2>3, <2>4, <2>5, <2>6, <2>7 DEF Rowwise
<1>10. \A c \in ModRows(before, after) : c.group = "mods"
  <2>1. \A j \in DOMAIN was, k \in DOMAIN now : \A c \in ModChanges(k, was[j], now[k]) : c.group = "mods"
    BY <1>1, <1>2, ModChangesTell
  <2>2. \A o, k, l, f, a, b, x : Change("mods", o, k, l, f, a, b, x).group = "mods"
    BY DEF Change
  <2> QED
    BY <1>3, <1>4, <2>1, <2>2
<1> QED
  BY <1>8, <1>9, <1>10 DEF was, now, moves
\* asset_rows the same.
LEMMA AssetRowwise ==
    ASSUME NEW before, NEW after, Sound(before), Sound(after)
    PROVE  LET was == AuthoredAssets(before)
               now == AuthoredAssets(after)
           IN  /\ Rowwise(was, now, SeenAssets(was), SeenAssets(now), AssetMoves(was, now), AssetsGone(was), AssetsNew(now))
               /\ AssetRows(before, after) = Listed(was, now, AssetMoves(was, now), AssetsGone(was), AssetsNew(now))
               /\ \A c \in AssetRows(before, after) : c.group = "assets"
<1> DEFINE was == AuthoredAssets(before)
           now == AuthoredAssets(after)
           moves == AssetMoves(was, now)
<1>1. /\ Keyed(was) /\ \A k \in DOMAIN was : was[k] \in Assets
      /\ \A j, k \in DOMAIN was : was[j].dest = was[k].dest => j = k
  <2>1. Keyed(was) /\ \A k \in DOMAIN was : was[k] \in before.assets /\ k = <<"a", was[k].dest>>
    BY KeyedAssets DEF Sound, Configs
  <2> HIDE DEF was
  <2> QED
    BY <2>1 DEF Sound, Configs
<1>2. /\ Keyed(now) /\ \A k \in DOMAIN now : now[k] \in Assets
      /\ \A j, k \in DOMAIN now : now[j].dest = now[k].dest => j = k
  <2>1. Keyed(now) /\ \A k \in DOMAIN now : now[k] \in after.assets /\ k = <<"a", now[k].dest>>
    BY KeyedAssets DEF Sound, Configs
  <2> HIDE DEF now
  <2> QED
    BY <2>1 DEF Sound, Configs
<1>3. AssetRows(before, after) =
        (UNION {AssetChanges(k, was[k], now[k]) : k \in DOMAIN was \cap DOMAIN now})
          \cup (UNION {AssetChanges(Keys[p[2]], was[Keys[p[1]]], now[Keys[p[2]]]) : p \in Pairs(was, now)})
          \cup {Change("assets", "remove", k, was[k].dest, None, Pin(was[k].source), None, ProjectOf(was[k].source)) :
                  k \in Departed(was, now, Pairs(was, now))}
          \cup {Change("assets", "add", k, now[k].dest, None, None, Pin(now[k].source), ProjectOf(now[k].source)) :
                  k \in Arrived(was, now, Pairs(was, now))}
  BY DEF AssetRows, MatchRows
<1> HIDE DEF was, now
<1>4. \A p \in Pairs(was, now) : Keys[p[1]] \in DOMAIN was /\ Keys[p[2]] \in DOMAIN now
  BY <1>1, <1>2, EveryKey
<1>5. Departed(was, now, Pairs(was, now)) \subseteq DOMAIN was /\ Arrived(was, now, Pairs(was, now)) \subseteq DOMAIN now
  BY <1>1, <1>2, PairsCount
<1>6. ASSUME NEW j \in DOMAIN was, NEW k \in DOMAIN now PROVE moves[<<j, k>>] = AssetChanges(k, was[j], now[k])
  BY <1>6 DEF AssetMoves
<1>7. /\ \A k \in DOMAIN was : AssetsGone(was)[k] =
            Change("assets", "remove", k, was[k].dest, None, Pin(was[k].source), None, ProjectOf(was[k].source))
      /\ \A k \in DOMAIN now : AssetsNew(now)[k] =
            Change("assets", "add", k, now[k].dest, None, None, Pin(now[k].source), ProjectOf(now[k].source))
      /\ DOMAIN AssetsGone(was) = DOMAIN was /\ DOMAIN AssetsNew(now) = DOMAIN now
  BY DEF AssetsGone, AssetsNew
<1> HIDE DEF moves
<1>8. AssetRows(before, after) = Listed(was, now, moves, AssetsGone(was), AssetsNew(now))
  <2>1. {AssetChanges(k, was[k], now[k]) : k \in DOMAIN was \cap DOMAIN now}
          = {moves[<<k, k>>] : k \in DOMAIN was \cap DOMAIN now}
    BY <1>6
  <2>2. {AssetChanges(Keys[p[2]], was[Keys[p[1]]], now[Keys[p[2]]]) : p \in Pairs(was, now)}
          = {moves[<<Keys[p[1]], Keys[p[2]]>>] : p \in Pairs(was, now)}
    <3>1. ASSUME NEW p \in Pairs(was, now)
          PROVE  AssetChanges(Keys[p[2]], was[Keys[p[1]]], now[Keys[p[2]]]) = moves[<<Keys[p[1]], Keys[p[2]]>>]
      BY <1>4, <1>6
    <3> QED
      BY <3>1
  <2>3. {Change("assets", "remove", k, was[k].dest, None, Pin(was[k].source), None, ProjectOf(was[k].source)) :
            k \in Departed(was, now, Pairs(was, now))} = {AssetsGone(was)[k] : k \in Departed(was, now, Pairs(was, now))}
    BY <1>5, <1>7
  <2>4. {Change("assets", "add", k, now[k].dest, None, None, Pin(now[k].source), ProjectOf(now[k].source)) :
            k \in Arrived(was, now, Pairs(was, now))} = {AssetsNew(now)[k] : k \in Arrived(was, now, Pairs(was, now))}
    BY <1>5, <1>7
  <2> QED
    BY <1>3, <2>1, <2>2, <2>3, <2>4 DEF Listed
<1>9. Rowwise(was, now, SeenAssets(was), SeenAssets(now), moves, AssetsGone(was), AssetsNew(now))
  <2>1. /\ DOMAIN SeenAssets(was) = DOMAIN was /\ DOMAIN SeenAssets(now) = DOMAIN now
        /\ \A k \in DOMAIN was : SeenAssets(was)[k] = SeenAsset(was[k])
        /\ \A k \in DOMAIN now : SeenAssets(now)[k] = SeenAsset(now[k])
    BY DEF SeenAssets
  <2>2. \A m, n \in AssetDecls : SeenAsset(m) = SeenAsset(n) => m.dest = n.dest
    BY DEF SeenAsset, AssetDecls
  <2>3. \A j, k \in DOMAIN was : SeenAssets(was)[j] = SeenAssets(was)[k] => j = k
    BY <1>1, <2>1, <2>2, RowsAssumption
  <2>4. \A j, k \in DOMAIN now : SeenAssets(now)[j] = SeenAssets(now)[k] => j = k
    BY <1>2, <2>1, <2>2, RowsAssumption
  <2>5. ASSUME NEW j \in DOMAIN was, NEW k \in DOMAIN now
        PROVE  /\ IsFiniteSet(moves[<<j, k>>])
               /\ moves[<<j, k>>] = {} <=> SeenAssets(was)[j] = SeenAssets(now)[k]
               /\ \A c \in moves[<<j, k>>] : c.op = "change" /\ c.label = AssetsNew(now)[k].label
    <3>1. AssetsNew(now)[k].label = now[k].dest
      BY <1>7 DEF Change
    <3>2. was[j] \in Assets /\ now[k] \in Assets
      BY <1>1, <1>2
    <3> QED
      BY <1>6, <2>1, <3>1, <3>2, AssetChangesTell
  <2>6. /\ \A j, k \in DOMAIN was : AssetsGone(was)[j] = AssetsGone(was)[k] => j = k
        /\ \A j \in DOMAIN was : AssetsGone(was)[j].op = "remove" /\ AssetsGone(was)[j].from = Pin(was[j].source)
    BY <1>7 DEF Change
  <2>7. /\ \A j, k \in DOMAIN now : AssetsNew(now)[j] = AssetsNew(now)[k] => j = k
        /\ \A j \in DOMAIN now : AssetsNew(now)[j].op = "add" /\ AssetsNew(now)[j].to = Pin(now[j].source)
    BY <1>7 DEF Change
  <2> QED
    BY <1>1, <1>2, <1>7, <2>1, <2>3, <2>4, <2>5, <2>6, <2>7 DEF Rowwise
<1>10. \A c \in AssetRows(before, after) : c.group = "assets"
  <2>1. \A j \in DOMAIN was, k \in DOMAIN now : \A c \in AssetChanges(k, was[j], now[k]) : c.group = "assets"
    BY <1>1, <1>2, AssetChangesTell
  <2>2. \A o, k, l, f, a, b, x : Change("assets", o, k, l, f, a, b, x).group = "assets"
    BY DEF Change
  <2> QED
    BY <1>3, <1>4, <2>1, <2>2
<1> QED
  BY <1>8, <1>9, <1>10 DEF was, now, moves
-----------------------------------------------------------------------------
(* The diff of two configs *)

\* One row for each field that renders differently.
LEMMA PackRowsTell ==
    ASSUME NEW before, NEW after
    PROVE  /\ IsFiniteSet(PackRows(before, after))
           /\ PackRows(before, after) = {} <=> Rendered(before).fields = Rendered(after).fields
           /\ \A c \in PackRows(before, after) : c.group = "pack"
<1> DEFINE moved == {g \in DOMAIN Values : Shown(g, before.fields[g]) # Shown(g, after.fields[g])}
           row == [f \in moved |-> FieldRow(f)]
<1>1. PackRows(before, after) = {FieldRow(f) : f \in moved}
  BY DEF PackRows
<1>2. \A f : FieldRow(f).group = "pack"
  BY DEF FieldRow, Change
<1>3. moved \in SUBSET (DOMAIN Values)
  OBVIOUS
<1>4. IsFiniteSet(moved)
  BY <1>3, FieldsAssumption, FS_Subset
<1>5. /\ Rendered(before).fields = [f \in DOMAIN Values |-> Shown(f, before.fields[f])]
      /\ Rendered(after).fields = [f \in DOMAIN Values |-> Shown(f, after.fields[f])]
  BY DEF Rendered
<1>6. moved = {} <=> Rendered(before).fields = Rendered(after).fields
  BY <1>5
<1>7. PackRows(before, after) = {row[f] : f \in moved} /\ DOMAIN row = moved
  BY <1>1
<1>8. PackRows(before, after) = {} <=> moved = {}
  BY <1>1
<1>9. \A c \in PackRows(before, after) : c.group = "pack"
  BY <1>1, <1>2
<1> HIDE DEF moved, row
<1>10. IsFiniteSet(PackRows(before, after))
  BY <1>4, <1>7, ImageFinite
<1> QED
  BY <1>6, <1>8, <1>9, <1>10

\* What a person sees of the rows under their keys is what Rendered holds.
LEMMA RenderedSeen ==
    ASSUME NEW cfg, Sound(cfg)
    PROVE  /\ Rendered(cfg).mods = Range(SeenMods(AuthoredMods(cfg)))
           /\ Rendered(cfg).assets = Range(SeenAssets(AuthoredAssets(cfg)))
<1> DEFINE rows == AuthoredRows(cfg)
           map == AuthoredMods(cfg)
           held == AuthoredAssets(cfg)
<1>1. /\ Rendered(cfg).mods = {SeenMod(m) : m \in Range(rows)}
      /\ Rendered(cfg).assets = {SeenAsset(a) : a \in cfg.assets}
  BY DEF Rendered, Authored, SeenMod, SeenAsset
<1>2. DOMAIN map = {KeyAt(rows, i) : i \in DOMAIN rows} /\ \A i \in DOMAIN rows : map[KeyAt(rows, i)] = rows[i]
  BY KeyedMods DEF Sound, Configs
<1>3. DOMAIN held = {<<"a", a.dest>> : a \in cfg.assets} /\ \A a \in cfg.assets : held[<<"a", a.dest>>] = a
  BY KeyedAssets DEF Sound, Configs
<1>4. /\ DOMAIN SeenMods(map) = DOMAIN map /\ \A k \in DOMAIN map : SeenMods(map)[k] = SeenMod(map[k])
      /\ DOMAIN SeenAssets(held) = DOMAIN held /\ \A k \in DOMAIN held : SeenAssets(held)[k] = SeenAsset(held[k])
  BY DEF SeenMods, SeenAssets
<1> HIDE DEF rows, map, held
<1>5. {SeenMod(m) : m \in Range(rows)} = Range(SeenMods(map))
  BY <1>2, <1>4 DEF Range
<1>6. {SeenAsset(a) : a \in cfg.assets} = Range(SeenAssets(held))
  <2>1. \A a \in cfg.assets : \E k \in DOMAIN held : SeenAssets(held)[k] = SeenAsset(a)
    BY <1>3, <1>4
  <2>2. \A k \in DOMAIN held : \E a \in cfg.assets : SeenAssets(held)[k] = SeenAsset(a)
    BY <1>3, <1>4
  <2> QED
    BY <1>4, <2>1, <2>2 DEF Range
<1> QED
  BY <1>1, <1>5, <1>6 DEF rows, map, held

\* mod_rows says nothing when a person sees the same rows under the same keys,
\* and only when they see the same rows; and it accounts for those that differ.
LEMMA ModsTell ==
    ASSUME NEW before, NEW after, Sound(before), Sound(after)
    PROVE  /\ IsFiniteSet(ModRows(before, after))
           /\ ModRows(before, after) = {} => Rendered(before).mods = Rendered(after).mods
           /\ SeenMods(AuthoredMods(before)) = SeenMods(AuthoredMods(after)) => ModRows(before, after) = {}
           /\ Accounts(ModRows(before, after), Rendered(before).mods \ Rendered(after).mods,
                       Rendered(after).mods \ Rendered(before).mods, LAMBDA m : m.file)
<1> DEFINE was == AuthoredMods(before)
           now == AuthoredMods(after)
           sw == SeenMods(was)
           sn == SeenMods(now)
           moves == ModMoves(was, now)
           gone == ModsGone(was)
           new == ModsNew(now)
           D == ModRows(before, after)
<1>1. Rowwise(was, now, sw, sn, moves, gone, new) /\ D = Listed(was, now, moves, gone, new)
  BY ModRowwise
<1>2. Rendered(before).mods = Range(sw) /\ Rendered(after).mods = Range(sn)
  BY RenderedSeen
<1>3. DOMAIN sw = DOMAIN was /\ DOMAIN sn = DOMAIN now
  BY DEF SeenMods
<1>4. \A k \in DOMAIN now : new[k].label = sn[k].file
  <2>1. \A k \in DOMAIN now : now[k] \in ModDecls
    BY KeyedMods DEF Sound, Configs
  <2>2. \A r \in ModDecls : SeenMod(r).file = r.file
    BY DEF SeenMod, ModDecls
  <2> HIDE DEF now
  <2>3. \A k \in DOMAIN now : new[k].label = now[k].file /\ sn[k] = SeenMod(now[k])
    BY DEF ModsNew, SeenMods, Change
  <2> QED
    BY <2>1, <2>2, <2>3
<1> HIDE DEF was, now, sw, sn, moves, gone, new, D
<1>5. IsFiniteSet(D)
  BY <1>1, ListedFinite
<1>6. D = {} => Rendered(before).mods = Rendered(after).mods
  <2>1. Rowwise(was, now, sw, sn, moves, gone, new)
    BY <1>1
  <2>2. Listed(was, now, moves, gone, new) = {} =>
            Range(sw) = Range(sn)
    BY <2>1, ListedEmpty
  <2> QED
    BY <1>1, <1>2, <2>2
<1>7. sw = sn => D = {}
  <2> SUFFICES ASSUME sw = sn PROVE D = {}
    OBVIOUS
  <2>1. DOMAIN was = DOMAIN now /\ \A k \in DOMAIN was : sw[k] = sn[k]
    BY <1>3
  <2> QED
    BY <1>1, <2>1, ListedEmpty
<1>8. AccountedFor(D, Rendered(before).mods, Rendered(after).mods, sn, new)
  <2>1. Rowwise(was, now, sw, sn, moves, gone, new)
    BY <1>1
  <2> QED
    BY <1>1, <1>2, <2>1, ListedAccounts
<1>9. \A r \in Rendered(after).mods \ Rendered(before).mods :
        \E c \in D \ OfOp(D, "remove") : c.label = r.file
  BY <1>2, <1>3, <1>4, <1>8 DEF Range, AccountedFor
<1> QED
  BY <1>5, <1>6, <1>7, <1>8, <1>9 DEF Accounts, AccountedFor, OfOp, was, now, sw, sn, D

\* asset_rows the same.
LEMMA AssetsTell ==
    ASSUME NEW before, NEW after, Sound(before), Sound(after)
    PROVE  /\ IsFiniteSet(AssetRows(before, after))
           /\ AssetRows(before, after) = {} => Rendered(before).assets = Rendered(after).assets
           /\ SeenAssets(AuthoredAssets(before)) = SeenAssets(AuthoredAssets(after)) => AssetRows(before, after) = {}
           /\ Accounts(AssetRows(before, after), Rendered(before).assets \ Rendered(after).assets,
                       Rendered(after).assets \ Rendered(before).assets, LAMBDA a : a.dest)
<1> DEFINE was == AuthoredAssets(before)
           now == AuthoredAssets(after)
           sw == SeenAssets(was)
           sn == SeenAssets(now)
           moves == AssetMoves(was, now)
           gone == AssetsGone(was)
           new == AssetsNew(now)
           D == AssetRows(before, after)
<1>1. Rowwise(was, now, sw, sn, moves, gone, new) /\ D = Listed(was, now, moves, gone, new)
  BY AssetRowwise
<1>2. Rendered(before).assets = Range(sw) /\ Rendered(after).assets = Range(sn)
  BY RenderedSeen
<1>3. DOMAIN sw = DOMAIN was /\ DOMAIN sn = DOMAIN now
  BY DEF SeenAssets
<1>4. \A k \in DOMAIN now : new[k].label = sn[k].dest
  <2>1. \A k \in DOMAIN now : now[k] \in AssetDecls
    BY KeyedAssets, RowsAssumption DEF Sound, Configs
  <2>2. \A r \in AssetDecls : SeenAsset(r).dest = r.dest
    BY DEF SeenAsset, AssetDecls
  <2> HIDE DEF now
  <2>3. \A k \in DOMAIN now : new[k].label = now[k].dest /\ sn[k] = SeenAsset(now[k])
    BY DEF AssetsNew, SeenAssets, Change
  <2> QED
    BY <2>1, <2>2, <2>3
<1> HIDE DEF was, now, sw, sn, moves, gone, new, D
<1>5. IsFiniteSet(D)
  BY <1>1, ListedFinite
<1>6. D = {} => Rendered(before).assets = Rendered(after).assets
  <2>1. Rowwise(was, now, sw, sn, moves, gone, new)
    BY <1>1
  <2>2. Listed(was, now, moves, gone, new) = {} =>
            Range(sw) = Range(sn)
    BY <2>1, ListedEmpty
  <2> QED
    BY <1>1, <1>2, <2>2
<1>7. sw = sn => D = {}
  <2> SUFFICES ASSUME sw = sn PROVE D = {}
    OBVIOUS
  <2>1. DOMAIN was = DOMAIN now /\ \A k \in DOMAIN was : sw[k] = sn[k]
    BY <1>3
  <2> QED
    BY <1>1, <2>1, ListedEmpty
<1>8. AccountedFor(D, Rendered(before).assets, Rendered(after).assets, sn, new)
  <2>1. Rowwise(was, now, sw, sn, moves, gone, new)
    BY <1>1
  <2> QED
    BY <1>1, <1>2, <2>1, ListedAccounts
<1>9. \A r \in Rendered(after).assets \ Rendered(before).assets :
        \E c \in D \ OfOp(D, "remove") : c.label = r.dest
  BY <1>2, <1>3, <1>4, <1>8 DEF Range, AccountedFor
<1> QED
  BY <1>5, <1>6, <1>7, <1>8, <1>9 DEF Accounts, AccountedFor, OfOp, was, now, sw, sn, D

\* An empty diff leaves nothing that renders differently, and a diff is finite.
LEMMA DiffEmpty ==
    ASSUME NEW before, NEW after, Sound(before), Sound(after)
    PROVE  /\ IsFiniteSet(DiffConfigs(before, after))
           /\ DiffConfigs(before, after) = {} => Rendered(before) = Rendered(after)
<1>1. IsFiniteSet(PackRows(before, after)) /\ (PackRows(before, after) = {} <=> Rendered(before).fields = Rendered(after).fields)
  BY PackRowsTell
<1>2. /\ IsFiniteSet(ModRows(before, after))
      /\ ModRows(before, after) = {} => Rendered(before).mods = Rendered(after).mods
  BY ModsTell
<1>3. /\ IsFiniteSet(AssetRows(before, after))
      /\ AssetRows(before, after) = {} => Rendered(before).assets = Rendered(after).assets
  BY AssetsTell
<1>4. IsFiniteSet(PackRows(before, after) \cup ModRows(before, after))
  BY <1>1, <1>2, FS_Union
<1>5. IsFiniteSet(DiffConfigs(before, after))
  BY <1>3, <1>4, FS_Union DEF DiffConfigs
<1>6. ASSUME DiffConfigs(before, after) = {} PROVE Rendered(before) = Rendered(after)
  <2>1. PackRows(before, after) = {} /\ ModRows(before, after) = {} /\ AssetRows(before, after) = {}
    BY <1>6 DEF DiffConfigs
  <2>2. /\ Rendered(before).fields = Rendered(after).fields
        /\ Rendered(before).mods = Rendered(after).mods /\ Rendered(before).assets = Rendered(after).assets
    BY <1>1, <1>2, <1>3, <2>1
  <2> QED
    BY <2>2 DEF Rendered
<1> QED
  BY <1>5, <1>6

\* Configs of one revision have an empty diff.
LEMMA SameRevision ==
    ASSUME NEW before, NEW after, Sound(before), Sound(after), EditRev(before) = EditRev(after)
    PROVE  DiffConfigs(before, after) = {} /\ Rendered(before) = Rendered(after)
<1>1. before.fields = after.fields /\ AuthoredRows(before) = AuthoredRows(after) /\ before.assets = after.assets
  BY DEF EditRev
<1>2. AuthoredMods(before) = AuthoredMods(after) /\ AuthoredAssets(before) = AuthoredAssets(after)
  BY <1>1 DEF AuthoredMods, AuthoredAssets
<1>3. PackRows(before, after) = {}
  BY <1>1, PackRowsTell DEF Rendered
<1>4. ModRows(before, after) = {} /\ AssetRows(before, after) = {}
  BY <1>2, ModsTell, AssetsTell
<1>6. Rendered(before) = Rendered(after)
  BY <1>1 DEF Rendered, Authored
<1> QED
  BY <1>3, <1>4, <1>6 DEF DiffConfigs

-----------------------------------------------------------------------------
(* What is stored *)

\* A build has one entry for a file, one asset for a path, and pins every mod to
\* what its source points at.
BuildSound(build) ==
    /\ \A e \in build.mods : e.file \in Files /\ e.sha = Pin(e.source)
    /\ \A e, o \in build.mods : e.file = o.file => e = o
    /\ \A a, b \in build.assets : a.dest = b.dest => a = b

\* The live config and the checkpoint are configs a save accepts, the
\* checkpoint's revision is its config's, and builds are made of such configs.
HistorySound ==
    /\ Sound(live)
    /\ head # None =>
        /\ Sound(head.config) /\ head.rev = EditRev(head.config)
        /\ {"config", "rev"} \subseteq DOMAIN head
    /\ latest # None => BuildSound(latest)
    /\ earlier # None => BuildSound(earlier) /\ BuildSound(latest)

\* A set of rows in some order is a sequence of them.
LEMMA SetToSeqOf ==
    ASSUME NEW S, IsFiniteSet(S)
    PROVE  SetToSeq(S) \in Seq(S)
<1>1. Cardinality(S) \in Nat /\ ExistsBijection(1..Cardinality(S), S)
  BY FS_CardinalityType
<1>2. \E f \in [1..Cardinality(S) -> S] : IsInjective(f)
  BY <1>1 DEF ExistsBijection, Bijection, Injection
<1>3. SetToSeq(S) \in [1..Cardinality(S) -> S]
  BY <1>2 DEF SetToSeq
<1> QED
  BY <1>1, <1>3

\* An edit leaves rows and assets that can be written down.
LEMMA EditedConfig ==
    ASSUME NEW cfg \in Configs, IsFiniteSet(cfg.assets), NEW body \in Edited(cfg)
    PROVE  body \in Configs /\ IsFiniteSet(body.assets)
<1>1. /\ cfg.fields \in [DOMAIN Values -> UNION Range(Values)] /\ cfg.mods \in Seq(ModDecls)
      /\ cfg.assets \in SUBSET Assets
      /\ cfg = [fields |-> cfg.fields, mods |-> cfg.mods, assets |-> cfg.assets, visible |-> cfg.visible]
  BY DEF Configs
<1>2. ASSUME NEW mods \in Seq(ModDecls), body = [cfg EXCEPT !.mods = mods]
      PROVE  body \in Configs /\ IsFiniteSet(body.assets)
  BY <1>2 DEF Configs
<1>3. ASSUME NEW assets \in SUBSET Assets, IsFiniteSet(assets), body = [cfg EXCEPT !.assets = assets]
      PROVE  body \in Configs /\ IsFiniteSet(body.assets)
  BY <1>3 DEF Configs
<1>4. ASSUME NEW f \in DOMAIN Values, NEW v \in Values[f], body = [cfg EXCEPT !.fields[f] = v]
      PROVE  body \in Configs /\ IsFiniteSet(body.assets)
  <2>1. v \in UNION Range(Values)
    BY DEF Range
  <2>2. [cfg.fields EXCEPT ![f] = v] \in [DOMAIN Values -> UNION Range(Values)]
    BY <1>1, <2>1
  <2> QED
    BY <1>4, <2>2 DEF Configs
<1>5. CASE \E r \in Rows : body = [cfg EXCEPT !.mods = Append(@, r)]
  <2>1. PICK r \in Rows : body = [cfg EXCEPT !.mods = Append(cfg.mods, r)]
    BY <1>5
  <2>2. r \in ModDecls
    BY RowsAssumption
  <2>3. Append(cfg.mods, r) \in Seq(ModDecls)
    BY <1>1, <2>2
  <2> QED
    BY <1>2, <2>1, <2>3
<1>6. CASE \E i \in DOMAIN cfg.mods : body = [cfg EXCEPT !.mods = RemoveAt(@, i)]
  <2>1. PICK i \in DOMAIN cfg.mods : body = [cfg EXCEPT !.mods = RemoveAt(cfg.mods, i)]
    BY <1>6
  <2>2. i \in 1..Len(cfg.mods) /\ Len(cfg.mods) \in Nat
    BY <1>1
  <2>3. SubSeq(cfg.mods, 1, i-1) \in Seq(ModDecls) /\ SubSeq(cfg.mods, i+1, Len(cfg.mods)) \in Seq(ModDecls)
    BY <1>1, <2>2
  <2>4. RemoveAt(cfg.mods, i) \in Seq(ModDecls)
    BY <2>3 DEF RemoveAt
  <2> QED
    BY <1>2, <2>1, <2>4
<1>7. CASE \E i \in DOMAIN cfg.mods, r \in Rows : body = [cfg EXCEPT !.mods[i] = r]
  <2>1. PICK i \in DOMAIN cfg.mods, r \in Rows : body = [cfg EXCEPT !.mods = [cfg.mods EXCEPT ![i] = r]]
    BY <1>7
  <2>2. r \in ModDecls
    BY RowsAssumption
  <2>3. [cfg.mods EXCEPT ![i] = r] \in Seq(ModDecls)
    BY <1>1, <2>2
  <2> QED
    BY <1>2, <2>1, <2>3
<1>8. CASE body = [cfg EXCEPT !.mods = Reverse(@)]
  <2>1. body = [cfg EXCEPT !.mods = Reverse(cfg.mods)]
    BY <1>8
  <2>2. Reverse(cfg.mods) \in Seq(ModDecls)
    BY <1>1 DEF Reverse
  <2> QED
    BY <1>2, <2>1, <2>2
<1>9. CASE \E a \in Assets, add \in {{}} \cup {{b} : b \in Assets} : body = [cfg EXCEPT !.assets = (@ \ {a}) \cup add]
  <2>1. PICK a \in Assets, add \in {{}} \cup {{b} : b \in Assets} : body = [cfg EXCEPT !.assets = (cfg.assets \ {a}) \cup add]
    BY <1>9
  <2>2. add \in SUBSET Assets /\ IsFiniteSet(add)
    BY FS_EmptySet, FS_Singleton
  <2>3. IsFiniteSet(cfg.assets \ {a})
    BY FS_Difference
  <2>4. IsFiniteSet((cfg.assets \ {a}) \cup add)
    BY <2>2, <2>3, FS_Union
  <2>5. (cfg.assets \ {a}) \cup add \in SUBSET Assets
    BY <1>1, <2>2
  <2> QED
    BY <1>3, <2>1, <2>4, <2>5
<1>10. CASE \E f \in DOMAIN Values : \E v \in Values[f] : body = [cfg EXCEPT !.fields[f] = v]
  BY <1>4, <1>10
<1> DEFINE added == {[cfg EXCEPT !.mods = Append(@, r)] : r \in Rows}
           dropped == {[cfg EXCEPT !.mods = RemoveAt(@, i)] : i \in DOMAIN cfg.mods}
           wrote(i, r) == [cfg EXCEPT !.mods[i] = r]
           written == {wrote(i, r) : i \in DOMAIN cfg.mods, r \in Rows}
           turned == {[cfg EXCEPT !.mods = Reverse(@)]}
           adds == {{}} \cup {{b} : b \in Assets}
           put(a, add) == [cfg EXCEPT !.assets = (@ \ {a}) \cup add]
           moved == {put(a, add) : a \in Assets, add \in adds}
           set(f) == {[cfg EXCEPT !.fields[f] = v] : v \in Values[f]}
           fielded == UNION {set(f) : f \in DOMAIN Values}
<1>11. Edited(cfg) = added \cup dropped \cup written \cup turned \cup moved \cup fielded
  BY DEF Edited
<1>12. body \in added => \E r \in Rows : body = [cfg EXCEPT !.mods = Append(@, r)]
  BY Zenon
<1>13. body \in dropped => \E i \in DOMAIN cfg.mods : body = [cfg EXCEPT !.mods = RemoveAt(@, i)]
  BY Zenon
<1>14. body \in written => \E i \in DOMAIN cfg.mods, r \in Rows : body = wrote(i, r)
  <2> HIDE DEF wrote
  <2> QED
    OBVIOUS
<1>15. body \in turned => body = [cfg EXCEPT !.mods = Reverse(@)]
  BY Zenon
<1>16. body \in moved => \E a \in Assets, add \in adds : body = put(a, add)
  <2> HIDE DEF put, adds
  <2> QED
    OBVIOUS
<1>17. body \in fielded => \E f \in DOMAIN Values : body \in set(f)
  BY Zenon
<1>18. \A f \in DOMAIN Values : body \in set(f) => \E v \in Values[f] : body = [cfg EXCEPT !.fields[f] = v]
  BY Zenon
<1> HIDE DEF added, dropped, written, turned, moved, set, fielded
<1> QED
  BY <1>5, <1>6, <1>7, <1>8, <1>9, <1>10, <1>11, <1>12, <1>13, <1>14, <1>15, <1>16, <1>17, <1>18

\* The fill stores rows again: the authored ones with what they need, its own
\* after them.
LEMMA FilledConfig ==
    ASSUME NEW body \in Configs, IsFiniteSet(body.assets), NEW libs \in Libraries
    PROVE  FillDependencies(body, libs) \in Configs /\ IsFiniteSet(FillDependencies(body, libs).assets)
<1> DEFINE own == AuthoredRows(body)
           filled == [n \in DOMAIN own |-> [own[n] EXCEPT !.display = Needing(@, libs)]]
<1>1. own \in Seq(ModDecls)
  BY AuthoredRowsOf DEF Configs
<1>2. IsFiniteSet(libs) /\ libs \subseteq ModDecls
  BY LibrariesAssumption
<1>3. {l.file : l \in libs} \in SUBSET Files
  BY <1>2 DEF ModDecls
<1>4. ASSUME NEW display \in Displays PROVE Needing(display, libs) \in Displays
  <2>1. AuthoredDisplay(display) \in Notes \cup {None}
    BY DEF AuthoredDisplay, Displays
  <2> QED
    BY <1>3, <2>1 DEF Needing, Displays
<1>5. ASSUME NEW m \in ModDecls PROVE [m EXCEPT !.display = Needing(@, libs)] \in ModDecls
  <2>1. Needing(m.display, libs) \in Displays
    BY <1>4 DEF ModDecls
  <2> QED
    BY <2>1 DEF ModDecls
<1>6. FillDependencies(body, libs) = [body EXCEPT !.mods = filled \o SetToSeq(libs)]
  BY DEF FillDependencies
<1> HIDE DEF own
<1>7. filled \in Seq(ModDecls)
  <2>1. DOMAIN own = 1..Len(own) /\ Len(own) \in Nat /\ \A n \in DOMAIN own : own[n] \in ModDecls
    BY <1>1
  <2>2. \A n \in 1..Len(own) : filled[n] \in ModDecls
    BY <1>5, <2>1
  <2> QED
    BY <2>1, <2>2
<1> HIDE DEF filled
<1>8. SetToSeq(libs) \in Seq(ModDecls)
  <2>1. SetToSeq(libs) \in Seq(libs)
    BY <1>2, SetToSeqOf
  <2> QED
    BY <1>2, <2>1
<1>9. filled \o SetToSeq(libs) \in Seq(ModDecls)
  BY <1>7, <1>8
<1> QED
  BY <1>6, <1>9 DEF Configs

\* A build made of a config a save accepts.
LEMMA ManifestSound ==
    ASSUME NEW cfg, Sound(cfg)
    PROVE  BuildSound(Manifest(cfg))
<1>1. cfg.mods \in Seq(ModDecls)
  BY DEF Sound, Configs
<1>2. \A m \in Range(cfg.mods) : m.file \in Files
  <2>1. \A i \in DOMAIN cfg.mods : cfg.mods[i] \in ModDecls
    BY <1>1
  <2> QED
    BY <2>1 DEF Range, ModDecls
<1>3. \A m, n \in Range(cfg.mods) : m.file = n.file => m = n
  BY <1>1 DEF Range, Sound, Distinct
<1>4. \A a, b \in cfg.assets : a.dest = b.dest => a = b
  BY DEF Sound, Distinct
<1>5. \A e \in Manifest(cfg).mods : e.file \in Files /\ e.sha = Pin(e.source)
  BY <1>2 DEF Manifest
<1>6. \A e, o \in Manifest(cfg).mods : e.file = o.file => e = o
  BY <1>3 DEF Manifest
<1>7. \A a, b \in Manifest(cfg).assets : a.dest = b.dest => a = b
  BY <1>4 DEF Manifest
<1> QED
  BY <1>5, <1>6, <1>7 DEF BuildSound

\* The histories the program makes are of such configs and builds.
THEOREM HistoryIsSound == Spec => []HistorySound
<1>1. Init => HistorySound
  BY StartsAssumption DEF Init, HistorySound, Sound
<1>2. HistorySound /\ [Next]_vars => HistorySound'
  <2> SUFFICES ASSUME HistorySound, [Next]_vars PROVE HistorySound'
    OBVIOUS
  <2>1. ASSUME NEW body \in Edited(live), NEW libs \in Libraries, Save(body, libs) PROVE HistorySound'
    <3>1. body \in Configs /\ IsFiniteSet(body.assets)
      BY EditedConfig DEF HistorySound, Sound
    <3>2. Sound(live')
      BY <2>1, <3>1, FilledConfig DEF Save, Sound
    <3> QED
      BY <2>1, <3>2 DEF Save, HistorySound
  <2>2. ASSUME SetVisibility PROVE HistorySound'
    <3>1. live' \in Configs /\ live'.assets = live.assets /\ live'.mods = live.mods
      BY <2>2 DEF SetVisibility, HistorySound, Sound, Configs
    <3>2. Sound(live')
      BY <3>1 DEF HistorySound, Sound, Distinct
    <3> QED
      BY <2>2, <3>2 DEF SetVisibility, HistorySound
  <2>3. ASSUME CreateCommit PROVE HistorySound'
    BY <2>3 DEF CreateCommit, HistorySound
  <2>4. ASSUME Damage PROVE HistorySound'
    <3>1. PICK meta, snap \in BOOLEAN : head' = [head EXCEPT !.meta = @ /\ meta, !.snap = @ /\ snap]
      BY <2>4 DEF Damage
    <3>2. head # None /\ Sound(head.config) /\ head.rev = EditRev(head.config) /\ {"config", "rev"} \subseteq DOMAIN head
      BY <2>4 DEF Damage, HistorySound
    <3>3. head'.config = head.config /\ head'.rev = head.rev /\ DOMAIN head' = DOMAIN head
      BY <3>1, <3>2
    <3> QED
      BY <2>4, <3>2, <3>3 DEF Damage, HistorySound
  <2>5. ASSUME Publish PROVE HistorySound'
    <3>1. Sound(head.config)
      BY <2>5 DEF Publish, MayPublish, HistorySound
    <3>2. BuildSound(latest')
      BY <2>5, <3>1, ManifestSound DEF Publish
    <3> QED
      BY <2>5, <3>2 DEF Publish, HistorySound
  <2>6. ASSUME UNCHANGED vars PROVE HistorySound'
    BY <2>6 DEF vars, HistorySound
  <2> QED
    BY <2>1, <2>2, <2>3, <2>4, <2>5, <2>6 DEF Next
<1> QED
  BY <1>1, <1>2, PTL DEF Spec

\* commit_status and the build gate answer alike, and a pack they call clean
\* renders as its checkpoint does.
THEOREM StatusAndGateAgree == Spec => []StatusMatchesGate
<1>1. HistorySound => StatusMatchesGate
  <2> SUFFICES ASSUME HistorySound PROVE StatusMatchesGate
    OBVIOUS
  <2>0. Cardinality({}) = 0 /\ Cardinality({WholeConfig}) = 1
    BY FS_EmptySet, FS_Singleton
  <2>1. CASE head = None
    BY <2>1 DEF StatusMatchesGate, CommitStatus, Uncommitted, Snapshot
  <2>2. CASE head # None
    <3> DEFINE diff == DiffConfigs(head.config, live)
    <3>1. Sound(live) /\ Sound(head.config) /\ head.rev = EditRev(head.config)
      BY <2>2 DEF HistorySound
    <3>2. head.config # None
      BY <3>1, NoneAssumption DEF Sound
    <3>3. IsFiniteSet(diff) /\ (diff = {} => Rendered(head.config) = Rendered(live))
      BY <3>1, DiffEmpty
    <3>4. EditRev(live) = head.rev => diff = {} /\ Rendered(head.config) = Rendered(live)
      BY <3>1, SameRevision
    <3>5. Cardinality(diff) = 0 => diff = {}
      BY <3>3, FS_EmptySet
    <3>6. head.snap => Snapshot = head.config /\ Uncommitted(Snapshot, live) = Cardinality(diff)
      BY <2>2, <3>2 DEF Snapshot, Uncommitted
    <3>7. CommitStatus.uncommitted =
            IF head.meta /\ EditRev(live) = head.rev THEN 0 ELSE IF head.snap THEN Cardinality(diff) ELSE 1
      BY <2>0, <2>2 DEF CommitStatus
    <3> HIDE DEF diff
    <3> QED
      BY <2>0, <2>2, <3>3, <3>4, <3>5, <3>6, <3>7 DEF StatusMatchesGate
  <2> QED
    BY <2>1, <2>2
<1> QED
  BY <1>1, HistoryIsSound, PTL

-----------------------------------------------------------------------------
(* The diff against what a person did *)

\* Beside no rows at all, every row is an arrival.
LEMMA ListedNew ==
    ASSUME NEW was, NEW now, NEW seenWas, NEW seenNow, NEW moved, NEW departure, NEW arrival,
           Rowwise(was, now, seenWas, seenNow, moved, departure, arrival), DOMAIN was = {}
    PROVE  Cardinality(Listed(was, now, moved, departure, arrival)) = Cardinality(DOMAIN now)
<1> DEFINE P == Pairs(was, now)
           f == [k \in DOMAIN now |-> arrival[k]]
<1>1. Keyed(was) /\ Keyed(now)
  BY DEF Rowwise
<1>2. P = {}
  BY DEF Pairs, Unmatched
<1>3. Departed(was, now, P) = {} /\ Arrived(was, now, P) = DOMAIN now
  <2>1. {Keys[i] : i \in Unmatched(now, was)} = DOMAIN now \ DOMAIN was
    BY <1>1, UnmatchedKeys
  <2>2. Arrived(was, now, P) = {Keys[i] : i \in Unmatched(now, was)}
    BY <1>2 DEF Arrived
  <2>3. Departed(was, now, P) = {}
    BY DEF Departed, Unmatched
  <2> QED
    BY <2>1, <2>2, <2>3
<1>4. Listed(was, now, moved, departure, arrival) = {f[k] : k \in DOMAIN now}
  BY <1>2, <1>3 DEF Listed
<1>5. DOMAIN f = DOMAIN now /\ \A j, k \in DOMAIN now : f[j] = f[k] => j = k
  BY DEF Rowwise
<1> HIDE DEF f
<1> QED
  BY <1>1, <1>4, <1>5, ImageSize DEF Keyed

\* A first commit lists each row of the config once.
LEMMA InitialCounts ==
    ASSUME NEW cfg, Sound(cfg)
    PROVE  Cardinality(Initial(cfg)) = Len(AuthoredRows(cfg)) + Cardinality(cfg.assets)
<1> DEFINE none == [cfg EXCEPT !.mods = <<>>, !.assets = {}]
           mods == ModRows(none, cfg)
           assets == AssetRows(none, cfg)
<1>1. none.mods = <<>> /\ none.assets = {} /\ none.fields = cfg.fields /\ none \in Configs
  <2>1. <<>> \in Seq(ModDecls) /\ {} \in SUBSET Assets
    OBVIOUS
  <2>2. \A m \in Seq(ModDecls), a \in SUBSET Assets :
          LET c == [cfg EXCEPT !.mods = m, !.assets = a]
          IN  c.mods = m /\ c.assets = a /\ c.fields = cfg.fields /\ c \in Configs
    BY DEF Sound, Configs
  <2> QED
    BY <2>1, <2>2
<1>2. Initial(cfg) = DiffConfigs(none, cfg)
  BY DEF Initial
<1> HIDE DEF none
<1>3. Sound(none)
  BY <1>1, FS_EmptySet DEF Sound, Distinct
<1>4. PackRows(none, cfg) = {}
  BY <1>1, PackRowsTell DEF Rendered
<1>5. Cardinality(mods) = Len(AuthoredRows(cfg))
  <2>1. DOMAIN AuthoredMods(none) = {}
    <3>1. none.mods \in Seq(ModDecls)
      BY <1>3 DEF Sound, Configs
    <3>2. PICK at \in [DOMAIN AuthoredRows(none) -> DOMAIN none.mods] : TRUE
      BY <3>1, AuthoredRowsOf
    <3>3. DOMAIN AuthoredRows(none) = {}
      <4>1. \A n \in DOMAIN AuthoredRows(none) : at[n] \in DOMAIN none.mods
        BY <3>2
      <4>2. DOMAIN none.mods = {}
        BY <1>1
      <4> QED
        BY <4>1, <4>2
    <3>4. DOMAIN AuthoredMods(none) = {KeyAt(AuthoredRows(none), i) : i \in DOMAIN AuthoredRows(none)}
      BY <1>3, KeyedMods DEF Sound, Configs
    <3> QED
      BY <3>3, <3>4
  <2>2. Cardinality(DOMAIN AuthoredMods(cfg)) = Len(AuthoredRows(cfg))
    BY KeyedMods DEF Sound, Configs
  <2> QED
    BY <1>3, <2>1, <2>2, ModRowwise, ListedNew
<1>6. Cardinality(assets) = Cardinality(cfg.assets)
  <2>1. DOMAIN AuthoredAssets(none) = {}
    BY <1>1 DEF AuthoredAssets
  <2>2. Cardinality(DOMAIN AuthoredAssets(cfg)) = Cardinality(cfg.assets)
    BY KeyedAssets DEF Sound, Configs
  <2> QED
    BY <1>3, <2>1, <2>2, AssetRowwise, ListedNew
<1>7. IsFiniteSet(mods) /\ IsFiniteSet(assets)
  BY <1>3, ModsTell, AssetsTell
<1>8. mods \cap assets = {}
  <2>1. (\A c \in mods : c.group = "mods") /\ (\A c \in assets : c.group = "assets")
    BY <1>3, ModRowwise, AssetRowwise
  <2> QED
    BY <2>1
<1>9. Initial(cfg) = mods \cup assets
  BY <1>2, <1>4 DEF DiffConfigs
<1> HIDE DEF mods, assets
<1>10. Cardinality(mods) \in Nat /\ Cardinality(assets) \in Nat /\ Cardinality(mods \cap assets) = 0
  BY <1>7, <1>8, FS_CardinalityType, FS_EmptySet
<1>11. Cardinality(mods \cup assets) = Cardinality(mods) + Cardinality(assets) - Cardinality(mods \cap assets)
  BY <1>7, FS_Union
<1> QED
  BY <1>5, <1>6, <1>9, <1>10, <1>11

\* Rows with identities of their own are keyed by them.
LEMMA KeyedByIdentity ==
    ASSUME NEW cfg, Sound(cfg),
           \A i, j \in DOMAIN AuthoredRows(cfg) :
              Identity(AuthoredRows(cfg)[i]) = Identity(AuthoredRows(cfg)[j]) => i = j
    PROVE  /\ DOMAIN AuthoredMods(cfg) = {Identity(AuthoredRows(cfg)[i]) : i \in DOMAIN AuthoredRows(cfg)}
           /\ \A i \in DOMAIN AuthoredRows(cfg) :
                AuthoredMods(cfg)[Identity(AuthoredRows(cfg)[i])] = AuthoredRows(cfg)[i]
<1> DEFINE rows == AuthoredRows(cfg)
           map == AuthoredMods(cfg)
<1>1. rows \in Seq(ModDecls)
  BY AuthoredRowsOf DEF Sound, Configs
<1>2. DOMAIN map = {KeyAt(rows, i) : i \in DOMAIN rows} /\ \A i \in DOMAIN rows : map[KeyAt(rows, i)] = rows[i]
  BY KeyedMods DEF Sound, Configs
<1> HIDE DEF rows, map
<1>3. ASSUME NEW i \in DOMAIN rows PROVE KeyAt(rows, i) = Identity(rows[i])
  <2>1. \A j \in 1..(i - 1) : j \in DOMAIN rows /\ j # i
    BY <1>1
  <2>2. \A j \in 1..(i - 1) : Identity(rows[j]) # Identity(rows[i])
    BY <2>1 DEF rows
  <2> QED
    BY <2>2 DEF KeyAt
<1>4. DOMAIN map = {Identity(rows[i]) : i \in DOMAIN rows} /\ \A i \in DOMAIN rows : map[Identity(rows[i])] = rows[i]
  BY <1>2, <1>3
<1> QED
  BY <1>4 DEF rows, map

\* Two configs that render alike, the rows of one of them with
\* identities of their own, hold the same under the same keys.
LEMMA SameKeys ==
    ASSUME NEW before, NEW after, Sound(before), Sound(after), Rendered(before) = Rendered(after),
           KeyedApart(Range(AuthoredRows(after)), Identity)
    PROVE  SeenMods(AuthoredMods(before)) = SeenMods(AuthoredMods(after))
<1> DEFINE old == AuthoredRows(before)
           new == AuthoredRows(after)
           was == AuthoredMods(before)
           now == AuthoredMods(after)
<1>1. /\ old \in Seq(ModDecls) /\ new \in Seq(ModDecls)
      /\ \A i, j \in DOMAIN old : old[i].file = old[j].file => i = j
      /\ \A i, j \in DOMAIN new : new[i].file = new[j].file => i = j
  BY AuthoredRowsOf, FilesApart DEF Sound, Configs
<1>2. {SeenMod(m) : m \in Range(old)} = {SeenMod(m) : m \in Range(new)}
  BY DEF Rendered, Authored, SeenMod
<1>3. \A x, y \in Range(new) : Identity(x) = Identity(y) => x = y
  BY DEF KeyedApart
<1> HIDE DEF old, new
<1>4. \A i \in DOMAIN old : old[i] \in ModDecls /\ old[i] \in Range(old)
  BY <1>1 DEF Range
<1>5. \A i \in DOMAIN new : new[i] \in ModDecls /\ new[i] \in Range(new)
  BY <1>1 DEF Range
<1>6. ASSUME NEW i \in DOMAIN old PROVE \E n \in DOMAIN new : SeenMod(old[i]) = SeenMod(new[n])
  <2>1. SeenMod(old[i]) \in {SeenMod(m) : m \in Range(new)}
    BY <1>2, <1>4
  <2> QED
    BY <2>1 DEF Range
<1>7. ASSUME NEW n \in DOMAIN new PROVE \E i \in DOMAIN old : SeenMod(old[i]) = SeenMod(new[n])
  <2>1. SeenMod(new[n]) \in {SeenMod(m) : m \in Range(old)}
    BY <1>2, <1>5
  <2> QED
    BY <2>1 DEF Range
<1>8. \A m, n \in ModDecls : SeenMod(m) = SeenMod(n) => m.file = n.file /\ Identity(m) = Identity(n)
  BY DEF SeenMod, ModDecls, Identity
<1>9. ASSUME NEW i \in DOMAIN new, NEW j \in DOMAIN new, Identity(new[i]) = Identity(new[j]) PROVE i = j
  BY <1>1, <1>3, <1>5, <1>9
<1>10. ASSUME NEW i \in DOMAIN old, NEW j \in DOMAIN old, Identity(old[i]) = Identity(old[j]) PROVE i = j
  <2>1. PICK m \in DOMAIN new : SeenMod(old[i]) = SeenMod(new[m])
    BY <1>6
  <2>2. PICK n \in DOMAIN new : SeenMod(old[j]) = SeenMod(new[n])
    BY <1>6
  <2>3. /\ old[i].file = new[m].file /\ Identity(old[i]) = Identity(new[m])
        /\ old[j].file = new[n].file /\ Identity(old[j]) = Identity(new[n])
    BY <1>4, <1>5, <1>8, <2>1, <2>2
  <2>4. m = n
    BY <1>9, <1>10, <2>3
  <2> QED
    BY <1>1, <2>3, <2>4
<1>11. DOMAIN was = {Identity(old[i]) : i \in DOMAIN old} /\ \A i \in DOMAIN old : was[Identity(old[i])] = old[i]
  BY <1>10, KeyedByIdentity DEF old
<1>12. DOMAIN now = {Identity(new[i]) : i \in DOMAIN new} /\ \A i \in DOMAIN new : now[Identity(new[i])] = new[i]
  BY <1>9, KeyedByIdentity DEF new
<1> HIDE DEF was, now
<1>13. ASSUME NEW i \in DOMAIN old
       PROVE  Identity(old[i]) \in DOMAIN now /\ SeenMod(now[Identity(old[i])]) = SeenMod(old[i])
  <2>1. PICK n \in DOMAIN new : SeenMod(old[i]) = SeenMod(new[n])
    BY <1>6
  <2>2. Identity(old[i]) = Identity(new[n])
    BY <1>4, <1>5, <1>8, <2>1
  <2> QED
    BY <1>12, <2>1, <2>2
<1>14. ASSUME NEW n \in DOMAIN new PROVE Identity(new[n]) \in DOMAIN was
  <2>1. PICK i \in DOMAIN old : SeenMod(old[i]) = SeenMod(new[n])
    BY <1>7
  <2>2. Identity(old[i]) = Identity(new[n])
    BY <1>4, <1>5, <1>8, <2>1
  <2> QED
    BY <1>11, <2>2
<1>15. DOMAIN was = DOMAIN now /\ \A k \in DOMAIN was : SeenMod(was[k]) = SeenMod(now[k])
  BY <1>11, <1>12, <1>13, <1>14
<1>16. SeenMods(was) = SeenMods(now)
  BY <1>15 DEF SeenMods
<1> QED
  BY <1>16 DEF was, now

\* The same of assets, which have paths of their own.
LEMMA SameAssets ==
    ASSUME NEW before, NEW after, Sound(before), Sound(after), Rendered(before) = Rendered(after)
    PROVE  SeenAssets(AuthoredAssets(before)) = SeenAssets(AuthoredAssets(after))
<1> DEFINE was == AuthoredAssets(before)
           now == AuthoredAssets(after)
<1>1. {SeenAsset(a) : a \in before.assets} = {SeenAsset(a) : a \in after.assets}
  BY DEF Rendered, SeenAsset
<1>2. /\ DOMAIN was = {<<"a", a.dest>> : a \in before.assets} /\ \A a \in before.assets : was[<<"a", a.dest>>] = a
      /\ DOMAIN now = {<<"a", a.dest>> : a \in after.assets} /\ \A a \in after.assets : now[<<"a", a.dest>>] = a
  BY KeyedAssets DEF Sound, Configs
<1>3. \A a \in before.assets \cup after.assets : a \in AssetDecls
  BY RowsAssumption DEF Sound, Configs
<1>4. \A a, b \in AssetDecls : SeenAsset(a) = SeenAsset(b) => a.dest = b.dest
  BY DEF SeenAsset, AssetDecls
<1> HIDE DEF was, now
<1>5. ASSUME NEW a \in before.assets
      PROVE  <<"a", a.dest>> \in DOMAIN now /\ SeenAsset(now[<<"a", a.dest>>]) = SeenAsset(a)
  <2>1. SeenAsset(a) \in {SeenAsset(b) : b \in after.assets}
    BY <1>1
  <2>2. PICK b \in after.assets : SeenAsset(a) = SeenAsset(b)
    BY <2>1
  <2> QED
    BY <1>2, <1>3, <1>4, <2>2
<1>6. ASSUME NEW b \in after.assets PROVE <<"a", b.dest>> \in DOMAIN was
  <2>1. SeenAsset(b) \in {SeenAsset(a) : a \in before.assets}
    BY <1>1
  <2>2. PICK a \in before.assets : SeenAsset(a) = SeenAsset(b)
    BY <2>1
  <2> QED
    BY <1>2, <1>3, <1>4, <2>2
<1>7. DOMAIN was = DOMAIN now /\ \A k \in DOMAIN was : SeenAsset(was[k]) = SeenAsset(now[k])
  BY <1>2, <1>5, <1>6
<1>8. SeenAssets(was) = SeenAssets(now)
  BY <1>7 DEF SeenAssets
<1> QED
  BY <1>8 DEF was, now

\* The commit box says what a person did since the checkpoint, as far as its rows
\* can show it: everything, once, and nothing else.
THEOREM DiffsTell == Spec => []DiffTells
<1>1. HistorySound => DiffTells
  <2> SUFFICES ASSUME HistorySound PROVE DiffTells
    OBVIOUS
  <2> DEFINE before == Rendered(Snapshot)
             after == Rendered(live)
             diff == DiffConfigs(Snapshot, live)
             of(group) == {c \in diff : c.group = group}
  <2>1. Cardinality(Initial(live)) = Len(AuthoredRows(live)) + Cardinality(live.assets)
    BY InitialCounts DEF HistorySound
  <2>2. ASSUME Snapshot # None
        PROVE  /\ diff = {} => before = after
               /\ before = after /\ KeyedApart(Range(AuthoredRows(live)), Identity) => diff = {}
               /\ Accounts(of("mods"), before.mods \ after.mods, after.mods \ before.mods, LAMBDA m : m.file)
               /\ Accounts(of("assets"), before.assets \ after.assets, after.assets \ before.assets, LAMBDA a : a.dest)
    <3>1. Sound(Snapshot) /\ Sound(live)
      BY <2>2 DEF HistorySound, Snapshot
    <3>2. diff = {} => before = after
      BY <3>1, DiffEmpty
    <3>3. ASSUME before = after, KeyedApart(Range(AuthoredRows(live)), Identity) PROVE diff = {}
      <4>1. SeenMods(AuthoredMods(Snapshot)) = SeenMods(AuthoredMods(live))
        BY <3>1, <3>3, SameKeys
      <4>2. SeenAssets(AuthoredAssets(Snapshot)) = SeenAssets(AuthoredAssets(live))
        BY <3>1, <3>3, SameAssets
      <4>3. ModRows(Snapshot, live) = {} /\ AssetRows(Snapshot, live) = {}
        BY <3>1, <4>1, <4>2, ModsTell, AssetsTell
      <4>5. PackRows(Snapshot, live) = {}
        BY <3>3, PackRowsTell
      <4> QED
        BY <4>3, <4>5 DEF DiffConfigs
    <3>4. of("mods") = ModRows(Snapshot, live) /\ of("assets") = AssetRows(Snapshot, live)
      <4>1. /\ \A c \in PackRows(Snapshot, live) : c.group = "pack"
            /\ \A c \in ModRows(Snapshot, live) : c.group = "mods"
            /\ \A c \in AssetRows(Snapshot, live) : c.group = "assets"
        BY <3>1, PackRowsTell, ModRowwise, AssetRowwise
      <4> QED
        BY <4>1 DEF DiffConfigs
    <3> HIDE DEF before, after, diff, of
    <3>5. Accounts(of("mods"), before.mods \ after.mods, after.mods \ before.mods, LAMBDA m : m.file)
      BY <3>1, <3>4, ModsTell DEF before, after
    <3>6. Accounts(of("assets"), before.assets \ after.assets, after.assets \ before.assets, LAMBDA a : a.dest)
      BY <3>1, <3>4, AssetsTell DEF before, after
    <3> QED
      BY <3>2, <3>3, <3>5, <3>6
  <2> HIDE DEF before, after, diff, of
  <2> QED
    BY <2>1, <2>2 DEF DiffTells, before, after, diff, of
<1> QED
  BY <1>1, HistoryIsSound, PTL

-----------------------------------------------------------------------------
(* The diff of two builds *)

\* What stands for an entry in the older build is the one entry of its identity.
LEMMA OlderOf ==
    ASSUME NEW from, NEW e, NEW o \in from, ManifestIdentity(o) = ManifestIdentity(e), o.file \in Files,
           KeyedApart(from, ManifestIdentity), \A x, y \in from : x.file = y.file => x = y
    PROVE  Older(from, e) = o
<1> DEFINE named == {i \in DOMAIN Keys : \E x \in from : Keys[i] = <<"f", x.file>> /\ ManifestIdentity(x) = ManifestIdentity(e)}
<1>1. DOMAIN Keys \subseteq Nat
  BY KeysAssumption
<1>2. \A x \in from : ManifestIdentity(x) = ManifestIdentity(e) => x = o
  BY DEF KeyedApart
<1>3. named = {i \in DOMAIN Keys : Keys[i] = <<"f", o.file>>}
  BY <1>2
<1>4. PICK i \in DOMAIN Keys : Keys[i] = <<"f", o.file>>
  <2>1. <<"f", o.file>> \in Range(Keys)
    BY KeysAssumption
  <2> QED
    BY <2>1 DEF Range
<1>5. named = {i}
  BY <1>3, <1>4, KeysAssumption
<1>6. Older(from, e) = CHOOSE x \in from : \E j \in named : Keys[j] = <<"f", x.file>> /\ \A k \in named : k <= j
  BY DEF Older
<1> HIDE DEF named
<1>7. \A x \in from : (\E j \in named : Keys[j] = <<"f", x.file>> /\ \A k \in named : k <= j) <=> x = o
  <2>1. i <= i
    BY <1>1
  <2>2. \A x : <<"f", x>> = <<"f", o.file>> => x = o.file
    OBVIOUS
  <2> QED
    BY <1>4, <1>5, <2>1, <2>2
<1> QED
  BY <1>6, <1>7

\* diff_manifests of two such builds, entry by entry.
LEMMA ToldOf ==
    ASSUME NEW from, NEW to, BuildSound(from), BuildSound(to),
           KeyedApart(from.mods, ManifestIdentity), KeyedApart(to.mods, ManifestIdentity)
    PROVE  Told(from, to, ManifestIdentity)
<1> DEFINE diff == DiffManifests(from, to)
           both == {e \in to.mods : \E o \in from.mods : ManifestIdentity(o) = ManifestIdentity(e)}
           old(e) == Older(from.mods, e)
           shas(entries) == {e.sha : e \in entries}
           origins(entries) == {<<e.file, e.slug, e.source>> : e \in entries}
           dests(assets) == {a.dest : a \in assets}
<1>1. /\ \A e \in from.mods : e.file \in Files /\ e.sha = Pin(e.source)
      /\ \A e, o \in from.mods : e.file = o.file => e = o
      /\ \A a, b \in from.assets : a.dest = b.dest => a = b
      /\ \A e \in to.mods : e.file \in Files /\ e.sha = Pin(e.source)
      /\ \A e, o \in to.mods : e.file = o.file => e = o
      /\ \A a, b \in to.assets : a.dest = b.dest => a = b
  BY DEF BuildSound
<1>2. ASSUME NEW e \in to.mods, NEW o \in from.mods, ManifestIdentity(o) = ManifestIdentity(e)
      PROVE  e \in both /\ old(e) = o
  BY <1>1, <1>2, OlderOf
<1>3. ASSUME NEW e \in both PROVE e \in to.mods /\ old(e) \in from.mods /\ ManifestIdentity(old(e)) = ManifestIdentity(e)
  <2>1. PICK o \in from.mods : ManifestIdentity(o) = ManifestIdentity(e)
    OBVIOUS
  <2> QED
    BY <1>2, <2>1
<1>4. \A e \in to.mods : e \in both <=> \E o \in from.mods : ManifestIdentity(o) = ManifestIdentity(e)
  OBVIOUS
<1>5. /\ diff.changed = (ContentFingerprint(from) # ContentFingerprint(to))
      /\ diff.bumps = Bumps(from, to)
      /\ diff.added = {e.file : e \in to.mods \ both}
      /\ diff.removed = Removed(from.mods, to.mods)
      /\ diff.updated = {[file |-> e.file, from |-> old(e).sha, to |-> e.sha] : e \in {x \in both : old(x).sha # x.sha}}
      /\ diff.toggled = {e.file : e \in {x \in both : old(x).sha = x.sha /\ old(x).on # x.on}}
      /\ diff.assetsAdded = dests(to.assets) \ dests(from.assets)
      /\ diff.assetsRemoved = dests(from.assets) \ dests(to.assets)
      /\ diff.assetsUpdated = {a.dest : a \in {x \in to.assets : \E o \in from.assets : o.dest = x.dest /\ o.sha # x.sha}}
  BY DEF DiffManifests
<1> HIDE DEF diff, both, old
<1>6. ASSUME NEW e \in to.mods, e.sha \notin shas(from.mods)
      PROVE  e.file \in diff.added \cup {u.file : u \in diff.updated}
  <2>1. CASE e \in both
    <3>1. [file |-> e.file, from |-> old(e).sha, to |-> e.sha] \in diff.updated
      BY <1>3, <1>5, <1>6, <2>1
    <3>2. [file |-> e.file, from |-> old(e).sha, to |-> e.sha].file = e.file
      OBVIOUS
    <3> QED
      BY <3>1, <3>2
  <2>2. CASE e \notin both
    BY <1>5, <2>2
  <2> QED
    BY <2>1, <2>2
<1>7. ASSUME NEW e \in from.mods, e.sha \notin shas(to.mods)
      PROVE  e.file \in diff.removed \/ \E u \in diff.updated : u.from = e.sha
  <2>1. CASE \E o \in to.mods : ManifestIdentity(o) = ManifestIdentity(e)
    <3>1. PICK o \in to.mods : ManifestIdentity(o) = ManifestIdentity(e)
      BY <2>1
    <3>2. o \in both /\ old(o) = e
      BY <1>2, <3>1
    <3>3. [file |-> o.file, from |-> old(o).sha, to |-> o.sha] \in diff.updated
      BY <1>5, <1>7, <3>1, <3>2
    <3>4. [file |-> o.file, from |-> old(o).sha, to |-> o.sha].from = e.sha
      BY <3>2
    <3> QED
      BY <3>3, <3>4
  <2>2. CASE \A o \in to.mods : ManifestIdentity(o) # ManifestIdentity(e)
    BY <1>5, <2>2 DEF Removed
  <2> QED
    BY <2>1, <2>2
<1>8. ASSUME NEW e \in to.mods, NEW o \in from.mods, e.source = o.source, e.slug = o.slug, e.file = o.file
      PROVE  e \in both /\ old(e) = o /\ old(e).sha = e.sha
  <2>1. ManifestIdentity(o) = ManifestIdentity(e)
    BY <1>8 DEF ManifestIdentity
  <2> QED
    BY <1>1, <1>2, <1>8, <2>1
<1>9. ASSUME NEW p \in Flips(from, to, ManifestIdentity)
      PROVE  \/ p[1].sha = p[2].sha /\ p[2].file \in diff.toggled
             \/ \E u \in diff.updated : u.file = p[2].file /\ u.from = p[1].sha /\ u.to = p[2].sha
  <2>1. p[1] \in from.mods /\ p[2] \in to.mods /\ ManifestIdentity(p[1]) = ManifestIdentity(p[2]) /\ p[1].on # p[2].on
    BY DEF Flips
  <2>2. p[2] \in both /\ old(p[2]) = p[1]
    BY <1>2, <2>1
  <2>3. CASE p[1].sha = p[2].sha
    BY <1>5, <2>1, <2>2, <2>3
  <2>4. CASE p[1].sha # p[2].sha
    <3> DEFINE u == [file |-> p[2].file, from |-> old(p[2]).sha, to |-> p[2].sha]
    <3>1. u \in diff.updated
      BY <1>5, <2>2, <2>4
    <3>2. u.file = p[2].file /\ u.from = p[1].sha /\ u.to = p[2].sha
      BY <2>2
    <3> QED
      BY <3>1, <3>2
  <2> QED
    BY <2>3, <2>4
<1>10. ASSUME NEW a \in to.assets
       PROVE  \/ a.dest \in diff.assetsAdded \cup diff.assetsUpdated
              \/ \E o \in from.assets : o.dest = a.dest /\ o.sha = a.sha
  <2>1. a.dest \in dests(to.assets)
    OBVIOUS
  <2>2. a.dest \in dests(from.assets) => \E o \in from.assets : o.dest = a.dest
    OBVIOUS
  <2> QED
    BY <1>5, <2>1, <2>2
<1>11. \A a \in from.assets : a.dest \in diff.assetsRemoved \/ \E b \in to.assets : b.dest = a.dest
  BY <1>5
<1>12. ASSUME ~diff.changed, origins(from.mods) = origins(to.mods)
       PROVE  diff.added \cup diff.removed \cup diff.updated \cup diff.toggled \cup diff.bumps
                \cup diff.assetsAdded \cup diff.assetsRemoved \cup diff.assetsUpdated = {}
  <2>1. /\ from.loader = to.loader /\ from.minecraft = to.minecraft /\ from.java = to.java /\ from.assets = to.assets
        /\ {<<x.file, x.sha, x.on>> : x \in from.mods} = {<<x.file, x.sha, x.on>> : x \in to.mods}
    BY <1>5, <1>12 DEF ContentFingerprint
  <2>2. \A e \in to.mods : \E o \in from.mods : o.file = e.file /\ o.sha = e.sha /\ o.on = e.on
    <3> SUFFICES ASSUME NEW e \in to.mods PROVE \E o \in from.mods : o.file = e.file /\ o.sha = e.sha /\ o.on = e.on
      OBVIOUS
    <3>1. <<e.file, e.sha, e.on>> \in {<<x.file, x.sha, x.on>> : x \in to.mods}
      OBVIOUS
    <3>2. <<e.file, e.sha, e.on>> \in {<<x.file, x.sha, x.on>> : x \in from.mods}
      BY <2>1, <3>1
    <3>3. PICK o \in from.mods : <<e.file, e.sha, e.on>> = <<o.file, o.sha, o.on>>
      BY <3>2
    <3> QED
      BY <3>3
  <2>3. \A e \in to.mods : \E o \in from.mods : o.file = e.file /\ o.slug = e.slug /\ o.source = e.source
    <3> SUFFICES ASSUME NEW e \in to.mods PROVE \E o \in from.mods : o.file = e.file /\ o.slug = e.slug /\ o.source = e.source
      OBVIOUS
    <3>1. <<e.file, e.slug, e.source>> \in {<<x.file, x.slug, x.source>> : x \in to.mods}
      OBVIOUS
    <3>2. <<e.file, e.slug, e.source>> \in {<<x.file, x.slug, x.source>> : x \in from.mods}
      BY <1>12, <3>1
    <3>3. PICK o \in from.mods : <<e.file, e.slug, e.source>> = <<o.file, o.slug, o.source>>
      BY <3>2
    <3> QED
      BY <3>3
  <2>4. \A o \in from.mods : \E e \in to.mods : o.file = e.file /\ o.slug = e.slug /\ o.source = e.source
    <3> SUFFICES ASSUME NEW o \in from.mods PROVE \E e \in to.mods : o.file = e.file /\ o.slug = e.slug /\ o.source = e.source
      OBVIOUS
    <3>1. <<o.file, o.slug, o.source>> \in {<<x.file, x.slug, x.source>> : x \in from.mods}
      OBVIOUS
    <3>2. <<o.file, o.slug, o.source>> \in {<<x.file, x.slug, x.source>> : x \in to.mods}
      BY <1>12, <3>1
    <3>3. PICK e \in to.mods : <<o.file, o.slug, o.source>> = <<e.file, e.slug, e.source>>
      BY <3>2
    <3> QED
      BY <3>3
  <2>5. \A e \in to.mods : e \in both /\ old(e).sha = e.sha /\ old(e).on = e.on
    BY <1>1, <1>8, <2>2, <2>3
  <2>6. \A o \in from.mods : \E e \in to.mods : ManifestIdentity(e) = ManifestIdentity(o)
    BY <2>4 DEF ManifestIdentity
  <2>7. diff.added = {} /\ diff.updated = {} /\ diff.toggled = {}
    <3>1. \A e \in both : e \in to.mods
      BY <1>3
    <3> QED
      BY <1>5, <2>5, <3>1
  <2>8. diff.removed = {}
    BY <1>5, <2>6 DEF Removed
  <2>9. diff.bumps = {} /\ diff.assetsAdded = {} /\ diff.assetsRemoved = {}
    BY <1>5, <2>1 DEF Bumps
  <2>10. diff.assetsUpdated = {}
    BY <1>1, <1>5, <2>1
  <2> QED
    BY <2>7, <2>8, <2>9, <2>10
<1> QED
  BY <1>6, <1>7, <1>9, <1>10, <1>11, <1>12 DEF Told, diff

\* A launcher is told of everything it has to fetch or drop, and of every default
\* that flipped on a jar that stayed.
THEOREM LaunchersAreTold == Spec => []LauncherTold
<1>1. HistorySound => LauncherTold
  BY ToldOf DEF HistorySound, LauncherTold
<1> QED
  BY <1>1, HistoryIsSound, PTL
=============================================================================
