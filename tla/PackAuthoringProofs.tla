------------------------ MODULE PackAuthoringProofs -------------------------
(***************************************************************************)
(* Proofs about PackAuthoring for every number of slots, users, edits,     *)
(* documents and commits: its types, and what the commit history, the      *)
(* saves and the document promise.  A theorem names the operations it      *)
(* excludes: delete_pack takes no lock and forgets no document,            *)
(* run_bootstrap writes config.json with no lock.                          *)
(***************************************************************************)
EXTENDS PackAuthoring, TLAPS

AnyConfig == Config \cup {NoConfig}
Content == SUBSET (Edits \cup Rows)
Points == Waiting \cup Locked
Preconditions == {"none", "any", "rev"}

----------------------------------------------------------------------------
(* The locals a handler carries from one program point to the next *)

\* A slot with nothing pending holds a well-typed record.
LEMMA NoLocalType == NoLocal \in Local
BY ConstantsOK DEF NoLocal, Local, AllOps, NoConfig, Cfg, NoMeta, Meta

\* Updating the config a handler carries keeps its record well typed.
LEMMA CarryConfig ==
    ASSUME NEW l \in Local, NEW c \in AnyConfig, NEW f \in BOOLEAN
    PROVE  /\ [l EXCEPT !.cfg = c] \in Local
           /\ [l EXCEPT !.cfg = c, !.fill = f] \in Local
BY DEF Local, AnyConfig

\* Updating the document a handler carries does, too,
LEMMA CarryDoc ==
    ASSUME NEW l \in Local, NEW d \in 0..MaxDocs
    PROVE  /\ [l EXCEPT !.doc = d] \in Local
           /\ \A c \in AnyConfig : [l EXCEPT !.doc = d, !.cfg = c] \in Local
BY DEF Local, AnyConfig

\* or its ticket,
LEMMA CarryTicket ==
    ASSUME NEW l \in Local, NEW d \in 0..MaxDocs, NEW t \in Nat
    PROVE  /\ [l EXCEPT !.tick = t, !.home = d] \in Local
           /\ [l EXCEPT !.doc = d, !.tick = t] \in Local
BY DEF Local

\* or the commit it is writing.
LEMMA CarryCommit ==
    ASSUME NEW l \in Local, NEW c \in 0..MaxCommits, NEW m \in Meta
    PROVE  [l EXCEPT !.cid = c, !.meta = m] \in Local
BY DEF Local

\* The record each request starts with is well typed, whatever it carries.
LEMMA StartPlain ==
    ASSUME NEW o \in AllOps, NEW u \in Users, NEW c \in AnyConfig
    PROVE  [NoLocal EXCEPT !.op = o, !.by = u, !.cfg = c] \in Local
<1> DEFINE l == NoLocal
<1>1. l \in Local BY NoLocalType
<1> HIDE DEF l
<1>2. [l EXCEPT !.op = o, !.by = u, !.cfg = c] \in Local
  BY <1>1 DEF Local, AnyConfig
<1> QED BY <1>2 DEF l

\* The record of a visibility toggle.
LEMMA StartVis ==
    ASSUME NEW o \in AllOps, NEW c \in AnyConfig
    PROVE  [NoLocal EXCEPT !.op = o, !.cfg = c] \in Local
<1> DEFINE l == NoLocal
<1>1. l \in Local BY NoLocalType
<1> HIDE DEF l
<1>2. [l EXCEPT !.op = o, !.cfg = c] \in Local
  BY <1>1 DEF Local, AnyConfig
<1> QED BY <1>2 DEF l

\* Of a merge or a duplication.
LEMMA StartEdit ==
    ASSUME NEW o \in AllOps, NEW u \in Users, NEW es \in SUBSET Edits,
           NEW c \in AnyConfig
    PROVE  /\ [NoLocal EXCEPT !.op = o, !.by = u, !.edit = es, !.cfg = c] \in Local
           /\ [NoLocal EXCEPT !.op = o, !.edit = es, !.cfg = c] \in Local
<1> DEFINE l == NoLocal
<1>1. l \in Local BY NoLocalType
<1> HIDE DEF l
<1>2. /\ [l EXCEPT !.op = o, !.by = u, !.edit = es, !.cfg = c] \in Local
      /\ [l EXCEPT !.op = o, !.edit = es, !.cfg = c] \in Local
  BY <1>1 DEF Local, AnyConfig
<1> QED BY <1>2 DEF l

\* Of a save.
LEMMA StartPut ==
    ASSUME NEW u \in Users, NEW es \in SUBSET Edits, NEW pre \in Preconditions,
           NEW r \in Content, NEW c \in AnyConfig
    PROVE  [NoLocal EXCEPT !.op = "put", !.by = u, !.edit = es, !.pre = pre,
                           !.rev = r, !.cfg = c] \in Local
<1> DEFINE l == NoLocal
<1>1. l \in Local BY NoLocalType
<1> HIDE DEF l
<1>2. [l EXCEPT !.op = "put", !.by = u, !.edit = es, !.pre = pre, !.rev = r,
                !.cfg = c] \in Local
  BY <1>1 DEF Local, AnyConfig, Content, Preconditions, AllOps
<1> QED BY <1>2 DEF l

\* Of a document update.
LEMMA StartPost ==
    ASSUME NEW u \in Users, NEW es \in SUBSET Edits, NEW d \in 0..MaxDocs
    PROVE  [NoLocal EXCEPT !.op = "post", !.by = u, !.edit = es, !.home = d] \in Local
<1> DEFINE l == NoLocal
<1>1. l \in Local BY NoLocalType
<1> HIDE DEF l
<1>2. [l EXCEPT !.op = "post", !.by = u, !.edit = es, !.home = d] \in Local
  BY <1>1 DEF Local, AllOps
<1> QED BY <1>2 DEF l

\* Of a commit.
LEMMA StartCommit ==
    ASSUME NEW u \in Users, NEW c \in AnyConfig, NEW id \in 0..MaxCommits, NEW m \in Meta
    PROVE  [NoLocal EXCEPT !.op = "commit", !.by = u, !.cfg = c, !.cid = id,
                           !.meta = m] \in Local
<1> DEFINE l == NoLocal
<1>1. l \in Local BY NoLocalType
<1> HIDE DEF l
<1>2. [l EXCEPT !.op = "commit", !.by = u, !.cfg = c, !.cid = id, !.meta = m] \in Local
  BY <1>1 DEF Local, AnyConfig, AllOps
<1> QED BY <1>2 DEF l

\* Moving a slot to a program point with a well-typed record keeps pc and loc typed.
LEMMA GotoType ==
    ASSUME TypeOK, NEW p \in Slots, NEW point \in Points, NEW l \in Local,
           Goto(p, point, l)
    PROVE  pc' \in [Slots -> Points] /\ loc' \in [Slots -> Local]
BY DEF TypeOK, Goto, Points

\* Ending a handler does, too.
LEMMA FinishType ==
    ASSUME TypeOK, NEW p \in Slots, Finish(p)
    PROVE  pc' \in [Slots -> Points] /\ loc' \in [Slots -> Local]
BY GotoType, NoLocalType DEF Finish, Points, Waiting

----------------------------------------------------------------------------
(* Configs *)

\* A config is what its three parts are.
LEMMA CfgType ==
    ASSUME NEW b \in Content, NEW r \in SUBSET Rows, NEW v \in Vis
    PROVE  Cfg(b, r, v) \in Config
BY DEF Cfg, Config, Content

\* A stored config, or the absence of one, has typed content; only the absence
\* has no visibility.
LEMMA ConfigParts ==
    ASSUME NEW c \in AnyConfig
    PROVE  /\ c.body \in Content
           /\ c.pulled \in SUBSET Rows
           /\ c # NoConfig => c \in Config /\ c.vis \in Vis
           /\ c = NoConfig => c.vis = None
BY DEF AnyConfig, Config, NoConfig, Cfg, Content

\* merge_pulled takes a config to a config.
LEMMA MergePulledType ==
    ASSUME NEW s \in AnyConfig, NEW c \in Config
    PROVE  MergePulled(s, c) \in Config
<1>1. s.pulled \in SUBSET Rows BY ConfigParts
<1>2. c.body \in Content /\ c.pulled \in SUBSET Rows /\ c.vis \in Vis
  BY DEF Config, Content
<1> QED BY <1>1, <1>2, CfgType DEF MergePulled

\* A config keeps its type under the visibility it is given.
LEMMA WithVisType ==
    ASSUME NEW c \in AnyConfig, NEW v \in Vis
    PROVE  WithVis(c, v) \in Config
BY ConfigParts, CfgType DEF WithVis

\* What put_pack_config is about to store is always a config.
LEMMA PutConfigType ==
    ASSUME TypeOK, NEW l \in Local
    PROVE  PutConfig(l) \in Config
<1>1. l.cfg \in AnyConfig BY DEF Local, AnyConfig
<1>2. file \in AnyConfig BY DEF TypeOK, AnyConfig
<1>3. CASE file # NoConfig
  <2>1. WithVis(l.cfg, file.vis) \in Config BY <1>1, <1>2, <1>3, ConfigParts, WithVisType
  <2> QED BY <2>1, <1>2, <1>3, MergePulledType DEF PutConfig
<1>4. CASE file = NoConfig
  BY <1>1, <1>4, WithVisType, ConstantsOK DEF PutConfig
<1> QED BY <1>3, <1>4

\* What materialise is about to store is a config while one is on disk.
LEMMA MaterialisedType ==
    ASSUME TypeOK, live # 0, file # NoConfig
    PROVE  Materialised \in Config
<1>1. file \in AnyConfig /\ live \in DocIds
  BY ConstantsOK DEF TypeOK, AnyConfig, DocIds
<1>2. docs[live].body \in Content /\ docs[live].pulled \in SUBSET Rows
  BY <1>1 DEF TypeOK, Content
<1>3. Cfg(docs[live].body, docs[live].pulled, file.vis) \in Config
  BY <1>1, <1>2, ConfigParts, CfgType
<1> QED BY <1>1, <1>3, MergePulledType DEF Materialised

\* Whatever the fill does, a config stays a config.
LEMMA FilledType ==
    ASSUME NEW l \in Local, l.cfg \in Config, NEW c \in Filled(l)
    PROVE  c \in Config
<1>1. l.cfg.body \in Content /\ l.cfg.vis \in Vis BY DEF Config, Content
<1>2. CASE c = l.cfg BY <1>2
<1>3. CASE c # l.cfg
  <2>1. PICK rows \in SUBSET (Rows \ l.cfg.body) : c = Cfg(l.cfg.body, rows, l.cfg.vis)
    BY <1>3 DEF Filled
  <2> QED BY <1>1, <2>1, CfgType
<1> QED BY <1>2, <1>3

----------------------------------------------------------------------------
(* The inductive invariant behind TypeOK *)

\* What a slot at point pt with locals l may rely on: inside the lock it is the
\* holder and carries a real config; the login and the document it will index by
\* are set wherever they are used.
SlotOK(p, pt, l, holder) ==
    /\ pt \in Locked => holder = p /\ l.cfg \in Config
    /\ pt \in (Locked \ {"store"}) \cup {"seed", "apply", "debounce"} => l.by \in Users
    /\ pt = "enter" /\ l.op # "visibility" => l.by \in Users
    /\ pt = "enter" /\ l.op \in {"restore", "revert", "visibility"} => l.cfg \in Config
    /\ pt = "patch" => l.op = "visibility" /\ l.cfg \in Config
    /\ pt \in {"seed", "apply", "debounce"} => l.op \in {"join", "post"}
    /\ pt = "apply" => l.doc \in DocIds
    /\ pt \in {"snapshot", "meta", "head", "clear"} => l.cid \in CommitIds

SlotInv == \A q \in Slots : SlotOK(q, pc[q], loc[q], lock)

TypeInv == TypeOK /\ SlotInv

\* A step of slot p that takes, keeps or returns the lock leaves every other
\* slot's part of the invariant alone.
LEMMA SlotStep ==
    ASSUME TypeOK, SlotInv, NEW p \in Slots, NEW pt \in Points, NEW l \in Local,
           Goto(p, pt, l), lock' = lock \/ lock = None \/ lock = p,
           SlotOK(p, pt, l, lock')
    PROVE  SlotInv'
<1> SUFFICES ASSUME NEW q \in Slots PROVE SlotOK(q, pc'[q], loc'[q], lock')
  BY DEF SlotInv
<1>1. CASE q = p
  BY <1>1 DEF TypeOK, Goto
<1>2. CASE q # p
  <2>1. pc'[q] = pc[q] /\ loc'[q] = loc[q] BY <1>2 DEF TypeOK, Goto
  <2>2. SlotOK(q, pc[q], loc[q], lock) BY DEF SlotInv
  <2>3. pc[q] \in Locked => lock = q BY <2>2 DEF SlotOK
  <2>4. None # q BY ConstantsOK
  <2>5. pc[q] \in Locked => lock' = q BY <2>3, <2>4, <1>2
  <2> QED BY <2>1, <2>2, <2>5 DEF SlotOK
<1> QED BY <1>1, <1>2

\* A slot that ends its handler relies on nothing.
LEMMA SlotFinish ==
    ASSUME TypeOK, SlotInv, NEW p \in Slots, Finish(p),
           lock' = lock \/ lock = None \/ lock = p
    PROVE  SlotInv'
<1>1. SlotOK(p, "idle", NoLocal, lock') BY DEF SlotOK, Locked
<1> QED BY <1>1, SlotStep, NoLocalType DEF Finish, Points, Waiting

\* The lock is taken when free and returned by its holder.
LEMMA LockMoves ==
    ASSUME NEW p, Acquire(p) \/ Release(p)
    PROVE  lock' = lock \/ lock = None \/ lock = p
BY DEF Acquire, Release

\* Both halves of the invariant for a step that sends slot p to pt with locals R.
LEMMA Move ==
    ASSUME TypeInv, NEW p \in Slots, NEW pt \in Points, NEW R \in Local,
           Goto(p, pt, R), lock' = lock \/ lock = None \/ lock = p,
           SlotOK(p, pt, R, lock')
    PROVE  pc' \in [Slots -> Points] /\ loc' \in [Slots -> Local] /\ SlotInv'
BY GotoType, SlotStep DEF TypeInv

\* The same for a step that ends the handler.
LEMMA MoveIdle ==
    ASSUME TypeInv, NEW p \in Slots, Finish(p),
           lock' = lock \/ lock = None \/ lock = p
    PROVE  pc' \in [Slots -> Points] /\ loc' \in [Slots -> Local] /\ SlotInv'
BY FinishType, SlotFinish DEF TypeInv

----------------------------------------------------------------------------
(* Requests: the first step of each handler *)

\* PutRead keeps the invariant.
LEMMA TypePutRead ==
    ASSUME TypeInv, NEW p \in Slots, PutRead(p)
    PROVE  TypeInv'
<1>0. file.body \in Content /\ file.pulled \in SUBSET Rows
  BY ConfigParts DEF TypeInv, TypeOK, AnyConfig
<1>1. PICK u \in Users, e \in Fresh, pre \in Preconditions, v \in Vis :
        /\ Goto(p, "enter",
              [NoLocal EXCEPT !.op = "put", !.by = u, !.edit = {e}, !.pre = pre,
                              !.rev = IF pre = "rev" THEN EditRev(file) ELSE {},
                              !.cfg = Cfg(file.body \cup {e}, file.pulled, v)])
        /\ author' = [author EXCEPT ![e] = u]
  BY DEF PutRead, Preconditions
<1> DEFINE r == IF pre = "rev" THEN EditRev(file) ELSE {}
           c == Cfg(file.body \cup {e}, file.pulled, v)
           R == [NoLocal EXCEPT !.op = "put", !.by = u, !.edit = {e}, !.pre = pre,
                                !.rev = r, !.cfg = c]
<1>2. e \in Edits BY DEF Fresh
<1>3. r \in Content BY <1>0 DEF EditRev, Content
<1>4. c \in AnyConfig
  <2>1. file.body \cup {e} \in Content BY <1>0, <1>2 DEF Content
  <2> QED BY <2>1, <1>0, CfgType DEF AnyConfig
<1>5. Goto(p, "enter", R) BY <1>1
<1> HIDE DEF r, c
<1>6. R \in Local BY <1>2, <1>3, <1>4, StartPut
<1>7. R.op = "put" /\ R.by = u BY DEF NoLocal
<1> HIDE DEF R
<1>8. SlotOK(p, "enter", R, lock') BY <1>7 DEF SlotOK, Locked
<1>9. pc' \in [Slots -> Points] /\ loc' \in [Slots -> Local] /\ SlotInv'
  <2>1. lock' = lock /\ "enter" \in Points BY DEF PutRead, Points, Waiting
  <2> QED BY <1>5, <1>6, <1>8, <2>1, Move
<1>10. author' \in [Edits -> Users \cup {None}] BY <1>1 DEF TypeInv, TypeOK
<1> QED BY <1>9, <1>10 DEF PutRead, TypeInv, TypeOK, disk, memory, Points

\* JoinLoad keeps the invariant.
LEMMA TypeJoinLoad ==
    ASSUME TypeInv, NEW p \in Slots, JoinLoad(p)
    PROVE  TypeInv'
<1>1. PICK u \in Users :
        Goto(p, "seed", [NoLocal EXCEPT !.op = "join", !.by = u, !.cfg = file])
  BY DEF JoinLoad
<1> DEFINE R == [NoLocal EXCEPT !.op = "join", !.by = u, !.cfg = file]
<1>2. R \in Local
  <2>1. file \in AnyConfig /\ "join" \in AllOps BY DEF TypeInv, TypeOK, AnyConfig, AllOps
  <2> QED BY <2>1, StartPlain
<1>3. R.op = "join" /\ R.by = u BY DEF NoLocal
<1>4. Goto(p, "seed", R) BY <1>1
<1> HIDE DEF R
<1>5. SlotOK(p, "seed", R, lock') BY <1>3 DEF SlotOK, Locked
<1>6. pc' \in [Slots -> Points] /\ loc' \in [Slots -> Local] /\ SlotInv'
  <2>1. lock' = lock /\ "seed" \in Points BY DEF JoinLoad, Points, Waiting
  <2> QED BY <1>2, <1>4, <1>5, <2>1, Move
<1> QED BY <1>6 DEF JoinLoad, TypeInv, TypeOK, disk, memory, people, Points

\* PostGet keeps the invariant.
LEMMA TypePostGet ==
    ASSUME TypeInv, NEW p \in Slots, PostGet(p)
    PROVE  TypeInv'
<1>1. PICK u \in Users, e \in Fresh :
        /\ LET l == [NoLocal EXCEPT !.op = "post", !.by = u, !.edit = {e},
                                    !.home = seat[u]]
           IN  IF live # 0
               THEN Goto(p, "apply", [l EXCEPT !.doc = live])
               ELSE Goto(p, "seed", [l EXCEPT !.cfg = file])
        /\ author' = [author EXCEPT ![e] = u]
  BY DEF PostGet
<1> DEFINE l == [NoLocal EXCEPT !.op = "post", !.by = u, !.edit = {e}, !.home = seat[u]]
<1>2. e \in Edits BY DEF Fresh
<1>3. l \in Local
  <2>1. seat[u] \in 0..MaxDocs /\ {e} \in SUBSET Edits BY <1>2 DEF TypeInv, TypeOK
  <2> QED BY <2>1, StartPost
<1>4. l.op = "post" /\ l.by = u BY DEF NoLocal
<1>5. live \in 0..MaxDocs /\ file \in AnyConfig BY DEF TypeInv, TypeOK, AnyConfig
<1>6. IF live # 0 THEN Goto(p, "apply", [l EXCEPT !.doc = live])
                  ELSE Goto(p, "seed", [l EXCEPT !.cfg = file])
  BY <1>1
<1> HIDE DEF l
<1>7. lock' = lock /\ "seed" \in Points /\ "apply" \in Points
  BY DEF PostGet, Points, Waiting
<1>8. pc' \in [Slots -> Points] /\ loc' \in [Slots -> Local] /\ SlotInv'
  <2>1. CASE live # 0
    <3> DEFINE R == [l EXCEPT !.doc = live]
    <3>1. R \in Local BY <1>3, <1>5, CarryDoc
    <3>2. R.op = "post" /\ R.by = u /\ R.doc = live BY <1>3, <1>4 DEF Local
    <3>3. live \in DocIds BY <1>5, <2>1, ConstantsOK DEF DocIds
    <3>4. Goto(p, "apply", R) BY <1>6, <2>1
    <3> HIDE DEF R
    <3>5. SlotOK(p, "apply", R, lock') BY <3>2, <3>3 DEF SlotOK, Locked
    <3> QED BY <3>1, <3>4, <3>5, <1>7, Move
  <2>2. CASE live = 0
    <3> DEFINE R == [l EXCEPT !.cfg = file]
    <3>1. R \in Local BY <1>3, <1>5, CarryConfig
    <3>2. R.op = "post" /\ R.by = u BY <1>3, <1>4 DEF Local
    <3>3. Goto(p, "seed", R) BY <1>6, <2>2
    <3> HIDE DEF R
    <3>4. SlotOK(p, "seed", R, lock') BY <3>2 DEF SlotOK, Locked
    <3> QED BY <3>1, <3>3, <3>4, <1>7, Move
  <2> QED BY <2>1, <2>2
<1>9. author' \in [Edits -> Users \cup {None}] BY <1>1 DEF TypeInv, TypeOK
<1> QED BY <1>8, <1>9 DEF PostGet, TypeInv, TypeOK, disk, memory, Points

\* CommitEnter keeps the invariant.
LEMMA TypeCommitEnter ==
    ASSUME TypeInv, NEW p \in Slots, CommitEnter(p)
    PROVE  TypeInv'
<1>1. PICK u \in Users :
        Goto(p, "snapshot",
             [NoLocal EXCEPT !.op = "commit", !.by = u, !.cfg = file,
                             !.cid = nextCommit,
                             !.meta = [parent |-> head, names |-> Contributors(u)]])
  BY DEF CommitEnter
<1> DEFINE m == [parent |-> head, names |-> Contributors(u)]
           R == [NoLocal EXCEPT !.op = "commit", !.by = u, !.cfg = file,
                                !.cid = nextCommit, !.meta = m]
<1>2. m \in Meta BY DEF TypeInv, TypeOK, Meta, Contributors
<1>3. file \in AnyConfig /\ file \in Config BY DEF CommitEnter, TypeInv, TypeOK, AnyConfig
<1>4. nextCommit \in CommitIds /\ nextCommit \in 0..MaxCommits
  BY ConstantsOK DEF CommitEnter, TypeInv, TypeOK, CommitIds
<1>5. Goto(p, "snapshot", R) BY <1>1
<1> HIDE DEF m
<1>6. R \in Local BY <1>2, <1>3, <1>4, StartCommit
<1>7. R.by = u /\ R.cfg = file /\ R.cid = nextCommit BY DEF NoLocal
<1> HIDE DEF R
<1>8. lock' = p /\ lock = None BY DEF CommitEnter, Acquire
<1>9. SlotOK(p, "snapshot", R, lock') BY <1>3, <1>4, <1>7, <1>8 DEF SlotOK
<1>10. pc' \in [Slots -> Points] /\ loc' \in [Slots -> Local] /\ SlotInv'
  <2>1. "snapshot" \in Points BY DEF Points, Locked
  <2> QED BY <1>5, <1>6, <1>8, <1>9, <2>1, Move
<1>11. nextCommit' \in 1..(MaxCommits + 1)
  BY ConstantsOK DEF CommitEnter, TypeInv, TypeOK
<1> QED BY <1>8, <1>10, <1>11 DEF CommitEnter, TypeInv, TypeOK, disk, memory, people, Points

\* RestoreLoad keeps the invariant.
LEMMA TypeRestoreLoad ==
    ASSUME TypeInv, NEW p \in Slots, RestoreLoad(p)
    PROVE  TypeInv'
<1>1. PICK u \in Users, c \in CommitIds :
        /\ snaps[c] # NoConfig
        /\ Goto(p, "enter",
                [NoLocal EXCEPT !.op = "restore", !.by = u, !.cfg = snaps[c]])
  BY DEF RestoreLoad
<1> DEFINE R == [NoLocal EXCEPT !.op = "restore", !.by = u, !.cfg = snaps[c]]
<1>2. snaps[c] \in AnyConfig /\ snaps[c] \in Config BY <1>1 DEF TypeInv, TypeOK, AnyConfig
<1>3. R \in Local
  <2>1. "restore" \in AllOps BY DEF AllOps
  <2> QED BY <1>2, <2>1, StartPlain
<1>4. R.op = "restore" /\ R.by = u /\ R.cfg = snaps[c] BY DEF NoLocal
<1>5. Goto(p, "enter", R) BY <1>1
<1> HIDE DEF R
<1>6. SlotOK(p, "enter", R, lock') BY <1>2, <1>4 DEF SlotOK, Locked
<1>7. pc' \in [Slots -> Points] /\ loc' \in [Slots -> Local] /\ SlotInv'
  <2>1. lock' = lock /\ "enter" \in Points BY DEF RestoreLoad, Points, Waiting
  <2> QED BY <1>3, <1>5, <1>6, <2>1, Move
<1> QED BY <1>7 DEF RestoreLoad, TypeInv, TypeOK, disk, memory, people, Points

\* RevertLoad keeps the invariant.
LEMMA TypeRevertLoad ==
    ASSUME TypeInv, NEW p \in Slots, RevertLoad(p)
    PROVE  TypeInv'
<1>1. PICK u \in Users :
        Goto(p, "enter",
             [NoLocal EXCEPT !.op = "revert", !.by = u, !.cfg = Reconstructed])
  BY DEF RevertLoad
<1> DEFINE R == [NoLocal EXCEPT !.op = "revert", !.by = u, !.cfg = Reconstructed]
<1>2. Reconstructed \in Config
  <2>1. released \in AnyConfig /\ summary \in Vis
    BY DEF RevertLoad, TypeInv, TypeOK, AnyConfig
  <2>2. released.body \cup released.pulled \in Content
    <3>1. released.body \in Content /\ released.pulled \in SUBSET Rows
      BY <2>1, ConfigParts
    <3> QED BY <3>1 DEF Content
  <2> QED BY <2>1, <2>2, CfgType DEF Reconstructed
<1>3. R \in Local
  <2>1. "revert" \in AllOps /\ Reconstructed \in AnyConfig BY <1>2 DEF AllOps, AnyConfig
  <2> QED BY <2>1, StartPlain
<1>4. R.op = "revert" /\ R.by = u /\ R.cfg = Reconstructed BY DEF NoLocal
<1>5. Goto(p, "enter", R) BY <1>1
<1> HIDE DEF R
<1>6. SlotOK(p, "enter", R, lock') BY <1>2, <1>4 DEF SlotOK, Locked
<1>7. pc' \in [Slots -> Points] /\ loc' \in [Slots -> Local] /\ SlotInv'
  <2>1. lock' = lock /\ "enter" \in Points BY DEF RevertLoad, Points, Waiting
  <2> QED BY <1>3, <1>5, <1>6, <2>1, Move
<1> QED BY <1>7 DEF RevertLoad, TypeInv, TypeOK, disk, memory, people, Points

\* MergeLoad keeps the invariant.
LEMMA TypeMergeLoad ==
    ASSUME TypeInv, NEW p \in Slots, MergeLoad(p)
    PROVE  TypeInv'
<1>1. PICK u \in Users, v \in Vis :
        Goto(p, "enter",
             [NoLocal EXCEPT !.op = "merge", !.by = u, !.edit = {Offer},
                             !.cfg = Cfg({Offer}, {}, v)])
  BY DEF MergeLoad
<1> DEFINE c == Cfg({Offer}, {}, v)
           R == [NoLocal EXCEPT !.op = "merge", !.by = u, !.edit = {Offer}, !.cfg = c]
<1>2. c \in AnyConfig
  <2>1. {Offer} \in Content /\ {} \in SUBSET Rows BY ConstantsOK DEF Content
  <2> QED BY <2>1, CfgType DEF AnyConfig
<1>3. Goto(p, "enter", R) BY <1>1
<1> HIDE DEF c
<1>4. R \in Local
  <2>1. "merge" \in AllOps /\ {Offer} \in SUBSET Edits BY ConstantsOK DEF AllOps
  <2> QED BY <1>2, <2>1, StartEdit
<1>5. R.op = "merge" /\ R.by = u BY DEF NoLocal
<1> HIDE DEF R
<1>6. SlotOK(p, "enter", R, lock') BY <1>5 DEF SlotOK, Locked
<1>7. pc' \in [Slots -> Points] /\ loc' \in [Slots -> Local] /\ SlotInv'
  <2>1. lock' = lock /\ "enter" \in Points BY DEF MergeLoad, Points, Waiting
  <2> QED BY <1>3, <1>4, <1>6, <2>1, Move
<1> QED BY <1>7 DEF MergeLoad, TypeInv, TypeOK, disk, memory, people, Points

\* VisLoad keeps the invariant.
LEMMA TypeVisLoad ==
    ASSUME TypeInv, NEW p \in Slots, VisLoad(p)
    PROVE  TypeInv'
<1>1. PICK v \in Vis :
        Goto(p, IF summary = None THEN "enter" ELSE "patch",
             [NoLocal EXCEPT !.op = "visibility", !.cfg = Cfg({}, {}, v)])
  BY DEF VisLoad
<1> DEFINE c == Cfg({}, {}, v)
           R == [NoLocal EXCEPT !.op = "visibility", !.cfg = c]
           pt == IF summary = None THEN "enter" ELSE "patch"
<1>2. c \in Config
  <2>1. {} \in Content /\ {} \in SUBSET Rows BY DEF Content
  <2> QED BY <2>1, CfgType
<1>3. Goto(p, pt, R) BY <1>1
<1> HIDE DEF c
<1>4. R.op = "visibility" /\ R.cfg = c BY DEF NoLocal
<1>5. R \in Local
  <2>1. "visibility" \in AllOps /\ c \in AnyConfig BY <1>2 DEF AllOps, AnyConfig
  <2> QED BY <2>1, StartVis
<1> HIDE DEF R
<1>6. pt \in {"enter", "patch"} OBVIOUS
<1> HIDE DEF pt
<1>7. SlotOK(p, pt, R, lock') BY <1>2, <1>4, <1>6 DEF SlotOK, Locked
<1>8. pc' \in [Slots -> Points] /\ loc' \in [Slots -> Local] /\ SlotInv'
  <2>1. lock' = lock /\ pt \in Points BY <1>6 DEF VisLoad, Points, Waiting
  <2> QED BY <1>3, <1>5, <1>7, <2>1, Move
<1> QED BY <1>8 DEF VisLoad, TypeInv, TypeOK, disk, memory, people, Points

\* DuplicateEnter keeps the invariant.
LEMMA TypeDuplicateEnter ==
    ASSUME TypeInv, NEW p \in Slots, DuplicateEnter(p)
    PROVE  TypeInv'
<1>1. PICK e \in Fresh, u \in Users :
        /\ Goto(p, "store", [NoLocal EXCEPT !.op = "duplicate", !.edit = {e},
                               !.cfg = Cfg({e}, {}, Draft)])
        /\ author' = [author EXCEPT ![e] = u]
  BY DEF DuplicateEnter
<1> DEFINE c == Cfg({e}, {}, Draft)
           R == [NoLocal EXCEPT !.op = "duplicate", !.edit = {e}, !.cfg = c]
<1>2. e \in Edits BY DEF Fresh
<1>3. c \in Config
  <2>1. {e} \in Content /\ {} \in SUBSET Rows BY <1>2 DEF Content
  <2> QED BY <2>1, CfgType, ConstantsOK
<1>4. Goto(p, "store", R) BY <1>1
<1> HIDE DEF c
<1>5. R \in Local
  <2>1. "duplicate" \in AllOps /\ {e} \in SUBSET Edits /\ c \in AnyConfig
    BY <1>2, <1>3 DEF AllOps, AnyConfig
  <2> QED BY <2>1, StartEdit
<1>6. R.cfg = c BY DEF NoLocal
<1> HIDE DEF R
<1>7. lock' = p /\ lock = None BY DEF DuplicateEnter, Acquire
<1>8. SlotOK(p, "store", R, lock') BY <1>3, <1>6, <1>7 DEF SlotOK
<1>9. pc' \in [Slots -> Points] /\ loc' \in [Slots -> Local] /\ SlotInv'
  <2>1. "store" \in Points BY DEF Points, Locked
  <2> QED BY <1>4, <1>5, <1>7, <1>8, <2>1, Move
<1>10. author' \in [Edits -> Users \cup {None}] BY <1>1 DEF TypeInv, TypeOK
<1> QED BY <1>7, <1>9, <1>10 DEF DuplicateEnter, TypeInv, TypeOK, disk, memory, Points

----------------------------------------------------------------------------
(* Steps: the later points of each handler *)

\* What the invariant says of slot p where it stands.
LEMMA AtSlot ==
    ASSUME TypeInv, NEW p \in Slots
    PROVE  /\ loc[p] \in Local /\ pc[p] \in Points
           /\ SlotOK(p, pc[p], loc[p], lock)
           /\ loc[p].cfg \in AnyConfig
           /\ file \in AnyConfig
BY DEF TypeInv, TypeOK, SlotInv, Points, Local, AnyConfig

\* PutEnter keeps the invariant.
LEMMA TypePutEnter ==
    ASSUME TypeInv, NEW p \in Slots, PutEnter(p)
    PROVE  TypeInv'
<1> DEFINE c == PutConfig(loc[p])
           f == FillNeeded(file, c)
           R == [loc[p] EXCEPT !.cfg = c, !.fill = f]
<1>1. loc[p] \in Local /\ SlotOK(p, "enter", loc[p], lock) /\ loc[p].op = "put"
  BY AtSlot DEF PutEnter
<1>2. c \in Config /\ c \in AnyConfig BY <1>1, PutConfigType DEF TypeInv, AnyConfig
<1>3. f \in BOOLEAN BY DEF FillNeeded
<1>4. Goto(p, "save", R) BY DEF PutEnter
<1>5. lock' = p /\ lock = None BY DEF PutEnter, Acquire
<1> HIDE DEF c, f
<1>6. R \in Local BY <1>1, <1>2, <1>3, CarryConfig
<1>7. R.cfg = c /\ R.by = loc[p].by BY <1>1 DEF Local
<1>8. loc[p].by \in Users BY <1>1 DEF SlotOK
<1> HIDE DEF R
<1>9. SlotOK(p, "save", R, lock') BY <1>2, <1>5, <1>7, <1>8 DEF SlotOK
<1>10. pc' \in [Slots -> Points] /\ loc' \in [Slots -> Local] /\ SlotInv'
  <2>1. "save" \in Points BY DEF Points, Locked
  <2> QED BY <1>4, <1>5, <1>6, <1>9, <2>1, Move
<1>11. live' \in 0..MaxDocs BY ConstantsOK DEF PutEnter
<1> QED BY <1>5, <1>10, <1>11 DEF PutEnter, TypeInv, TypeOK, disk, people, Points

\* Save keeps the invariant.
LEMMA TypeSave ==
    ASSUME TypeInv, NEW p \in Slots, Save(p)
    PROVE  TypeInv'
<1>1. PICK c \in Filled(loc[p]) :
        file' = c /\ Goto(p, "note", [loc[p] EXCEPT !.cfg = c])
  BY DEF Save
<1>2. loc[p] \in Local /\ SlotOK(p, "save", loc[p], lock) BY AtSlot DEF Save
<1>3. loc[p].cfg \in Config /\ loc[p].by \in Users BY <1>2 DEF SlotOK, Locked
<1>4. c \in Config /\ c \in AnyConfig BY <1>1, <1>2, <1>3, FilledType DEF AnyConfig
<1> DEFINE R == [loc[p] EXCEPT !.cfg = c]
<1>5. R \in Local BY <1>2, <1>4, CarryConfig
<1>6. R.cfg = c /\ R.by = loc[p].by BY <1>2 DEF Local
<1>7. Goto(p, "note", R) BY <1>1
<1> HIDE DEF R
<1>8. lock' = lock /\ lock = p BY DEF Save
<1>9. SlotOK(p, "note", R, lock') BY <1>3, <1>4, <1>6, <1>8 DEF SlotOK
<1>10. pc' \in [Slots -> Points] /\ loc' \in [Slots -> Local] /\ SlotInv'
  <2>1. "note" \in Points BY DEF Points, Locked
  <2> QED BY <1>5, <1>7, <1>8, <1>9, <2>1, Move
<1>11. file' \in Config \cup {NoConfig} BY <1>1, <1>4
<1> QED BY <1>10, <1>11 DEF Save, TypeInv, TypeOK, history, memory, people, Points

\* Note keeps the invariant.
LEMMA TypeNote ==
    ASSUME TypeInv, NEW p \in Slots, Note(p)
    PROVE  TypeInv'
<1>1. loc[p] \in Local /\ SlotOK(p, "note", loc[p], lock) BY AtSlot DEF Note
<1>2. loc[p].cfg \in Config /\ loc[p].by \in Users BY <1>1 DEF SlotOK, Locked
<1>3. lock = p BY DEF Note
<1>4. pc' \in [Slots -> Points] /\ loc' \in [Slots -> Local] /\ SlotInv'
  <2>1. CASE Goto(p, "checkpoint", loc[p]) /\ UNCHANGED lock
    <3>1. SlotOK(p, "checkpoint", loc[p], lock') BY <1>2, <1>3, <2>1 DEF SlotOK
    <3>2. "checkpoint" \in Points BY DEF Points, Locked
    <3> QED BY <1>1, <2>1, <3>1, <3>2, Move
  <2>2. CASE Finish(p) /\ Release(p)
    BY <1>3, <2>2, MoveIdle
  <2> QED BY <2>1, <2>2 DEF Note
<1>5. pending' \subseteq Users BY <1>2 DEF Note, TypeInv, TypeOK
<1>6. lock' \in Slots \cup {None} BY DEF Note, Release, TypeInv, TypeOK
<1> QED BY <1>4, <1>5, <1>6 DEF Note, TypeInv, TypeOK, memory, people, Points

\* get_or_seed leaves a registered, well-typed document.
LEMMA SeedType ==
    ASSUME TypeOK, NEW c \in AnyConfig, GetOrSeed(c)
    PROVE  /\ live' \in DocIds
           /\ docs' \in [DocIds -> [body : SUBSET (Edits \cup Rows), pulled : SUBSET Rows]]
           /\ nextDoc' \in 1..(MaxDocs + 1)
<1>1. c.body \in Content /\ c.pulled \in SUBSET Rows BY ConfigParts
<1>2. live \in 0..MaxDocs /\ nextDoc \in 1..(MaxDocs + 1) /\ MaxDocs \in Nat
  BY ConstantsOK DEF TypeOK
<1>3. CASE live # 0 /\ UNCHANGED <<live, docs, nextDoc>>
  BY <1>2, <1>3 DEF TypeOK, DocIds
<1>4. CASE /\ live = 0 /\ nextDoc <= MaxDocs
           /\ live' = nextDoc
           /\ docs' = [docs EXCEPT ![nextDoc] = [body |-> c.body, pulled |-> c.pulled]]
           /\ nextDoc' = nextDoc + 1
  <2>1. live' \in DocIds /\ nextDoc' \in 1..(MaxDocs + 1) BY <1>2, <1>4 DEF DocIds
  <2>2. [body |-> c.body, pulled |-> c.pulled]
            \in [body : SUBSET (Edits \cup Rows), pulled : SUBSET Rows]
    BY <1>1 DEF Content
  <2> QED BY <1>4, <2>1, <2>2 DEF TypeOK
<1> QED BY <1>3, <1>4 DEF GetOrSeed

\* JoinSeed keeps the invariant.
LEMMA TypeJoinSeed ==
    ASSUME TypeInv, NEW p \in Slots, JoinSeed(p)
    PROVE  TypeInv'
<1>1. loc[p].cfg \in AnyConfig BY AtSlot
<1>2. /\ live' \in DocIds
      /\ docs' \in [DocIds -> [body : SUBSET (Edits \cup Rows), pulled : SUBSET Rows]]
      /\ nextDoc' \in 1..(MaxDocs + 1)
  BY <1>1, SeedType DEF JoinSeed, TypeInv
<1>3. pc' \in [Slots -> Points] /\ loc' \in [Slots -> Local] /\ SlotInv'
  BY MoveIdle DEF JoinSeed
<1>4. live' \in 0..MaxDocs BY <1>2, ConstantsOK DEF DocIds
<1>5. seat' \in [Users -> 0..MaxDocs] BY <1>4 DEF JoinSeed, TypeInv, TypeOK
<1> QED BY <1>2, <1>3, <1>4, <1>5 DEF JoinSeed, TypeInv, TypeOK, disk, Points

\* PostSeed keeps the invariant.
LEMMA TypePostSeed ==
    ASSUME TypeInv, NEW p \in Slots, PostSeed(p)
    PROVE  TypeInv'
<1>1. /\ loc[p] \in Local /\ loc[p].cfg \in AnyConfig
      /\ SlotOK(p, "seed", loc[p], lock) /\ loc[p].op = "post"
  BY AtSlot DEF PostSeed
<1>2. /\ live' \in DocIds
      /\ docs' \in [DocIds -> [body : SUBSET (Edits \cup Rows), pulled : SUBSET Rows]]
      /\ nextDoc' \in 1..(MaxDocs + 1)
  BY <1>1, SeedType DEF PostSeed, TypeInv
<1>3. live' \in 0..MaxDocs BY <1>2, ConstantsOK DEF DocIds
<1>4. NoConfig \in AnyConfig BY DEF AnyConfig
<1> DEFINE d == live'
           R == [loc[p] EXCEPT !.doc = d, !.cfg = NoConfig]
<1>5. Goto(p, "apply", R) BY DEF PostSeed
<1>6. d \in 0..MaxDocs /\ d \in DocIds BY <1>2, <1>3
<1> HIDE DEF d
<1>7. R \in Local BY <1>1, <1>4, <1>6, CarryDoc
<1>8. R.op = "post" /\ R.by = loc[p].by /\ R.doc = d BY <1>1 DEF Local
<1>9. loc[p].by \in Users BY <1>1 DEF SlotOK
<1> HIDE DEF R
<1>10. SlotOK(p, "apply", R, lock') BY <1>6, <1>8, <1>9 DEF SlotOK, Locked
<1>11. pc' \in [Slots -> Points] /\ loc' \in [Slots -> Local] /\ SlotInv'
  <2>1. lock' = lock /\ "apply" \in Points BY DEF PostSeed, Points, Waiting
  <2> QED BY <1>5, <1>7, <1>10, <2>1, Move
<1> QED BY <1>2, <1>3, <1>11 DEF PostSeed, TypeInv, TypeOK, disk, people, Points

\* PostApply keeps the invariant.
LEMMA TypePostApply ==
    ASSUME TypeInv, NEW p \in Slots, PostApply(p)
    PROVE  TypeInv'
<1>1. loc[p] \in Local /\ SlotOK(p, "apply", loc[p], lock) BY AtSlot DEF PostApply
<1>2. loc[p].doc \in DocIds /\ loc[p].by \in Users /\ loc[p].op \in {"join", "post"}
  BY <1>1 DEF SlotOK
<1> DEFINE Docs == [body : SUBSET (Edits \cup Rows), pulled : SUBSET Rows]
<1>3. PICK d \in Applied(loc[p]) : docs' = [docs EXCEPT ![loc[p].doc] = d]
  BY DEF PostApply
<1>4. d \in Docs
  <2>1. docs[loc[p].doc] \in Docs BY <1>2 DEF TypeInv, TypeOK
  <2>2. loc[p].edit \subseteq Edits BY <1>1 DEF Local
  <2>3. [body |-> docs[loc[p].doc].body \cup loc[p].edit,
         pulled |-> docs[loc[p].doc].pulled] \in Docs
    BY <2>1, <2>2
  <2> QED BY <1>3, <2>1, <2>3 DEF Applied
<1>5. docs' \in [DocIds -> Docs] BY <1>3, <1>4 DEF TypeInv, TypeOK
<1>6. ticket + 1 \in Nat /\ 0 \in 0..MaxDocs BY ConstantsOK DEF TypeInv, TypeOK
<1> DEFINE t == ticket + 1
           R == [loc[p] EXCEPT !.tick = t, !.home = 0]
<1>7. Goto(p, "debounce", R) /\ ticket' = t BY DEF PostApply
<1>8. t \in Nat BY <1>6
<1> HIDE DEF t
<1>9. R \in Local BY <1>1, <1>6, <1>8, CarryTicket
<1>10. R.op = loc[p].op /\ R.by = loc[p].by BY <1>1 DEF Local
<1> HIDE DEF R
<1>11. SlotOK(p, "debounce", R, lock') BY <1>2, <1>10 DEF SlotOK, Locked
<1>12. pc' \in [Slots -> Points] /\ loc' \in [Slots -> Local] /\ SlotInv'
  <2>1. lock' = lock /\ "debounce" \in Points BY DEF PostApply, Points, Waiting
  <2> QED BY <1>7, <1>9, <1>11, <2>1, Move
<1> QED BY <1>5, <1>7, <1>8, <1>12 DEF PostApply, TypeInv, TypeOK, disk, people, Points

\* Debounced keeps the invariant.
LEMMA TypeDebounced ==
    ASSUME TypeInv, NEW p \in Slots, Debounced(p)
    PROVE  TypeInv'
<1>1. loc[p] \in Local /\ SlotOK(p, "debounce", loc[p], lock) BY AtSlot DEF Debounced
<1>2. loc[p].by \in Users /\ loc[p].op \in {"join", "post"} BY <1>1 DEF SlotOK
<1> DEFINE R == [loc[p] EXCEPT !.doc = 0, !.tick = 0]
<1>3. R \in Local
  <2>1. 0 \in 0..MaxDocs /\ 0 \in Nat BY ConstantsOK
  <2> QED BY <1>1, <2>1, CarryTicket
<1>4. R.op = loc[p].op /\ R.by = loc[p].by BY <1>1 DEF Local
<1>5. Goto(p, "enter", R) \/ Finish(p) BY DEF Debounced
<1>6. lock' = lock /\ "enter" \in Points BY DEF Debounced, Points, Waiting
<1> HIDE DEF R
<1>7. pc' \in [Slots -> Points] /\ loc' \in [Slots -> Local] /\ SlotInv'
  <2>1. CASE Goto(p, "enter", R)
    <3>1. SlotOK(p, "enter", R, lock') BY <1>2, <1>4 DEF SlotOK, Locked
    <3> QED BY <1>3, <1>6, <2>1, <3>1, Move
  <2>2. CASE Finish(p) BY <1>6, <2>2, MoveIdle
  <2> QED BY <1>5, <2>1, <2>2
<1> QED BY <1>7 DEF Debounced, TypeInv, TypeOK, disk, memory, people, Points

\* MatEnter keeps the invariant.
LEMMA TypeMatEnter ==
    ASSUME TypeInv, NEW p \in Slots, MatEnter(p)
    PROVE  TypeInv'
<1> DEFINE c == Materialised
           f == FillNeeded(file, c)
           R == [loc[p] EXCEPT !.cfg = c, !.fill = f]
<1>1. loc[p] \in Local /\ SlotOK(p, "enter", loc[p], lock) /\ loc[p].op = "post"
  BY AtSlot DEF MatEnter
<1>2. c \in Config /\ c \in AnyConfig
  <2>1. live # 0 /\ file # NoConfig BY DEF MatEnter, NothingMoved
  <2> QED BY <2>1, MaterialisedType DEF TypeInv, AnyConfig
<1>3. f \in BOOLEAN BY DEF FillNeeded
<1>4. Goto(p, "save", R) BY DEF MatEnter
<1>5. lock' = p /\ lock = None BY DEF MatEnter, Acquire
<1> HIDE DEF c, f
<1>6. R \in Local BY <1>1, <1>2, <1>3, CarryConfig
<1>7. R.cfg = c /\ R.by = loc[p].by BY <1>1 DEF Local
<1>8. loc[p].by \in Users BY <1>1 DEF SlotOK
<1> HIDE DEF R
<1>9. SlotOK(p, "save", R, lock') BY <1>2, <1>5, <1>7, <1>8 DEF SlotOK
<1>10. pc' \in [Slots -> Points] /\ loc' \in [Slots -> Local] /\ SlotInv'
  <2>1. "save" \in Points BY DEF Points, Locked
  <2> QED BY <1>4, <1>5, <1>6, <1>9, <2>1, Move
<1> QED BY <1>5, <1>10 DEF MatEnter, TypeInv, TypeOK, disk, memory, people, Points

\* PutRefused keeps the invariant.
LEMMA TypePutRefused ==
    ASSUME TypeInv, NEW p \in Slots, PutRefused(p)
    PROVE  TypeInv'
<1>1. pc' \in [Slots -> Points] /\ loc' \in [Slots -> Local] /\ SlotInv'
  BY MoveIdle DEF PutRefused
<1> QED BY <1>1 DEF PutRefused, TypeInv, TypeOK, disk, memory, people, Points

\* MatSkip keeps the invariant.
LEMMA TypeMatSkip ==
    ASSUME TypeInv, NEW p \in Slots, MatSkip(p)
    PROVE  TypeInv'
<1>1. pc' \in [Slots -> Points] /\ loc' \in [Slots -> Local] /\ SlotInv'
  BY MoveIdle DEF MatSkip
<1> QED BY <1>1 DEF MatSkip, TypeInv, TypeOK, disk, memory, people, Points

\* MergeGone keeps the invariant.
LEMMA TypeMergeGone ==
    ASSUME TypeInv, NEW p \in Slots, MergeGone(p)
    PROVE  TypeInv'
<1>1. pc' \in [Slots -> Points] /\ loc' \in [Slots -> Local] /\ SlotInv'
  BY MoveIdle DEF MergeGone
<1> QED BY <1>1 DEF MergeGone, TypeInv, TypeOK, disk, memory, people, Points

\* Checkpoint keeps the invariant.
LEMMA TypeCheckpoint ==
    ASSUME TypeInv, NEW p \in Slots, Checkpoint(p)
    PROVE  TypeInv'
<1>1. loc[p] \in Local /\ SlotOK(p, "checkpoint", loc[p], lock) BY AtSlot DEF Checkpoint
<1>2. lock = p /\ loc[p].cfg \in Config /\ loc[p].by \in Users
  BY <1>1 DEF SlotOK, Locked
<1> DEFINE m == [parent |-> head, names |-> {loc[p].by}]
           R == [loc[p] EXCEPT !.cid = nextCommit, !.meta = m]
<1>3. m \in Meta BY <1>2 DEF TypeInv, TypeOK, Meta
<1>4. nextCommit \in CommitIds /\ nextCommit \in 0..MaxCommits
  BY ConstantsOK DEF Checkpoint, TypeInv, TypeOK, CommitIds
<1>5. Goto(p, "snapshot", R) BY DEF Checkpoint
<1> HIDE DEF m
<1>6. R \in Local BY <1>1, <1>3, <1>4, CarryCommit
<1>7. R.by = loc[p].by /\ R.cfg = loc[p].cfg /\ R.cid = nextCommit
  BY <1>1 DEF Local
<1> HIDE DEF R
<1>8. lock' = lock BY DEF Checkpoint
<1>9. SlotOK(p, "snapshot", R, lock') BY <1>2, <1>4, <1>7, <1>8 DEF SlotOK
<1>10. pc' \in [Slots -> Points] /\ loc' \in [Slots -> Local] /\ SlotInv'
  <2>1. "snapshot" \in Points BY DEF Points, Locked
  <2> QED BY <1>5, <1>6, <1>8, <1>9, <2>1, Move
<1>11. nextCommit' \in 1..(MaxCommits + 1)
  BY ConstantsOK DEF Checkpoint, TypeInv, TypeOK
<1> QED BY <1>10, <1>11 DEF Checkpoint, TypeInv, TypeOK, disk, memory, people, Points

\* WriteSnapshot keeps the invariant.
LEMMA TypeWriteSnapshot ==
    ASSUME TypeInv, NEW p \in Slots, WriteSnapshot(p)
    PROVE  TypeInv'
<1>1. loc[p] \in Local /\ SlotOK(p, "snapshot", loc[p], lock) BY AtSlot DEF WriteSnapshot
<1>2. /\ lock = p /\ loc[p].cfg \in Config /\ loc[p].by \in Users
      /\ loc[p].cid \in CommitIds
  BY <1>1 DEF SlotOK, Locked
<1>3. Goto(p, "meta", loc[p]) /\ lock' = lock BY DEF WriteSnapshot
<1>4. SlotOK(p, "meta", loc[p], lock') BY <1>2, <1>3 DEF SlotOK
<1>5. pc' \in [Slots -> Points] /\ loc' \in [Slots -> Local] /\ SlotInv'
  <2>1. "meta" \in Points BY DEF Points, Locked
  <2> QED BY <1>1, <1>3, <1>4, <2>1, Move
<1>6. snaps' \in [CommitIds -> Config \cup {NoConfig}]
  BY <1>2 DEF WriteSnapshot, TypeInv, TypeOK
<1> QED BY <1>5, <1>6 DEF WriteSnapshot, TypeInv, TypeOK, memory, people, Points

\* WriteMeta keeps the invariant.
LEMMA TypeWriteMeta ==
    ASSUME TypeInv, NEW p \in Slots, WriteMeta(p)
    PROVE  TypeInv'
<1>1. loc[p] \in Local /\ SlotOK(p, "meta", loc[p], lock) BY AtSlot DEF WriteMeta
<1>2. /\ lock = p /\ loc[p].cfg \in Config /\ loc[p].by \in Users
      /\ loc[p].cid \in CommitIds
  BY <1>1 DEF SlotOK, Locked
<1>3. Goto(p, "head", loc[p]) /\ lock' = lock BY DEF WriteMeta
<1>4. SlotOK(p, "head", loc[p], lock') BY <1>2, <1>3 DEF SlotOK
<1>5. pc' \in [Slots -> Points] /\ loc' \in [Slots -> Local] /\ SlotInv'
  <2>1. "head" \in Points BY DEF Points, Locked
  <2> QED BY <1>1, <1>3, <1>4, <2>1, Move
<1>6. metas' \in [CommitIds -> Meta]
  <2>1. loc[p].meta \in Meta BY <1>1 DEF Local
  <2> QED BY <1>2, <2>1 DEF WriteMeta, TypeInv, TypeOK
<1> QED BY <1>5, <1>6 DEF WriteMeta, TypeInv, TypeOK, memory, people, Points

\* WriteHead keeps the invariant.
LEMMA TypeWriteHead ==
    ASSUME TypeInv, NEW p \in Slots, WriteHead(p)
    PROVE  TypeInv'
<1>1. loc[p] \in Local /\ SlotOK(p, "head", loc[p], lock) BY AtSlot DEF WriteHead
<1>2. /\ lock = p /\ loc[p].cfg \in Config /\ loc[p].by \in Users
      /\ loc[p].cid \in CommitIds
  BY <1>1 DEF SlotOK, Locked
<1>3. Goto(p, "clear", loc[p]) /\ lock' = lock BY DEF WriteHead
<1>4. SlotOK(p, "clear", loc[p], lock') BY <1>2, <1>3 DEF SlotOK
<1>5. pc' \in [Slots -> Points] /\ loc' \in [Slots -> Local] /\ SlotInv'
  <2>1. "clear" \in Points BY DEF Points, Locked
  <2> QED BY <1>1, <1>3, <1>4, <2>1, Move
<1>6. head' \in 0..MaxCommits BY <1>2, ConstantsOK DEF WriteHead, CommitIds
<1> QED BY <1>5, <1>6 DEF WriteHead, TypeInv, TypeOK, memory, people, Points

\* ClearPending keeps the invariant.
LEMMA TypeClearPending ==
    ASSUME TypeInv, NEW p \in Slots, ClearPending(p)
    PROVE  TypeInv'
<1>1. loc[p] \in Local /\ SlotOK(p, "clear", loc[p], lock) BY AtSlot DEF ClearPending
<1>2. lock = p /\ loc[p].cfg \in Config /\ loc[p].by \in Users
  BY <1>1 DEF SlotOK, Locked
<1>3. pc' \in [Slots -> Points] /\ loc' \in [Slots -> Local] /\ SlotInv'
  <2>1. CASE Goto(p, "settle", loc[p]) /\ UNCHANGED lock
    <3>1. SlotOK(p, "settle", loc[p], lock') BY <1>2, <2>1 DEF SlotOK
    <3>2. "settle" \in Points BY DEF Points, Locked
    <3> QED BY <1>1, <2>1, <3>1, <3>2, Move
  <2>2. CASE Finish(p) /\ Release(p) BY <1>2, <2>2, MoveIdle
  <2> QED BY <2>1, <2>2 DEF ClearPending
<1>4. lock' \in Slots \cup {None} BY DEF ClearPending, Release, TypeInv, TypeOK
<1> QED BY <1>3, <1>4 DEF ClearPending, TypeInv, TypeOK, memory, people, Points

\* OverwriteEnter keeps the invariant.
LEMMA TypeOverwriteEnter ==
    ASSUME TypeInv, NEW p \in Slots, OverwriteEnter(p)
    PROVE  TypeInv'
<1>1. /\ loc[p] \in Local /\ SlotOK(p, "enter", loc[p], lock)
      /\ loc[p].op \in {"restore", "revert"}
  BY AtSlot DEF OverwriteEnter
<1>2. loc[p].cfg \in Config /\ loc[p].by \in Users BY <1>1 DEF SlotOK
<1>3. lock' = p /\ lock = None /\ Goto(p, "save", loc[p])
  BY DEF OverwriteEnter, Acquire
<1>4. SlotOK(p, "save", loc[p], lock') BY <1>2, <1>3 DEF SlotOK
<1>5. pc' \in [Slots -> Points] /\ loc' \in [Slots -> Local] /\ SlotInv'
  <2>1. "save" \in Points BY DEF Points, Locked
  <2> QED BY <1>1, <1>3, <1>4, <2>1, Move
<1>6. live' \in 0..MaxDocs BY ConstantsOK DEF OverwriteEnter
<1> QED BY <1>3, <1>5, <1>6 DEF OverwriteEnter, TypeInv, TypeOK, disk, people, Points

\* MergeEnter keeps the invariant.
LEMMA TypeMergeEnter ==
    ASSUME TypeInv, NEW p \in Slots, MergeEnter(p)
    PROVE  TypeInv'
<1> DEFINE c == WithVis(loc[p].cfg, file.vis)
           R == [loc[p] EXCEPT !.cfg = c]
<1>1. /\ loc[p] \in Local /\ SlotOK(p, "enter", loc[p], lock) /\ loc[p].op = "merge"
      /\ loc[p].cfg \in AnyConfig /\ file \in AnyConfig /\ file # NoConfig
  BY AtSlot DEF MergeEnter
<1>2. c \in Config /\ c \in AnyConfig BY <1>1, ConfigParts, WithVisType DEF AnyConfig
<1>3. lock' = p /\ lock = None /\ Goto(p, "save", R) BY DEF MergeEnter, Acquire
<1> HIDE DEF c
<1>4. R \in Local BY <1>1, <1>2, CarryConfig
<1>5. R.cfg = c /\ R.by = loc[p].by BY <1>1 DEF Local
<1>6. loc[p].by \in Users BY <1>1 DEF SlotOK
<1> HIDE DEF R
<1>7. SlotOK(p, "save", R, lock') BY <1>2, <1>3, <1>5, <1>6 DEF SlotOK
<1>8. pc' \in [Slots -> Points] /\ loc' \in [Slots -> Local] /\ SlotInv'
  <2>1. "save" \in Points BY DEF Points, Locked
  <2> QED BY <1>3, <1>4, <1>7, <2>1, Move
<1>9. live' \in 0..MaxDocs BY ConstantsOK DEF MergeEnter
<1> QED BY <1>3, <1>8, <1>9 DEF MergeEnter, TypeInv, TypeOK, disk, people, Points

\* Settle keeps the invariant.
LEMMA TypeSettle ==
    ASSUME TypeInv, NEW p \in Slots, Settle(p)
    PROVE  TypeInv'
<1>1. pc' \in [Slots -> Points] /\ loc' \in [Slots -> Local] /\ SlotInv'
  BY MoveIdle, LockMoves DEF Settle
<1>2. lock' \in Slots \cup {None} BY DEF Settle, Release
<1>3. thread' \in {"open", "merged", "declined", "gone"} BY DEF Settle, TypeInv, TypeOK
<1> QED BY <1>1, <1>2, <1>3 DEF Settle, TypeInv, TypeOK, history, memory, people, Points

\* VisSummary keeps the invariant.
LEMMA TypeVisSummary ==
    ASSUME TypeInv, NEW p \in Slots, VisSummary(p)
    PROVE  TypeInv'
<1>1. loc[p] \in Local /\ SlotOK(p, "patch", loc[p], lock) BY AtSlot DEF VisSummary
<1>2. loc[p].op = "visibility" /\ loc[p].cfg \in Config BY <1>1 DEF SlotOK
<1>3. loc[p].cfg.vis \in Vis BY <1>2 DEF Config
<1>4. lock' = lock BY DEF VisSummary
<1>5. pc' \in [Slots -> Points] /\ loc' \in [Slots -> Local] /\ SlotInv'
  <2>1. CASE Goto(p, "enter", loc[p])
    <3>1. SlotOK(p, "enter", loc[p], lock') BY <1>2 DEF SlotOK, Locked
    <3>2. "enter" \in Points BY DEF Points, Waiting
    <3> QED BY <1>1, <1>4, <2>1, <3>1, <3>2, Move
  <2>2. CASE Finish(p) BY <1>4, <2>2, MoveIdle
  <2> QED BY <2>1, <2>2 DEF VisSummary
<1>6. summary' \in Vis \cup {None} BY <1>3 DEF VisSummary, TypeInv, TypeOK
<1> QED BY <1>5, <1>6 DEF VisSummary, TypeInv, TypeOK, history, memory, people, Points

\* VisEnter keeps the invariant.
LEMMA TypeVisEnter ==
    ASSUME TypeInv, NEW p \in Slots, VisEnter(p)
    PROVE  TypeInv'
<1> DEFINE c == WithVis(file, loc[p].cfg.vis)
           R == [loc[p] EXCEPT !.cfg = c]
<1>1. /\ loc[p] \in Local /\ SlotOK(p, "enter", loc[p], lock)
      /\ loc[p].op = "visibility" /\ file \in AnyConfig
  BY AtSlot DEF VisEnter
<1>2. loc[p].cfg \in Config /\ loc[p].cfg.vis \in Vis BY <1>1 DEF SlotOK, Config
<1>3. c \in Config /\ c \in AnyConfig BY <1>1, <1>2, WithVisType DEF AnyConfig
<1>4. \/ lock = None /\ lock' = p /\ Goto(p, "store", R)
      \/ lock' = lock /\ Finish(p)
  BY DEF VisEnter, Acquire
<1> HIDE DEF c
<1>5. R \in Local BY <1>1, <1>3, CarryConfig
<1>6. R.cfg = c BY <1>1 DEF Local
<1> HIDE DEF R
<1>7. pc' \in [Slots -> Points] /\ loc' \in [Slots -> Local] /\ SlotInv'
  <2>1. CASE lock = None /\ lock' = p /\ Goto(p, "store", R)
    <3>1. SlotOK(p, "store", R, lock') BY <1>3, <1>6, <2>1 DEF SlotOK
    <3>2. "store" \in Points BY DEF Points, Locked
    <3> QED BY <1>5, <2>1, <3>1, <3>2, Move
  <2>2. CASE lock' = lock /\ Finish(p) BY <2>2, MoveIdle
  <2> QED BY <1>4, <2>1, <2>2
<1>8. lock' \in Slots \cup {None} BY <1>4 DEF TypeInv, TypeOK
<1> QED BY <1>7, <1>8 DEF VisEnter, TypeInv, TypeOK, disk, memory, people, Points

\* Store keeps the invariant.
LEMMA TypeStore ==
    ASSUME TypeInv, NEW p \in Slots, Store(p)
    PROVE  TypeInv'
<1>1. pc' \in [Slots -> Points] /\ loc' \in [Slots -> Local] /\ SlotInv'
  BY MoveIdle, LockMoves DEF Store
<1>2. lock' \in Slots \cup {None} BY DEF Store, Release
<1>3. file' \in Config \cup {NoConfig}
  BY AtSlot DEF Store, AnyConfig
<1> QED BY <1>1, <1>2, <1>3 DEF Store, TypeInv, TypeOK, history, memory, people, Points

\* Fail keeps the invariant.
LEMMA TypeFail ==
    ASSUME TypeInv, NEW p \in Slots, Fail(p)
    PROVE  TypeInv'
<1>1. pc' \in [Slots -> Points] /\ loc' \in [Slots -> Local] /\ SlotInv'
  BY MoveIdle, LockMoves DEF Fail
<1>2. lock' \in Slots \cup {None} BY DEF Fail, Release
<1> QED BY <1>1, <1>2 DEF Fail, TypeInv, TypeOK, disk, memory, people, Points

----------------------------------------------------------------------------
(* Steps of no slot *)

\* SlotInv only reads pc, loc and lock.
LEMMA SlotsUntouched ==
    ASSUME SlotInv, UNCHANGED <<pc, loc, lock>>
    PROVE  SlotInv'
BY DEF SlotInv, SlotOK

\* Steps that belong to no slot.
LEMMA TypeOutside ==
    ASSUME TypeInv, CloseThread \/ Bootstrap \/ Delete \/ Publish
    PROVE  TypeInv'
<1>1. CASE CloseThread
  BY <1>1, SlotsUntouched DEF CloseThread, TypeInv, TypeOK, history, memory, people
<1>2. CASE Bootstrap
  <2>1. PICK e \in Fresh, u \in Users :
          file' = Cfg({e}, {}, DefaultVis) /\ author' = [author EXCEPT ![e] = u]
    BY <1>2 DEF Bootstrap
  <2>2. {e} \in Content /\ {} \in SUBSET Rows BY DEF Fresh, Content
  <2>3. file' \in Config \cup {NoConfig} BY <2>1, <2>2, CfgType, ConstantsOK
  <2>4. author' \in [Edits -> Users \cup {None}] BY <2>1 DEF TypeInv, TypeOK
  <2> QED BY <1>2, <2>3, <2>4, SlotsUntouched
          DEF Bootstrap, TypeInv, TypeOK, history, memory
<1>3. CASE Delete
  <2>1. NoMeta \in Meta /\ 0 \in 0..MaxCommits BY ConstantsOK DEF NoMeta, Meta
  <2> QED BY <1>3, <2>1, SlotsUntouched DEF Delete, TypeInv, TypeOK, memory, people
<1>4. CASE Publish
  <2>1. PICK c \in CommitIds :
          snaps[c] # NoConfig /\ released' = snaps[c] /\ summary' = snaps[c].vis
    BY <1>4 DEF Publish
  <2>2. snaps[c] \in AnyConfig BY DEF TypeInv, TypeOK, AnyConfig
  <2>3. released' \in Config \cup {NoConfig} /\ summary' \in Vis \cup {None}
    BY <2>1, <2>2, ConfigParts DEF AnyConfig
  <2> QED BY <1>4, <2>3, SlotsUntouched
          DEF Publish, TypeInv, TypeOK, history, memory, people
<1> QED BY <1>1, <1>2, <1>3, <1>4

\* A restart ends every handler.
LEMMA TypeCrash ==
    ASSUME TypeInv, Crash
    PROVE  TypeInv'
<1>1. pc' \in [Slots -> Points] /\ loc' \in [Slots -> Local]
  BY NoLocalType DEF Crash, Points, Waiting
<1>2. SlotInv'
  BY DEF Crash, SlotInv, SlotOK, Locked
<1>3. crashes' \in 0..MaxCrashes /\ live' \in 0..MaxDocs /\ ticket' \in Nat
  BY ConstantsOK DEF Crash, TypeInv, TypeOK
<1> QED BY <1>1, <1>2, <1>3 DEF Crash, TypeInv, TypeOK, disk, people, Points

----------------------------------------------------------------------------
(* Type correctness *)

\* The invariant holds at start-up.
LEMMA TypeInit == Init => TypeInv
<1> SUFFICES ASSUME Init PROVE TypeInv OBVIOUS
<1>1. file \in Config \cup {NoConfig}
  <2>1. {} \in Content /\ {} \in SUBSET Rows BY DEF Content
  <2> QED BY <2>1, CfgType, ConstantsOK DEF Init
<1>2. metas \in [CommitIds -> Meta] BY ConstantsOK DEF Init, NoMeta, Meta
<1>3. loc \in [Slots -> Local] /\ pc \in [Slots -> Points]
  BY NoLocalType DEF Init, Points, Waiting
<1>4. SlotInv BY DEF Init, SlotInv, SlotOK, Locked
<1> QED BY <1>1, <1>2, <1>3, <1>4, ConstantsOK DEF Init, TypeInv, TypeOK, Points

\* Every step keeps the invariant.
LEMMA TypeNext == TypeInv /\ [Next]_vars => TypeInv'
<1> SUFFICES ASSUME TypeInv, [Next]_vars PROVE TypeInv' OBVIOUS
<1>1. CASE \E p \in Slots : Request(p)
  BY <1>1, TypePutRead, TypeJoinLoad, TypePostGet, TypeCommitEnter, TypeRestoreLoad,
     TypeRevertLoad, TypeMergeLoad, TypeVisLoad, TypeDuplicateEnter DEF Request
<1>2. CASE \E p \in Slots : Step(p)
  BY <1>2, TypePutEnter, TypePutRefused, TypeSave, TypeNote, TypeJoinSeed, TypePostSeed,
     TypePostApply, TypeDebounced, TypeMatEnter, TypeMatSkip, TypeCheckpoint,
     TypeWriteSnapshot, TypeWriteMeta, TypeWriteHead, TypeClearPending, TypeSettle,
     TypeOverwriteEnter, TypeMergeEnter, TypeMergeGone, TypeVisSummary,
     TypeVisEnter, TypeStore DEF Step
<1>3. CASE \E p \in Slots : Fail(p) BY <1>3, TypeFail
<1>4. CASE CloseThread \/ Bootstrap \/ Delete \/ Publish BY <1>4, TypeOutside
<1>5. CASE Crash BY <1>5, TypeCrash
<1>6. CASE UNCHANGED vars
  BY <1>6, SlotsUntouched DEF vars, TypeInv, TypeOK
<1> QED BY <1>1, <1>2, <1>3, <1>4, <1>5, <1>6 DEF Next

\* No interleaving of the authoring handlers, failed writes, deletions and
\* restarts stores anything but a config, indexes a document or a commit that
\* does not exist, or notes a login nobody has.
THEOREM TypeCorrect == Spec => []TypeOK
<1>1. TypeInv => TypeOK BY DEF TypeInv
<1> QED BY <1>1, TypeInit, TypeNext, PTL DEF Spec

----------------------------------------------------------------------------
(* The commit log *)

\* The points of save_commit between allocating a commit and moving HEAD.
Committing == {"snapshot", "meta", "head"}

\* A commit being written follows the current HEAD and names somebody; its
\* snapshot and then its metadata are on disk by the time the next write runs.
CommitOK(pt, l) ==
    /\ pt \in Committing => l.meta.parent = head /\ l.meta.names # {}
    /\ pt \in {"meta", "head"} => snaps[l.cid] = l.cfg
    /\ pt = "head" => metas[l.cid] = l.meta

HistInv == HistoryReadable /\ \A q \in Slots : CommitOK(pc[q], loc[q])

\* A step that writes no commit file and leaves its slot outside save_commit.
LEMMA HistMove ==
    ASSUME TypeOK, HistInv, NEW p \in Slots, NEW pt, NEW R, Goto(p, pt, R),
           pt \notin Committing, UNCHANGED <<snaps, metas, head>>
    PROVE  HistInv'
<1>1. HistoryReadable' BY DEF HistInv, HistoryReadable
<1>2. ASSUME NEW q \in Slots PROVE CommitOK(pc[q], loc[q])'
  <2>1. CASE q = p
    <3>1. pc'[q] = pt BY <2>1 DEF TypeOK, Goto
    <3> QED BY <3>1 DEF CommitOK, Committing
  <2>2. CASE q # p
    <3>1. pc'[q] = pc[q] /\ loc'[q] = loc[q] BY <2>2 DEF TypeOK, Goto
    <3> QED BY <3>1 DEF HistInv, CommitOK
  <2> QED BY <2>1, <2>2
<1> QED BY <1>1, <1>2 DEF HistInv

\* Only the slot inside save_commit is there: the others are outside it.
LEMMA OneCommitter ==
    ASSUME TypeInv, NEW p \in Slots, lock \in {None, p}, NEW q \in Slots, q # p
    PROVE  pc[q] \notin Committing
<1>1. SlotOK(q, pc[q], loc[q], lock) BY DEF TypeInv, SlotInv
<1>2. lock # q BY ConstantsOK
<1> QED BY <1>1, <1>2 DEF SlotOK, Locked, Committing

\* Requests other than create_commit write nothing of the history.
LEMMA HistRequest ==
    ASSUME TypeOK, HistInv, NEW p \in Slots,
           \/ PutRead(p) \/ JoinLoad(p) \/ PostGet(p) \/ RestoreLoad(p)
           \/ RevertLoad(p) \/ MergeLoad(p) \/ VisLoad(p) \/ DuplicateEnter(p)
    PROVE  HistInv'
<1> USE DEF Committing
<1>1. CASE PutRead(p)
  <2>1. \E R : Goto(p, "enter", R) BY <1>1 DEF PutRead
  <2> QED BY <1>1, <2>1, HistMove DEF PutRead, disk
<1>2. CASE JoinLoad(p)
  <2>1. \E R : Goto(p, "seed", R) BY <1>2 DEF JoinLoad
  <2> QED BY <1>2, <2>1, HistMove DEF JoinLoad, disk
<1>3. CASE PostGet(p)
  <2>1. \E R : Goto(p, "apply", R) \/ Goto(p, "seed", R) BY <1>3 DEF PostGet
  <2> QED BY <1>3, <2>1, HistMove DEF PostGet, disk
<1>4. CASE RestoreLoad(p)
  <2>1. \E R : Goto(p, "enter", R) BY <1>4 DEF RestoreLoad
  <2> QED BY <1>4, <2>1, HistMove DEF RestoreLoad, disk
<1>5. CASE RevertLoad(p)
  <2>1. \E R : Goto(p, "enter", R) BY <1>5 DEF RevertLoad
  <2> QED BY <1>5, <2>1, HistMove DEF RevertLoad, disk
<1>6. CASE MergeLoad(p)
  <2>1. \E R : Goto(p, "enter", R) BY <1>6 DEF MergeLoad
  <2> QED BY <1>6, <2>1, HistMove DEF MergeLoad, disk
<1>7. CASE VisLoad(p)
  <2>1. \E R : Goto(p, "enter", R) \/ Goto(p, "patch", R) BY <1>7 DEF VisLoad
  <2> QED BY <1>7, <2>1, HistMove DEF VisLoad, disk
<1>8. CASE DuplicateEnter(p)
  <2>1. \E R : Goto(p, "store", R) BY <1>8 DEF DuplicateEnter
  <2> QED BY <1>8, <2>1, HistMove DEF DuplicateEnter, disk
<1> QED BY <1>1, <1>2, <1>3, <1>4, <1>5, <1>6, <1>7, <1>8

\* Steps outside save_commit write nothing of the history either.
LEMMA HistStep ==
    ASSUME TypeOK, HistInv, NEW p \in Slots,
           \/ PutEnter(p) \/ PutRefused(p) \/ Save(p) \/ Note(p)
           \/ JoinSeed(p) \/ PostSeed(p) \/ PostApply(p) \/ Debounced(p)
           \/ MatEnter(p) \/ MatSkip(p) \/ ClearPending(p) \/ Settle(p)
           \/ OverwriteEnter(p) \/ MergeEnter(p) \/ MergeGone(p) \/ VisSummary(p)
           \/ VisEnter(p) \/ Store(p) \/ Fail(p)
    PROVE  HistInv'
<1> USE DEF Committing, Finish
<1>1. CASE PutEnter(p) BY <1>1, HistMove DEF PutEnter, disk
<1>2. CASE PutRefused(p) BY <1>2, HistMove DEF PutRefused, disk
<1>3. CASE Save(p) BY <1>3, HistMove DEF Save, history
<1>4. CASE Note(p) BY <1>4, HistMove DEF Note
<1>5. CASE JoinSeed(p) BY <1>5, HistMove DEF JoinSeed, disk
<1>6. CASE PostSeed(p) BY <1>6, HistMove DEF PostSeed, disk
<1>7. CASE PostApply(p) BY <1>7, HistMove DEF PostApply, disk
<1>8. CASE Debounced(p) BY <1>8, HistMove DEF Debounced, disk
<1>9. CASE MatEnter(p) BY <1>9, HistMove DEF MatEnter, disk
<1>10. CASE MatSkip(p) BY <1>10, HistMove DEF MatSkip, disk
<1>11. CASE ClearPending(p) BY <1>11, HistMove DEF ClearPending
<1>12. CASE Settle(p) BY <1>12, HistMove DEF Settle, history
<1>13. CASE OverwriteEnter(p) BY <1>13, HistMove DEF OverwriteEnter, disk
<1>14. CASE MergeEnter(p) BY <1>14, HistMove DEF MergeEnter, disk
<1>15. CASE MergeGone(p) BY <1>15, HistMove DEF MergeGone, disk
<1>16. CASE VisEnter(p) BY <1>16, HistMove DEF VisEnter, disk
<1>17. CASE Store(p) BY <1>17, HistMove DEF Store, history
<1>18. CASE Fail(p) BY <1>18, HistMove DEF Fail, disk
<1>19. CASE VisSummary(p) BY <1>19, HistMove DEF VisSummary, history
<1> QED BY <1>1, <1>2, <1>3, <1>4, <1>5, <1>6, <1>7, <1>8, <1>9, <1>10, <1>11,
           <1>12, <1>13, <1>14, <1>15, <1>16, <1>17, <1>18, <1>19

\* create_commit starts from the HEAD it read under the lock.
LEMMA HistCommitEnter ==
    ASSUME TypeInv, HistInv, NEW p \in Slots, CommitEnter(p)
    PROVE  HistInv'
<1>1. PICK u \in Users :
        Goto(p, "snapshot",
             [NoLocal EXCEPT !.op = "commit", !.by = u, !.cfg = file,
                             !.cid = nextCommit,
                             !.meta = [parent |-> head, names |-> Contributors(u)]])
  BY DEF CommitEnter
<1> DEFINE m == [parent |-> head, names |-> Contributors(u)]
           R == [NoLocal EXCEPT !.op = "commit", !.by = u, !.cfg = file,
                                !.cid = nextCommit, !.meta = m]
<1>2. R.meta = m BY DEF NoLocal
<1>3. Goto(p, "snapshot", R) BY <1>1
<1>4. m.parent = head /\ m.names # {} BY DEF Contributors
<1> HIDE DEF m, R
<1>5. lock \in {None, p} /\ UNCHANGED <<snaps, metas, head>>
  BY DEF CommitEnter, Acquire, disk
<1>6. HistoryReadable' BY <1>5 DEF HistInv, HistoryReadable
<1>7. ASSUME NEW q \in Slots PROVE CommitOK(pc[q], loc[q])'
  <2>1. CASE q = p
    <3>1. pc'[q] = "snapshot" /\ loc'[q] = R BY <1>3, <2>1 DEF TypeInv, TypeOK, Goto
    <3> QED BY <1>2, <1>4, <1>5, <3>1 DEF CommitOK, Committing
  <2>2. CASE q # p
    <3>1. pc'[q] = pc[q] /\ loc'[q] = loc[q] BY <1>3, <2>2 DEF TypeInv, TypeOK, Goto
    <3> QED BY <1>5, <3>1 DEF HistInv, CommitOK
  <2> QED BY <2>1, <2>2
<1> QED BY <1>6, <1>7 DEF HistInv

\* So does the checkpoint of a restore, a revert or a merge.
LEMMA HistCheckpoint ==
    ASSUME TypeInv, HistInv, NEW p \in Slots, Checkpoint(p)
    PROVE  HistInv'
<1> DEFINE m == [parent |-> head, names |-> {loc[p].by}]
           R == [loc[p] EXCEPT !.cid = nextCommit, !.meta = m]
<1>1. loc[p] \in Local BY AtSlot
<1>2. R.meta = m BY <1>1 DEF Local
<1>3. Goto(p, "snapshot", R) BY DEF Checkpoint
<1>4. m.parent = head /\ m.names # {} OBVIOUS
<1> HIDE DEF m, R
<1>5. UNCHANGED <<snaps, metas, head>> BY DEF Checkpoint, disk
<1>6. HistoryReadable' BY <1>5 DEF HistInv, HistoryReadable
<1>7. ASSUME NEW q \in Slots PROVE CommitOK(pc[q], loc[q])'
  <2>1. CASE q = p
    <3>1. pc'[q] = "snapshot" /\ loc'[q] = R BY <1>3, <2>1 DEF TypeInv, TypeOK, Goto
    <3> QED BY <1>2, <1>4, <1>5, <3>1 DEF CommitOK, Committing
  <2>2. CASE q # p
    <3>1. pc'[q] = pc[q] /\ loc'[q] = loc[q] BY <1>3, <2>2 DEF TypeInv, TypeOK, Goto
    <3> QED BY <1>5, <3>1 DEF HistInv, CommitOK
  <2> QED BY <2>1, <2>2
<1> QED BY <1>6, <1>7 DEF HistInv

\* A slot inside save_commit holds the lock, a real config and a commit number.
LEMMA AtCommit ==
    ASSUME TypeInv, HistInv, NEW p \in Slots, pc[p] \in Committing
    PROVE  /\ lock = p /\ loc[p].cid \in CommitIds
           /\ loc[p].cfg \in Config /\ loc[p].cfg # NoConfig
           /\ loc[p].meta.parent = head /\ loc[p].meta.names # {}
           /\ loc[p].meta # NoMeta
           /\ CommitOK(pc[p], loc[p])
<1>1. SlotOK(p, pc[p], loc[p], lock) /\ CommitOK(pc[p], loc[p])
  BY DEF TypeInv, SlotInv, HistInv
<1>2. lock = p /\ loc[p].cid \in CommitIds /\ loc[p].cfg \in Config
  BY <1>1 DEF SlotOK, Locked, Committing
<1>3. loc[p].cfg # NoConfig
  BY <1>2, ConstantsOK DEF Config, NoConfig, Cfg
<1>4. loc[p].meta.parent = head /\ loc[p].meta.names # {}
  BY <1>1 DEF CommitOK
<1>5. loc[p].meta # NoMeta BY <1>4 DEF NoMeta
<1> QED BY <1>1, <1>2, <1>3, <1>4, <1>5

\* The snapshot lands before anything refers to it.
LEMMA HistWriteSnapshot ==
    ASSUME TypeInv, HistInv, NEW p \in Slots, WriteSnapshot(p)
    PROVE  HistInv'
<1>1. pc[p] = "snapshot" /\ pc[p] \in Committing BY DEF WriteSnapshot, Committing
<1>2. /\ lock = p /\ loc[p].cid \in CommitIds /\ loc[p].cfg # NoConfig
      /\ loc[p].meta.parent = head /\ loc[p].meta.names # {}
  BY <1>1, AtCommit
<1>3. /\ snaps' = [snaps EXCEPT ![loc[p].cid] = loc[p].cfg]
      /\ UNCHANGED <<metas, head>> /\ Goto(p, "meta", loc[p])
  BY DEF WriteSnapshot
<1>4. snaps'[loc[p].cid] = loc[p].cfg BY <1>2, <1>3 DEF TypeInv, TypeOK
<1>5. \A c \in CommitIds : snaps'[c] = NoConfig => snaps[c] = NoConfig
  BY <1>2, <1>3 DEF TypeInv, TypeOK
<1>6. HistoryReadable' BY <1>3, <1>5 DEF HistInv, HistoryReadable
<1>7. ASSUME NEW q \in Slots PROVE CommitOK(pc[q], loc[q])'
  <2>1. CASE q = p
    <3>1. pc'[q] = "meta" /\ loc'[q] = loc[p] BY <1>3, <2>1 DEF TypeInv, TypeOK, Goto
    <3> QED BY <1>2, <1>3, <1>4, <3>1 DEF CommitOK, Committing
  <2>2. CASE q # p
    <3>1. pc'[q] = pc[q] BY <1>3, <2>2 DEF TypeInv, TypeOK, Goto
    <3>2. pc[q] \notin Committing BY <1>2, <2>2, OneCommitter
    <3> QED BY <3>1, <3>2 DEF CommitOK, Committing
  <2> QED BY <2>1, <2>2
<1> QED BY <1>6, <1>7 DEF HistInv

\* The metadata lands with its snapshot on disk and a readable parent.
LEMMA HistWriteMeta ==
    ASSUME TypeInv, HistInv, NEW p \in Slots, WriteMeta(p)
    PROVE  HistInv'
<1>1. pc[p] = "meta" /\ pc[p] \in Committing BY DEF WriteMeta, Committing
<1>2. /\ lock = p /\ loc[p].cid \in CommitIds /\ loc[p].cfg # NoConfig
      /\ loc[p].meta.parent = head /\ loc[p].meta.names # {} /\ loc[p].meta # NoMeta
      /\ snaps[loc[p].cid] = loc[p].cfg
  BY <1>1, AtCommit DEF CommitOK
<1>3. /\ metas' = [metas EXCEPT ![loc[p].cid] = loc[p].meta]
      /\ UNCHANGED <<snaps, head>> /\ Goto(p, "head", loc[p])
  BY DEF WriteMeta
<1>4. metas'[loc[p].cid] = loc[p].meta BY <1>2, <1>3 DEF TypeInv, TypeOK
<1>5. \A c \in CommitIds : c # loc[p].cid => metas'[c] = metas[c]
  BY <1>3 DEF TypeInv, TypeOK
<1>6. head = 0 \/ (head \in CommitIds /\ metas[head] # NoMeta)
  BY ConstantsOK DEF HistInv, HistoryReadable, TypeInv, TypeOK, CommitIds
<1>7. \A c \in CommitIds : metas[c] # NoMeta => metas'[c] # NoMeta
  BY <1>2, <1>4, <1>5
<1>8. HistoryReadable'
  <2>1. head' # 0 => metas'[head'] # NoMeta BY <1>3, <1>6, <1>7
  <2>2. ASSUME NEW c \in CommitIds, metas'[c] # NoMeta
        PROVE  /\ snaps'[c] # NoConfig
               /\ metas'[c].parent # 0 => metas'[metas'[c].parent] # NoMeta
    <3>1. CASE c = loc[p].cid BY <1>2, <1>3, <1>4, <1>6, <1>7, <3>1
    <3>2. CASE c # loc[p].cid
      <4>1. metas'[c] = metas[c] BY <1>5, <3>2
      <4>2. snaps[c] # NoConfig
        BY <2>2, <4>1 DEF HistInv, HistoryReadable
      <4>3. metas[c].parent # 0 => metas[metas[c].parent] # NoMeta
        BY <2>2, <4>1 DEF HistInv, HistoryReadable
      <4>4. metas[c].parent # 0 => metas[c].parent \in CommitIds
        BY ConstantsOK DEF TypeInv, TypeOK, Meta, CommitIds
      <4> QED BY <1>3, <1>7, <4>1, <4>2, <4>3, <4>4
    <3> QED BY <3>1, <3>2
  <2> QED BY <2>1, <2>2 DEF HistoryReadable
<1>9. ASSUME NEW q \in Slots PROVE CommitOK(pc[q], loc[q])'
  <2>1. CASE q = p
    <3>1. pc'[q] = "head" /\ loc'[q] = loc[p] BY <1>3, <2>1 DEF TypeInv, TypeOK, Goto
    <3> QED BY <1>2, <1>3, <1>4, <3>1 DEF CommitOK, Committing
  <2>2. CASE q # p
    <3>1. pc'[q] = pc[q] BY <1>3, <2>2 DEF TypeInv, TypeOK, Goto
    <3>2. pc[q] \notin Committing BY <1>2, <2>2, OneCommitter
    <3> QED BY <3>1, <3>2 DEF CommitOK, Committing
  <2> QED BY <2>1, <2>2
<1> QED BY <1>8, <1>9 DEF HistInv

\* HEAD moves last, to a commit that is wholly on disk.
LEMMA HistWriteHead ==
    ASSUME TypeInv, HistInv, NEW p \in Slots, WriteHead(p)
    PROVE  HistInv'
<1>1. pc[p] = "head" /\ pc[p] \in Committing BY DEF WriteHead, Committing
<1>2. /\ lock = p /\ loc[p].meta # NoMeta
      /\ metas[loc[p].cid] = loc[p].meta
  BY <1>1, AtCommit DEF CommitOK
<1>3. /\ head' = loc[p].cid
      /\ UNCHANGED <<snaps, metas>> /\ Goto(p, "clear", loc[p])
  BY DEF WriteHead
<1>4. HistoryReadable' BY <1>2, <1>3 DEF HistInv, HistoryReadable
<1>5. ASSUME NEW q \in Slots PROVE CommitOK(pc[q], loc[q])'
  <2>1. CASE q = p
    <3>1. pc'[q] = "clear" BY <1>3, <2>1 DEF TypeInv, TypeOK, Goto
    <3> QED BY <3>1 DEF CommitOK, Committing
  <2>2. CASE q # p
    <3>1. pc'[q] = pc[q] BY <1>3, <2>2 DEF TypeInv, TypeOK, Goto
    <3>2. pc[q] \notin Committing BY <1>2, <2>2, OneCommitter
    <3> QED BY <3>1, <3>2 DEF CommitOK, Committing
  <2> QED BY <2>1, <2>2
<1> QED BY <1>4, <1>5 DEF HistInv

\* Steps of no slot write no commit file, deletion apart.
LEMMA HistOutside ==
    ASSUME HistInv, CloseThread \/ Bootstrap \/ Publish \/ Crash \/ UNCHANGED vars
    PROVE  HistInv'
<1>1. CASE CloseThread
  BY <1>1 DEF CloseThread, history, HistInv, HistoryReadable, CommitOK
<1>2. CASE Bootstrap
  BY <1>2 DEF Bootstrap, history, HistInv, HistoryReadable, CommitOK
<1>3. CASE Publish
  BY <1>3 DEF Publish, history, HistInv, HistoryReadable, CommitOK
<1>4. CASE Crash
  BY <1>4 DEF Crash, disk, HistInv, HistoryReadable, CommitOK, Committing
<1>5. CASE UNCHANGED vars
  BY <1>5 DEF vars, HistInv, HistoryReadable, CommitOK
<1> QED BY <1>1, <1>2, <1>3, <1>4, <1>5

\* An empty log is readable.
LEMMA HistInit == Init => HistInv
BY DEF Init, HistInv, HistoryReadable, CommitOK, Committing

\* Every step but a deletion keeps the log readable.
LEMMA HistNext ==
    ASSUME "delete" \notin Ops
    PROVE  TypeInv /\ HistInv /\ [Next]_vars => HistInv'
<1> SUFFICES ASSUME TypeInv, HistInv, [Next]_vars PROVE HistInv' OBVIOUS
<1>0. TypeOK BY DEF TypeInv
<1>1. CASE \E p \in Slots : Request(p)
  BY <1>0, <1>1, HistRequest, HistCommitEnter DEF Request
<1>2. CASE \E p \in Slots : Step(p)
  BY <1>0, <1>2, HistStep, HistCheckpoint, HistWriteSnapshot, HistWriteMeta, HistWriteHead
     DEF Step
<1>3. CASE \E p \in Slots : Fail(p) BY <1>0, <1>3, HistStep
<1>4. CASE Delete BY <1>4 DEF Delete
<1>5. CASE CloseThread \/ Bootstrap \/ Publish \/ Crash \/ UNCHANGED vars
  BY <1>5, HistOutside
<1> QED BY <1>1, <1>2, <1>3, <1>4, <1>5 DEF Next

\* The log is readable at every moment of every run without deletions: HEAD and
\* every commit it reaches have their metadata and snapshot, through failed
\* writes and restarts between the three writes of save_commit.
THEOREM HistoryStaysReadable ==
    ASSUME "delete" \notin Ops
    PROVE  Spec => []HistoryReadable
<1>1. HistInv => HistoryReadable BY DEF HistInv
<1>2. TypeInv /\ HistInv /\ [Next]_vars => HistInv' BY HistNext
<1> QED BY <1>1, <1>2, TypeInit, TypeNext, HistInit, PTL DEF Spec

----------------------------------------------------------------------------
(* HEAD moves in one place *)

\* Of all steps but a deletion only the last write of save_commit moves HEAD.
LEMMA HeadMoves ==
    ASSUME "delete" \notin Ops, [Next]_vars, head' # head
    PROVE  \E p \in Slots : WriteHead(p)
<1>1. ASSUME NEW p \in Slots, Request(p) PROVE head' = head
  BY <1>1 DEF Request, PutRead, JoinLoad, PostGet, CommitEnter, RestoreLoad, RevertLoad,
              MergeLoad, VisLoad, DuplicateEnter, disk, history
<1>2. ASSUME NEW p \in Slots, Step(p), ~WriteHead(p) PROVE head' = head
  BY <1>2 DEF Step, PutEnter, PutRefused, Save, Note, JoinSeed, PostSeed, PostApply,
              Debounced, MatEnter, MatSkip, Checkpoint, WriteSnapshot, WriteMeta,
              ClearPending, Settle, OverwriteEnter, MergeEnter, MergeGone,
              VisSummary, VisEnter, Store,
              disk, history
<1>3. ASSUME NEW p \in Slots, Fail(p) PROVE head' = head BY <1>3 DEF Fail, disk
<1>4. ~Delete BY DEF Delete
<1>5. CloseThread \/ Bootstrap \/ Publish \/ Crash \/ UNCHANGED vars => head' = head
  BY DEF CloseThread, Bootstrap, Publish, Crash, vars, disk, history
<1> QED BY <1>1, <1>2, <1>3, <1>4, <1>5 DEF Next

\* It moves to a commit whose parent is the HEAD it replaces.
LEMMA HeadAppends ==
    ASSUME "delete" \notin Ops, TypeInv, HistInv, [Next]_vars, head' # head
    PROVE  head' \in CommitIds /\ metas[head'].parent = head
<1>1. PICK p \in Slots : WriteHead(p) BY HeadMoves
<1>2. pc[p] = "head" /\ pc[p] \in Committing /\ head' = loc[p].cid
  BY <1>1 DEF WriteHead, Committing
<1>3. loc[p].cid \in CommitIds /\ loc[p].meta.parent = head /\ metas[loc[p].cid] = loc[p].meta
  BY <1>2, AtCommit DEF CommitOK
<1> QED BY <1>2, <1>3

\* History only grows at HEAD: however commits, restores, reverts and merges
\* interleave with failures and restarts, a commit never drops one made before it.
THEOREM HistoryOnlyAppends ==
    ASSUME "delete" \notin Ops
    PROVE  Spec => HistoryAppends
<1>1. TypeInv /\ HistInv /\ [Next]_vars
        => [head' # head => head' # 0 /\ metas[head'].parent = head]_vars
  BY HeadAppends DEF CommitIds
<1>2. TypeInv /\ HistInv /\ [Next]_vars => HistInv' BY HistNext
<1> QED BY <1>1, <1>2, TypeInit, TypeNext, HistInit, PTL DEF Spec, HistoryAppends

----------------------------------------------------------------------------
(* config.json is written only inside the lock *)

\* From its write to the end of the handler a slot's config is the one on disk; a
\* conditional save already inside the lock holds everything on disk, and one
\* outside it holds everything it read.
DiskOK(pt, l) ==
    /\ pt \in {"note", "checkpoint"} \cup Committing => file = l.cfg
    /\ pt = "enter" /\ l.op = "put" /\ l.pre = "rev" => l.rev \subseteq l.cfg.body
    /\ pt = "save" /\ l.op = "put" /\ l.pre = "rev"
          => file # NoConfig /\ file.body \subseteq l.cfg.body

DiskInv == \A q \in Slots : DiskOK(pc[q], loc[q])

\* A step of slot p that leaves config.json alone disturbs nobody else.
LEMMA DiskMove ==
    ASSUME TypeOK, DiskInv, NEW p \in Slots, NEW pt, NEW R, Goto(p, pt, R),
           file' = file, DiskOK(pt, R)
    PROVE  DiskInv'
<1> SUFFICES ASSUME NEW q \in Slots PROVE DiskOK(pc[q], loc[q])' BY DEF DiskInv
<1>1. CASE q = p
  <2>1. pc'[q] = pt /\ loc'[q] = R BY <1>1 DEF TypeOK, Goto
  <2> QED BY <2>1 DEF DiskOK
<1>2. CASE q # p
  <2>1. pc'[q] = pc[q] /\ loc'[q] = loc[q] BY <1>2 DEF TypeOK, Goto
  <2> QED BY <2>1 DEF DiskInv, DiskOK
<1> QED BY <1>1, <1>2

\* A step of the lock's holder may write config.json: nobody else is in the lock.
LEMMA DiskWrite ==
    ASSUME TypeInv, DiskInv, NEW p \in Slots, NEW pt, NEW R, Goto(p, pt, R),
           lock = p, pt = "idle" \/ (pt = "note" /\ file' = R.cfg)
    PROVE  DiskInv'
<1> SUFFICES ASSUME NEW q \in Slots PROVE DiskOK(pc[q], loc[q])' BY DEF DiskInv
<1>1. CASE q = p
  <2>1. pc'[q] = pt /\ loc'[q] = R BY <1>1 DEF TypeInv, TypeOK, Goto
  <2> QED BY <2>1 DEF DiskOK, Committing
<1>2. CASE q # p
  <2>1. pc'[q] = pc[q] /\ loc'[q] = loc[q] BY <1>2 DEF TypeInv, TypeOK, Goto
  <2>2. SlotOK(q, pc[q], loc[q], lock) BY DEF TypeInv, SlotInv
  <2>3. pc[q] \notin Locked BY <1>2, <2>2 DEF SlotOK
  <2>4. DiskOK(pc[q], loc[q]) BY DEF DiskInv
  <2> QED BY <2>1, <2>3, <2>4 DEF DiskOK, Locked, Committing
<1> QED BY <1>1, <1>2

\* A slot that goes where config.json does not matter.
LEMMA DiskIdle ==
    ASSUME TypeOK, DiskInv, NEW p \in Slots, NEW pt, NEW R, Goto(p, pt, R), file' = file,
           \/ pt \in {"idle", "patch", "seed", "apply", "debounce", "clear", "settle",
                     "store"}
           \/ pt \in {"enter", "save"} /\ R.op # "put"
    PROVE  DiskInv'
<1>1. DiskOK(pt, R) BY DEF DiskOK, Committing
<1> QED BY <1>1, DiskMove

\* Requests read config.json and leave it alone.
LEMMA DiskRequest ==
    ASSUME TypeInv, DiskInv, NEW p \in Slots, Request(p)
    PROVE  DiskInv'
<1>0. TypeOK BY DEF TypeInv
<1>1. CASE PutRead(p)
  <2>1. PICK u \in Users, e \in Fresh, pre \in Preconditions, v \in Vis :
          Goto(p, "enter",
              [NoLocal EXCEPT !.op = "put", !.by = u, !.edit = {e}, !.pre = pre,
                              !.rev = IF pre = "rev" THEN EditRev(file) ELSE {},
                              !.cfg = Cfg(file.body \cup {e}, file.pulled, v)])
    BY <1>1 DEF PutRead, Preconditions
  <2> DEFINE r == IF pre = "rev" THEN EditRev(file) ELSE {}
             c == Cfg(file.body \cup {e}, file.pulled, v)
             R == [NoLocal EXCEPT !.op = "put", !.by = u, !.edit = {e}, !.pre = pre,
                                  !.rev = r, !.cfg = c]
  <2>2. Goto(p, "enter", R) BY <2>1
  <2>3. r \subseteq c.body BY DEF EditRev, Cfg
  <2> HIDE DEF r, c
  <2>4. R.rev = r /\ R.cfg = c BY DEF NoLocal
  <2> HIDE DEF R
  <2>5. DiskOK("enter", R) BY <2>3, <2>4 DEF DiskOK, Committing
  <2>6. file' = file BY <1>1 DEF PutRead, disk
  <2> QED BY <1>0, <2>2, <2>5, <2>6, DiskMove
<1>2. CASE JoinLoad(p)
  <2>1. \E R : Goto(p, "seed", R) BY <1>2 DEF JoinLoad
  <2> QED BY <1>0, <1>2, <2>1, DiskIdle DEF JoinLoad, disk
<1>3. CASE PostGet(p)
  <2>1. \E R : Goto(p, "apply", R) \/ Goto(p, "seed", R) BY <1>3 DEF PostGet
  <2> QED BY <1>0, <1>3, <2>1, DiskIdle DEF PostGet, disk
<1>4. CASE CommitEnter(p)
  <2>1. PICK u \in Users :
          Goto(p, "snapshot",
             [NoLocal EXCEPT !.op = "commit", !.by = u, !.cfg = file,
                             !.cid = nextCommit,
                             !.meta = [parent |-> head, names |-> Contributors(u)]])
    BY <1>4 DEF CommitEnter
  <2> DEFINE m == [parent |-> head, names |-> Contributors(u)]
             R == [NoLocal EXCEPT !.op = "commit", !.by = u, !.cfg = file,
                                  !.cid = nextCommit, !.meta = m]
  <2>2. Goto(p, "snapshot", R) BY <2>1
  <2> HIDE DEF m
  <2>3. R.cfg = file BY DEF NoLocal
  <2> HIDE DEF R
  <2>4. DiskOK("snapshot", R) BY <2>3 DEF DiskOK
  <2>5. file' = file BY <1>4 DEF CommitEnter, disk
  <2> QED BY <1>0, <2>2, <2>4, <2>5, DiskMove
<1>5. CASE RestoreLoad(p)
  <2>1. PICK u \in Users, c \in CommitIds :
          Goto(p, "enter", [NoLocal EXCEPT !.op = "restore", !.by = u, !.cfg = snaps[c]])
    BY <1>5 DEF RestoreLoad
  <2> DEFINE R == [NoLocal EXCEPT !.op = "restore", !.by = u, !.cfg = snaps[c]]
  <2>2. Goto(p, "enter", R) /\ R.op = "restore" BY <2>1 DEF NoLocal
  <2> HIDE DEF R
  <2> QED BY <1>0, <1>5, <2>2, DiskIdle DEF RestoreLoad, disk
<1>6. CASE RevertLoad(p)
  <2>1. PICK u \in Users :
          Goto(p, "enter", [NoLocal EXCEPT !.op = "revert", !.by = u, !.cfg = Reconstructed])
    BY <1>6 DEF RevertLoad
  <2> DEFINE R == [NoLocal EXCEPT !.op = "revert", !.by = u, !.cfg = Reconstructed]
  <2>2. Goto(p, "enter", R) /\ R.op = "revert" BY <2>1 DEF NoLocal
  <2> HIDE DEF R
  <2> QED BY <1>0, <1>6, <2>2, DiskIdle DEF RevertLoad, disk
<1>7. CASE MergeLoad(p)
  <2>1. PICK u \in Users, v \in Vis :
          Goto(p, "enter",
               [NoLocal EXCEPT !.op = "merge", !.by = u, !.edit = {Offer},
                               !.cfg = Cfg({Offer}, {}, v)])
    BY <1>7 DEF MergeLoad
  <2> DEFINE R == [NoLocal EXCEPT !.op = "merge", !.by = u, !.edit = {Offer},
                                  !.cfg = Cfg({Offer}, {}, v)]
  <2>2. Goto(p, "enter", R) /\ R.op = "merge" BY <2>1 DEF NoLocal
  <2> HIDE DEF R
  <2> QED BY <1>0, <1>7, <2>2, DiskIdle DEF MergeLoad, disk
<1>8. CASE VisLoad(p)
  <2>1. PICK v \in Vis :
          Goto(p, IF summary = None THEN "enter" ELSE "patch",
               [NoLocal EXCEPT !.op = "visibility", !.cfg = Cfg({}, {}, v)])
    BY <1>8 DEF VisLoad
  <2> DEFINE R == [NoLocal EXCEPT !.op = "visibility", !.cfg = Cfg({}, {}, v)]
  <2>2. (Goto(p, "enter", R) \/ Goto(p, "patch", R)) /\ R.op = "visibility"
    BY <2>1 DEF NoLocal
  <2> HIDE DEF R
  <2> QED BY <1>0, <1>8, <2>2, DiskIdle DEF VisLoad, disk
<1>9. CASE DuplicateEnter(p)
  <2>1. \E R : Goto(p, "store", R) BY <1>9 DEF DuplicateEnter
  <2> QED BY <1>0, <1>9, <2>1, DiskIdle DEF DuplicateEnter, disk
<1> QED BY <1>1, <1>2, <1>3, <1>4, <1>5, <1>6, <1>7, <1>8, <1>9 DEF Request

\* If-Match holds at the moment the lock is taken.
LEMMA DiskPutEnter ==
    ASSUME TypeInv, DiskInv, NEW p \in Slots, PutEnter(p)
    PROVE  DiskInv'
<1> DEFINE c == PutConfig(loc[p])
           f == FillNeeded(file, c)
           R == [loc[p] EXCEPT !.cfg = c, !.fill = f]
<1>1. loc[p] \in Local /\ pc[p] = "enter" /\ loc[p].op = "put" /\ PreconditionHolds(loc[p])
  BY AtSlot DEF PutEnter
<1>2. Goto(p, "save", R) /\ file' = file BY DEF PutEnter, disk
<1>3. c.body = loc[p].cfg.body BY DEF PutConfig, MergePulled, WithVis, Cfg
<1> HIDE DEF c, f
<1>4. R.op = loc[p].op /\ R.pre = loc[p].pre /\ R.cfg = c BY <1>1 DEF Local
<1> HIDE DEF R
<1>5. loc[p].pre = "rev" =>
        file # NoConfig /\ file.body = loc[p].rev /\ loc[p].rev \subseteq loc[p].cfg.body
  BY <1>1 DEF PreconditionHolds, EditRev, DiskInv, DiskOK
<1>6. DiskOK("save", R) BY <1>3, <1>4, <1>5 DEF DiskOK, Committing
<1>7. TypeOK BY DEF TypeInv
<1> QED BY <1>2, <1>6, <1>7, DiskMove

\* The fill changes rows only: everything authored is written as it was merged.
LEMMA FilledBody ==
    ASSUME NEW l, NEW c \in Filled(l)
    PROVE  c.body = l.cfg.body
BY DEF Filled, Cfg

\* The save writes what it carries.
LEMMA DiskSave ==
    ASSUME TypeInv, DiskInv, NEW p \in Slots, Save(p)
    PROVE  DiskInv'
<1>1. PICK c \in Filled(loc[p]) :
        file' = c /\ Goto(p, "note", [loc[p] EXCEPT !.cfg = c])
  BY DEF Save
<1> DEFINE R == [loc[p] EXCEPT !.cfg = c]
<1>2. loc[p] \in Local BY AtSlot
<1>3. R.cfg = c BY <1>2 DEF Local
<1>4. Goto(p, "note", R) /\ lock = p BY <1>1 DEF Save
<1> HIDE DEF R
<1> QED BY <1>1, <1>3, <1>4, DiskWrite

\* Every step of a handler keeps what the others know of config.json.
LEMMA DiskStep ==
    ASSUME TypeInv, DiskInv, NEW p \in Slots, Step(p) \/ Fail(p)
    PROVE  DiskInv'
<1>0. TypeOK /\ loc[p] \in Local BY AtSlot DEF TypeInv
<1>1. CASE PutEnter(p) BY <1>1, DiskPutEnter
<1>2. CASE Save(p) BY <1>2, DiskSave
<1>3. CASE Note(p)
  <2>1. DiskOK("checkpoint", loc[p]) BY <1>3 DEF Note, DiskInv, DiskOK
  <2>2. Goto(p, "checkpoint", loc[p]) \/ Goto(p, "idle", NoLocal)
    BY <1>3 DEF Note, Finish
  <2> QED BY <1>0, <1>3, <2>1, <2>2, DiskMove, DiskIdle DEF Note
<1>4. CASE PutRefused(p) BY <1>0, <1>4, DiskIdle DEF PutRefused, Finish, disk
<1>5. CASE JoinSeed(p) BY <1>0, <1>5, DiskIdle DEF JoinSeed, Finish, disk
<1>6. CASE PostSeed(p) BY <1>0, <1>6, DiskIdle DEF PostSeed, disk
<1>7. CASE PostApply(p) BY <1>0, <1>7, DiskIdle DEF PostApply, disk
<1>8. CASE Debounced(p)
  <2> DEFINE R == [loc[p] EXCEPT !.doc = 0, !.tick = 0]
  <2>1. SlotOK(p, "debounce", loc[p], lock) BY <1>8, AtSlot DEF Debounced
  <2>2. loc[p].op # "put" BY <2>1 DEF SlotOK
  <2>3. R.op # "put" BY <1>0, <2>2 DEF Local
  <2>4. Goto(p, "enter", R) \/ Goto(p, "idle", NoLocal) BY <1>8 DEF Debounced, Finish
  <2> HIDE DEF R
  <2> QED BY <1>0, <1>8, <2>3, <2>4, DiskIdle DEF Debounced, disk
<1>9. CASE MatEnter(p)
  <2> DEFINE f == FillNeeded(file, Materialised)
             R == [loc[p] EXCEPT !.cfg = Materialised, !.fill = f]
  <2>1. Goto(p, "save", R) /\ loc[p].op = "post" BY <1>9 DEF MatEnter
  <2> HIDE DEF f
  <2>2. R.op # "put" BY <1>0, <2>1 DEF Local
  <2> HIDE DEF R
  <2> QED BY <1>0, <1>9, <2>1, <2>2, DiskIdle DEF MatEnter, disk
<1>10. CASE MatSkip(p) BY <1>0, <1>10, DiskIdle DEF MatSkip, Finish, disk
<1>11. CASE Checkpoint(p)
  <2> DEFINE m == [parent |-> head, names |-> {loc[p].by}]
             R == [loc[p] EXCEPT !.cid = nextCommit, !.meta = m]
  <2>1. Goto(p, "snapshot", R) /\ file' = file BY <1>11 DEF Checkpoint, disk
  <2> HIDE DEF m
  <2>2. R.cfg = loc[p].cfg BY <1>0 DEF Local
  <2> HIDE DEF R
  <2>3. file = loc[p].cfg BY <1>11 DEF Checkpoint, DiskInv, DiskOK
  <2>4. DiskOK("snapshot", R) BY <2>2, <2>3 DEF DiskOK
  <2> QED BY <1>0, <2>1, <2>4, DiskMove
<1>12. CASE WriteSnapshot(p)
  <2>1. file = loc[p].cfg BY <1>12 DEF WriteSnapshot, DiskInv, DiskOK, Committing
  <2>2. DiskOK("meta", loc[p]) BY <2>1 DEF DiskOK
  <2> QED BY <1>0, <1>12, <2>2, DiskMove DEF WriteSnapshot
<1>13. CASE WriteMeta(p)
  <2>1. file = loc[p].cfg BY <1>13 DEF WriteMeta, DiskInv, DiskOK, Committing
  <2>2. DiskOK("head", loc[p]) BY <2>1 DEF DiskOK
  <2> QED BY <1>0, <1>13, <2>2, DiskMove DEF WriteMeta
<1>14. CASE WriteHead(p) BY <1>0, <1>14, DiskIdle DEF WriteHead
<1>15. CASE ClearPending(p)
  <2>1. Goto(p, "settle", loc[p]) \/ Goto(p, "idle", NoLocal)
    BY <1>15 DEF ClearPending, Finish
  <2> QED BY <1>0, <1>15, <2>1, DiskIdle DEF ClearPending
<1>16. CASE Settle(p) BY <1>0, <1>16, DiskIdle DEF Settle, Finish
<1>17. CASE OverwriteEnter(p) BY <1>0, <1>17, DiskIdle DEF OverwriteEnter, disk
<1>18. CASE MergeEnter(p)
  <2> DEFINE c == WithVis(loc[p].cfg, file.vis)
             R == [loc[p] EXCEPT !.cfg = c]
  <2>1. Goto(p, "save", R) /\ loc[p].op = "merge" BY <1>18 DEF MergeEnter
  <2> HIDE DEF c
  <2>2. R.op # "put" BY <1>0, <2>1 DEF Local
  <2> HIDE DEF R
  <2> QED BY <1>0, <1>18, <2>1, <2>2, DiskIdle DEF MergeEnter, disk
<1>19. CASE MergeGone(p) BY <1>0, <1>19, DiskIdle DEF MergeGone, Finish, disk
<1>20. CASE VisEnter(p)
  <2>1. \E R : Goto(p, "store", R) \/ Goto(p, "idle", R) BY <1>20 DEF VisEnter, Finish
  <2> QED BY <1>0, <1>20, <2>1, DiskIdle DEF VisEnter, disk
<1>21. CASE Store(p)
  <2>1. Goto(p, "idle", NoLocal) /\ lock = p BY <1>21 DEF Store, Finish, Release
  <2> QED BY <2>1, DiskWrite
<1>22. CASE Fail(p) BY <1>0, <1>22, DiskIdle DEF Fail, Finish, disk
<1>23. CASE VisSummary(p)
  <2>1. SlotOK(p, "patch", loc[p], lock) BY <1>23, AtSlot DEF VisSummary
  <2>2. loc[p].op # "put" BY <2>1 DEF SlotOK
  <2>3. Goto(p, "enter", loc[p]) \/ Goto(p, "idle", NoLocal) BY <1>23 DEF VisSummary, Finish
  <2> QED BY <1>0, <1>23, <2>2, <2>3, DiskIdle DEF VisSummary
<1> QED BY <1>1, <1>2, <1>3, <1>4, <1>5, <1>6, <1>7, <1>8, <1>9, <1>10, <1>11, <1>12,
           <1>13, <1>14, <1>15, <1>16, <1>17, <1>18, <1>19, <1>20, <1>21, <1>22, <1>23
        DEF Step

\* No handler is under way at start-up.
LEMMA DiskInit == Init => DiskInv
BY DEF Init, DiskInv, DiskOK, Committing

\* Every step but a deletion or a bootstrap keeps the invariant.
LEMMA DiskNext ==
    ASSUME "delete" \notin Ops, "bootstrap" \notin Ops
    PROVE  TypeInv /\ DiskInv /\ [Next]_vars => DiskInv'
<1> SUFFICES ASSUME TypeInv, DiskInv, [Next]_vars PROVE DiskInv' OBVIOUS
<1>1. CASE \E p \in Slots : Request(p) BY <1>1, DiskRequest
<1>2. CASE \E p \in Slots : Step(p) \/ Fail(p) BY <1>2, DiskStep
<1>3. ~Delete /\ ~Bootstrap BY DEF Delete, Bootstrap
<1>4. CASE CloseThread BY <1>4 DEF CloseThread, DiskInv, DiskOK
<1>5. CASE Publish BY <1>5 DEF Publish, DiskInv, DiskOK
<1>6. CASE Crash BY <1>6 DEF Crash, disk, DiskInv, DiskOK, Committing
<1>7. CASE UNCHANGED vars BY <1>7 DEF vars, DiskInv, DiskOK
<1> QED BY <1>1, <1>2, <1>3, <1>4, <1>5, <1>6, <1>7 DEF Next

----------------------------------------------------------------------------
(* What follows of commits and conditional saves *)

\* Every commit is the pack as it stood when HEAD moved to it.
THEOREM CommitsCaptureDisk ==
    ASSUME "delete" \notin Ops, "bootstrap" \notin Ops
    PROVE  Spec => CommitCapturesDisk
<1>1. ASSUME TypeInv, HistInv, DiskInv, [Next]_vars, head' # head
      PROVE  snaps[head'] = file
  <2>1. PICK p \in Slots : WriteHead(p) BY <1>1, HeadMoves
  <2>2. pc[p] = "head" /\ pc[p] \in Committing /\ head' = loc[p].cid
    BY <2>1 DEF WriteHead, Committing
  <2>3. snaps[loc[p].cid] = loc[p].cfg BY <1>1, <2>2, AtCommit DEF CommitOK
  <2>4. file = loc[p].cfg BY <1>1, <2>2 DEF DiskInv, DiskOK
  <2> QED BY <2>2, <2>3, <2>4
<1>2. TypeInv /\ HistInv /\ DiskInv /\ [Next]_vars
        => [head' # head /\ head' # 0 => snaps[head'] = file]_vars
  BY <1>1
<1>3. TypeInv /\ HistInv /\ [Next]_vars => HistInv' BY HistNext
<1>4. TypeInv /\ DiskInv /\ [Next]_vars => DiskInv' BY DiskNext
<1> QED BY <1>2, <1>3, <1>4, TypeInit, TypeNext, HistInit, DiskInit, PTL
        DEF Spec, CommitCapturesDisk

\* Only Save takes a slot from "save" to "note".
LEMMA SaveMoves ==
    ASSUME TypeOK, [Next]_vars, NEW p \in Slots, Saves(p)
    PROVE  Save(p)
<1>0. pc[p] = "save" /\ pc'[p] = "note" BY DEF Saves
<1>1. ASSUME NEW q \in Slots, NEW pt, NEW R, Goto(q, pt, R)
      PROVE  q = p /\ pt = "note"
  BY <1>0, <1>1 DEF TypeOK, Goto
<1>2. ASSUME NEW q \in Slots, Request(q) PROVE FALSE
  <2>1. pc[q] = "idle"
    BY <1>2 DEF Request, PutRead, JoinLoad, PostGet, CommitEnter, RestoreLoad, RevertLoad,
                MergeLoad, VisLoad, DuplicateEnter, Begin
  <2>2. \E pt, R : Goto(q, pt, R)
    BY <1>2 DEF Request, PutRead, JoinLoad, PostGet, CommitEnter, RestoreLoad, RevertLoad,
                MergeLoad, VisLoad, DuplicateEnter
  <2> QED BY <1>0, <1>1, <2>1, <2>2
<1>3. ASSUME NEW q \in Slots, Step(q) \/ Fail(q) PROVE Save(p)
  <2>1. \E pt, R : Goto(q, pt, R)
    BY <1>3 DEF Step, PutEnter, PutRefused, Save, Note, JoinSeed, PostSeed, PostApply,
              Debounced, MatEnter, MatSkip, Checkpoint, WriteSnapshot, WriteMeta, WriteHead,
              ClearPending, Settle, OverwriteEnter, MergeEnter, MergeGone,
              VisSummary, VisEnter, Store,
              Fail, Finish
  <2>2. q = p BY <1>1, <2>1
  <2>3. CASE Fail(p)
    <3>1. Goto(p, "idle", NoLocal) BY <2>3 DEF Fail, Finish
    <3> QED BY <1>1, <3>1
  <2>4. CASE Step(p)
    BY <1>0, <2>4 DEF Step, PutEnter, PutRefused, Save, Note, JoinSeed, PostSeed, PostApply,
              Debounced, MatEnter, MatSkip, Checkpoint, WriteSnapshot, WriteMeta, WriteHead,
              ClearPending, Settle, OverwriteEnter, MergeEnter, MergeGone,
              VisSummary, VisEnter, Store
  <2> QED BY <1>3, <2>2, <2>3, <2>4
<1>4. CloseThread \/ Bootstrap \/ Delete \/ Publish \/ UNCHANGED vars => pc' = pc
  BY DEF CloseThread, Bootstrap, Delete, Publish, vars
<1>5. ~Crash BY <1>0 DEF Crash
<1> QED BY <1>0, <1>2, <1>3, <1>4, <1>5 DEF Next

\* A conditional save loses no update, for every number of people saving and
\* typing: what is on disk when it writes is contained in what it writes.
THEOREM ConditionalSavesKeep ==
    ASSUME "delete" \notin Ops, "bootstrap" \notin Ops
    PROVE  Spec => ConditionalSaveKeeps
<1>1. ASSUME TypeInv, DiskInv, [Next]_vars, NEW p \in Slots, Saves(p),
             loc[p].op = "put", loc[p].pre = "rev"
      PROVE  file # NoConfig /\ file.body \subseteq file'.body
  <2>1. Save(p) BY <1>1, SaveMoves DEF TypeInv
  <2>2. PICK c \in Filled(loc[p]) : file' = c BY <2>1 DEF Save
  <2>3. c.body = loc[p].cfg.body BY FilledBody
  <2>4. file # NoConfig /\ file.body \subseteq loc[p].cfg.body
    BY <1>1, <2>1 DEF Save, DiskInv, DiskOK
  <2> QED BY <2>2, <2>3, <2>4
<1>2. TypeInv /\ DiskInv /\ [Next]_vars =>
        [\A p \in Slots :
            Saves(p) /\ loc[p].op = "put" /\ loc[p].pre = "rev"
                => file # NoConfig /\ file.body \subseteq file'.body]_vars
  BY <1>1
<1>3. TypeInv /\ DiskInv /\ [Next]_vars => DiskInv' BY DiskNext
<1> QED BY <1>2, <1>3, TypeInit, TypeNext, DiskInit, PTL DEF Spec, ConditionalSaveKeeps

----------------------------------------------------------------------------
(* What a write computed inside the lock keeps of the file it replaces *)

\* One step of the handler in slot p.
Moves(p) == Step(p) \/ Request(p) \/ Fail(p)

\* A handler moves its own slot and no other.
LEMMA OthersStay ==
    ASSUME TypeOK, NEW p \in Slots, Moves(p), NEW q \in Slots, q # p
    PROVE  pc'[q] = pc[q] /\ loc'[q] = loc[q]
<1>1. \E pt, R : Goto(p, pt, R)
  <2>1. CASE Request(p)
    BY <2>1 DEF Request, PutRead, JoinLoad, PostGet, CommitEnter, RestoreLoad, RevertLoad,
                MergeLoad, VisLoad, DuplicateEnter
  <2>2. CASE Step(p) \/ Fail(p)
    BY <2>2 DEF Step, PutEnter, PutRefused, Save, Note, JoinSeed, PostSeed, PostApply,
              Debounced, MatEnter, MatSkip, Checkpoint, WriteSnapshot, WriteMeta, WriteHead,
              ClearPending, Settle, OverwriteEnter, MergeEnter, MergeGone,
              VisSummary, VisEnter, Store,
              Fail, Finish
  <2> QED BY <2>1, <2>2 DEF Moves
<1> QED BY <1>1 DEF TypeOK, Goto

\* How a handler gets to each point at which it carries what it will write.
LEMMA Arrivals ==
    ASSUME TypeOK, NEW p \in Slots, Moves(p)
    PROVE  /\ pc'[p] = "save" =>
                PutEnter(p) \/ MatEnter(p) \/ OverwriteEnter(p) \/ MergeEnter(p)
           /\ pc'[p] = "store" => VisEnter(p) \/ DuplicateEnter(p)
           /\ pc'[p] = "seed" => JoinLoad(p) \/ PostGet(p)
<1>1. \A pt, R : Goto(p, pt, R) => pc'[p] = pt BY DEF TypeOK, Goto
<1>2. CASE Request(p)
  BY <1>1, <1>2 DEF Request, PutRead, JoinLoad, PostGet, CommitEnter, RestoreLoad,
                    RevertLoad, MergeLoad, VisLoad, DuplicateEnter
<1>3. CASE Step(p)
  BY <1>1, <1>3
     DEF Step, PutEnter, PutRefused, Save, Note, JoinSeed, PostSeed, PostApply, Debounced,
         MatEnter, MatSkip, Checkpoint, WriteSnapshot, WriteMeta, WriteHead, ClearPending,
         Settle, OverwriteEnter, MergeEnter, MergeGone,
         VisSummary, VisEnter, Store, Finish
<1>4. CASE Fail(p) BY <1>1, <1>4 DEF Fail, Finish
<1> QED BY <1>2, <1>3, <1>4 DEF Moves

\* Who writes config.json: a handler's save or store, a bootstrap or a deletion.
LEMMA FileWriters ==
    ASSUME [Next]_vars, file' # file
    PROVE  (\E p \in Slots : Save(p) \/ Store(p)) \/ Bootstrap \/ Delete
<1>1. ASSUME NEW p \in Slots, Request(p) PROVE FALSE
  BY <1>1 DEF Request, PutRead, JoinLoad, PostGet, CommitEnter, RestoreLoad, RevertLoad,
              MergeLoad, VisLoad, DuplicateEnter, disk
<1>2. ASSUME NEW p \in Slots, Step(p) PROVE Save(p) \/ Store(p)
  BY <1>2 DEF Step, PutEnter, PutRefused, Note, JoinSeed, PostSeed, PostApply, Debounced,
              MatEnter, MatSkip, Checkpoint, WriteSnapshot, WriteMeta, WriteHead,
              ClearPending, Settle, OverwriteEnter, MergeEnter, MergeGone,
              VisSummary, VisEnter, disk
<1>3. ASSUME NEW p \in Slots, Fail(p) PROVE FALSE BY <1>3 DEF Fail, disk
<1>4. CloseThread \/ Publish \/ Crash \/ UNCHANGED vars => file' = file
  BY DEF CloseThread, Publish, Crash, disk, vars
<1> QED BY <1>1, <1>2, <1>3, <1>4 DEF Next

\* A slot that holds the lock and stays where it is sees config.json unchanged, but
\* for a bootstrap or a deletion, which ask for no lock.
LEMMA LockedFile ==
    ASSUME TypeInv, [Next]_vars, NEW q \in Slots, pc[q] \in Locked, pc'[q] = pc[q]
    PROVE  file' = file \/ Bootstrap \/ Delete
<1>1. lock = q BY AtSlot DEF SlotOK
<1>2. ASSUME NEW p \in Slots, Save(p) PROVE FALSE
  <2>1. pc'[p] = "note" /\ pc[p] = "save" /\ lock = p
    BY <1>2 DEF Save, Goto, TypeInv, TypeOK
  <2> QED BY <1>1, <2>1
<1>3. ASSUME NEW p \in Slots, Store(p) PROVE FALSE
  <2>1. pc'[p] = "idle" /\ pc[p] = "store" /\ lock = p
    BY <1>3 DEF Store, Finish, Release, Goto, TypeInv, TypeOK
  <2> QED BY <1>1, <2>1
<1> QED BY <1>2, <1>3, FileWriters

\* What a slot carries into a write: a save made of a body or a document holds every
\* pulled row on disk and, as a merge does, the visibility on disk; a clone about to
\* land found its id free.
KeepOK(pt, l) ==
    /\ pt = "save" => l.op \in {"put", "post", "merge", "restore", "revert"}
    /\ pt = "save" /\ l.op \in {"put", "post"}
          => file.pulled \subseteq l.cfg.pulled \cup l.cfg.body
    /\ pt = "save" /\ l.op \in {"put", "post", "merge"} /\ file # NoConfig
          => l.cfg.vis = file.vis
    /\ pt = "store" => l.op \in {"visibility", "duplicate"}
    /\ pt = "store" /\ l.op = "duplicate" => file = NoConfig

KeepInv == \A q \in Slots : KeepOK(pc[q], loc[q])

\* merge_pulled keeps the rows on disk and the visibility it is given.
LEMMA MergeKeeps ==
    ASSUME NEW s, NEW c
    PROVE  /\ s.pulled \subseteq MergePulled(s, c).pulled \cup MergePulled(s, c).body
           /\ MergePulled(s, c).vis = c.vis
           /\ MergePulled(s, c).body = c.body
BY DEF MergePulled, Cfg

\* put_pack_config takes the lock.
LEMMA KeepPutEnter ==
    ASSUME TypeInv, NEW p \in Slots, PutEnter(p)
    PROVE  KeepOK("save", loc[p])'
<1> DEFINE c == PutConfig(loc[p])
           f == FillNeeded(file, c)
           R == [loc[p] EXCEPT !.cfg = c, !.fill = f]
<1>1. loc[p] \in Local /\ loc[p].op = "put" BY AtSlot DEF PutEnter
<1>2. loc'[p] = R /\ file' = file BY DEF PutEnter, disk, Goto, TypeInv, TypeOK
<1>3. /\ file.pulled \subseteq c.pulled \cup c.body
      /\ file # NoConfig => c.vis = file.vis
  <2>1. CASE file # NoConfig
    <3>1. WithVis(loc[p].cfg, file.vis).vis = file.vis BY DEF WithVis, Cfg
    <3> QED BY <2>1, <3>1, MergeKeeps DEF PutConfig
  <2>2. CASE file = NoConfig BY <2>2 DEF NoConfig, Cfg
  <2> QED BY <2>1, <2>2
<1> HIDE DEF c, f
<1>4. R.op = "put" /\ R.cfg = c BY <1>1 DEF Local
<1> HIDE DEF R
<1> QED BY <1>2, <1>3, <1>4 DEF KeepOK

\* materialise takes the lock.
LEMMA KeepMatEnter ==
    ASSUME TypeInv, NEW p \in Slots, MatEnter(p)
    PROVE  KeepOK("save", loc[p])'
<1> DEFINE c == Materialised
           f == FillNeeded(file, c)
           R == [loc[p] EXCEPT !.cfg = c, !.fill = f]
<1>1. loc[p] \in Local /\ loc[p].op = "post" BY AtSlot DEF MatEnter
<1>2. loc'[p] = R /\ file' = file BY DEF MatEnter, disk, Goto, TypeInv, TypeOK
<1>3. file.pulled \subseteq c.pulled \cup c.body /\ c.vis = file.vis
  <2>1. Cfg(docs[live].body, docs[live].pulled, file.vis).vis = file.vis BY DEF Cfg
  <2> QED BY <2>1, MergeKeeps DEF Materialised
<1> HIDE DEF c, f
<1>4. R.op = "post" /\ R.cfg = c BY <1>1 DEF Local
<1> HIDE DEF R
<1> QED BY <1>2, <1>3, <1>4 DEF KeepOK

\* restore_commit, revert_pack_config and merge_proposal take the lock.
LEMMA KeepOverwrite ==
    ASSUME TypeInv, NEW p \in Slots, OverwriteEnter(p) \/ MergeEnter(p)
    PROVE  KeepOK("save", loc[p])'
<1>1. CASE OverwriteEnter(p)
  <2>1. loc'[p] = loc[p] /\ loc[p].op \in {"restore", "revert"}
    BY <1>1 DEF OverwriteEnter, Goto, TypeInv, TypeOK
  <2> QED BY <2>1 DEF KeepOK
<1>2. CASE MergeEnter(p)
  <2> DEFINE c == WithVis(loc[p].cfg, file.vis)
             R == [loc[p] EXCEPT !.cfg = c]
  <2>1. loc[p] \in Local /\ loc[p].op = "merge" BY <1>2, AtSlot DEF MergeEnter
  <2>2. loc'[p] = R /\ file' = file BY <1>2 DEF MergeEnter, disk, Goto, TypeInv, TypeOK
  <2>3. c.vis = file.vis BY DEF WithVis, Cfg
  <2> HIDE DEF c
  <2>4. R.op = "merge" /\ R.cfg = c BY <2>1 DEF Local
  <2> HIDE DEF R
  <2> QED BY <2>2, <2>3, <2>4 DEF KeepOK
<1> QED BY <1>1, <1>2

\* set_pack_visibility and duplicate_pack take the lock.
LEMMA KeepStore ==
    ASSUME TypeInv, NEW p \in Slots, VisEnter(p) \/ DuplicateEnter(p), pc'[p] = "store"
    PROVE  KeepOK("store", loc[p])'
<1>1. CASE VisEnter(p)
  <2> DEFINE c == WithVis(file, loc[p].cfg.vis)
             R == [loc[p] EXCEPT !.cfg = c]
  <2>1. loc[p] \in Local /\ loc[p].op = "visibility" BY <1>1, AtSlot DEF VisEnter
  <2>2. loc'[p] = R BY <1>1 DEF VisEnter, Finish, Goto, TypeInv, TypeOK
  <2> HIDE DEF c
  <2>3. R.op = "visibility" BY <2>1 DEF Local
  <2> HIDE DEF R
  <2> QED BY <2>2, <2>3 DEF KeepOK
<1>2. CASE DuplicateEnter(p)
  <2>1. PICK e \in Fresh :
          Goto(p, "store", [NoLocal EXCEPT !.op = "duplicate", !.edit = {e},
                              !.cfg = Cfg({e}, {}, Draft)])
    BY <1>2 DEF DuplicateEnter
  <2> DEFINE R == [NoLocal EXCEPT !.op = "duplicate", !.edit = {e},
                                  !.cfg = Cfg({e}, {}, Draft)]
  <2>2. loc'[p] = R BY <2>1 DEF Goto, TypeInv, TypeOK
  <2>3. R.op = "duplicate" BY DEF NoLocal
  <2>4. file = NoConfig /\ file' = file BY <1>2 DEF DuplicateEnter, TargetFree, disk
  <2> HIDE DEF R
  <2> QED BY <2>2, <2>3, <2>4 DEF KeepOK
<1> QED BY <1>1, <1>2

\* No handler is under way at start-up.
LEMMA KeepInit == Init => KeepInv
BY DEF Init, KeepInv, KeepOK

\* Every step but a bootstrap keeps the invariant; a deletion leaves no row and no
\* visibility to be lost.
LEMMA KeepNext ==
    ASSUME "bootstrap" \notin Ops
    PROVE  TypeInv /\ KeepInv /\ [Next]_vars => KeepInv'
<1> SUFFICES ASSUME TypeInv, KeepInv, [Next]_vars, NEW q \in Slots
             PROVE  KeepOK(pc[q], loc[q])'
  BY DEF KeepInv
<1>1. ASSUME pc'[q] = pc[q], loc'[q] = loc[q] PROVE KeepOK(pc[q], loc[q])'
  <2>1. CASE pc[q] \notin {"save", "store"} BY <1>1, <2>1 DEF KeepOK
  <2>2. CASE pc[q] \in {"save", "store"}
    <3>1. file' = file \/ Delete
      BY <1>1, <2>2, LockedFile DEF Locked, Bootstrap
    <3>2. KeepOK(pc[q], loc[q]) BY DEF KeepInv
    <3>3. CASE file' = file BY <1>1, <3>2, <3>3 DEF KeepOK
    <3>4. CASE Delete
      <4>1. file' = NoConfig /\ file'.pulled = {} BY <3>4 DEF Delete, NoConfig, Cfg
      <4> QED BY <1>1, <3>2, <4>1 DEF KeepOK
    <3> QED BY <3>1, <3>3, <3>4
  <2> QED BY <2>1, <2>2
<1>2. ASSUME NEW p \in Slots, Moves(p) PROVE KeepOK(pc[q], loc[q])'
  <2>1. CASE p # q BY <1>1, <1>2, <2>1, OthersStay DEF TypeInv
  <2>2. CASE p = q
    <3>1. CASE pc'[p] = "save"
      <4>1. PutEnter(p) \/ MatEnter(p) \/ OverwriteEnter(p) \/ MergeEnter(p)
        BY <1>2, <3>1, Arrivals DEF TypeInv
      <4>2. KeepOK("save", loc[p])'
        BY <4>1, KeepPutEnter, KeepMatEnter, KeepOverwrite
      <4> QED BY <2>2, <3>1, <4>2
    <3>2. CASE pc'[p] = "store"
      <4>1. VisEnter(p) \/ DuplicateEnter(p) BY <1>2, <3>2, Arrivals DEF TypeInv
      <4>2. KeepOK("store", loc[p])' BY <3>2, <4>1, KeepStore
      <4> QED BY <2>2, <3>2, <4>2
    <3>3. CASE pc'[p] \notin {"save", "store"} BY <2>2, <3>3 DEF KeepOK
    <3> QED BY <3>1, <3>2, <3>3
  <2> QED BY <2>1, <2>2
<1>3. CloseThread \/ Bootstrap \/ Delete \/ Publish \/ UNCHANGED vars
        => pc' = pc /\ loc' = loc
  BY DEF CloseThread, Bootstrap, Delete, Publish, vars
<1>4. CASE Crash BY <1>4 DEF Crash, KeepOK
<1> QED BY <1>1, <1>2, <1>3, <1>4 DEF Next, Moves

\* No pulled row is lost to a body or a document made before it existed, for every
\* number of people saving and typing, with deletions, restores and restarts: the row
\* reaches the save, where only the fill may prune it.
THEOREM PulledRowsKept ==
    ASSUME "bootstrap" \notin Ops
    PROVE  Spec => PulledKept
<1>1. ASSUME KeepInv, NEW p \in Slots, Saves(p), loc[p].op \in {"put", "post"}
      PROVE  file.pulled \subseteq loc[p].cfg.pulled \cup loc[p].cfg.body
  BY <1>1 DEF KeepInv, KeepOK, Saves
<1>2. KeepInv /\ [Next]_vars =>
        [\A p \in Slots :
            Saves(p) /\ loc[p].op \in {"put", "post"}
                => file.pulled \subseteq loc[p].cfg.pulled \cup loc[p].cfg.body]_vars
  BY <1>1
<1>3. TypeInv /\ KeepInv /\ [Next]_vars => KeepInv' BY KeepNext
<1> QED BY <1>2, <1>3, TypeInit, TypeNext, KeepInit, PTL DEF Spec, PulledKept

\* A clone lands only where there is still no config, whoever creates, deletes or
\* duplicates packs meanwhile.
THEOREM ClonesClobberNothing ==
    ASSUME "bootstrap" \notin Ops
    PROVE  Spec => DuplicateNeverClobbers
<1>1. ASSUME KeepInv, NEW p \in Slots, pc[p] = "store", loc[p].op = "duplicate"
      PROVE  file = NoConfig
  BY <1>1 DEF KeepInv, KeepOK
<1>2. KeepInv /\ [Next]_vars =>
        [\A p \in Slots :
            pc[p] = "store" /\ loc[p].op = "duplicate" /\ file' # file
                => file = NoConfig \/ pc'[p] # "idle"]_vars
  BY <1>1
<1>3. TypeInv /\ KeepInv /\ [Next]_vars => KeepInv' BY KeepNext
<1> QED BY <1>2, <1>3, TypeInit, TypeNext, KeepInit, PTL DEF Spec, DuplicateNeverClobbers

----------------------------------------------------------------------------
(* The operations under way are the ones clients issue *)

Issued == \A q \in Slots : loc[q].op \in Ops \cup {"none"}

\* A request starts an operation of the instance.
LEMMA IssuedRequest ==
    ASSUME TypeOK, NEW p \in Slots, Request(p)
    PROVE  loc'[p].op \in Ops
<1>0. \A pt, R : Goto(p, pt, R) => loc'[p] = R BY DEF TypeOK, Goto
<1>1. CASE PutRead(p)
  <2>1. \E u, e, pre, v :
          Goto(p, "enter",
              [NoLocal EXCEPT !.op = "put", !.by = u, !.edit = {e}, !.pre = pre,
                              !.rev = IF pre = "rev" THEN EditRev(file) ELSE {},
                              !.cfg = Cfg(file.body \cup {e}, file.pulled, v)])
    BY <1>1 DEF PutRead
  <2>2. PICK u, e, pre, v, r :
          Goto(p, "enter",
              [NoLocal EXCEPT !.op = "put", !.by = u, !.edit = {e}, !.pre = pre,
                              !.rev = r, !.cfg = Cfg(file.body \cup {e}, file.pulled, v)])
    BY <2>1
  <2>3. "put" \in Ops BY <1>1 DEF PutRead, Begin
  <2> QED BY <1>0, <2>2, <2>3 DEF NoLocal
<1>2. CASE JoinLoad(p) BY <1>0, <1>2 DEF JoinLoad, Begin, NoLocal
<1>3. CASE PostGet(p) BY <1>0, <1>3 DEF PostGet, Begin, NoLocal
<1>4. CASE CommitEnter(p) BY <1>0, <1>4 DEF CommitEnter, Begin, NoLocal
<1>5. CASE RestoreLoad(p) BY <1>0, <1>5 DEF RestoreLoad, Begin, NoLocal
<1>6. CASE RevertLoad(p) BY <1>0, <1>6 DEF RevertLoad, Begin, NoLocal
<1>7. CASE MergeLoad(p) BY <1>0, <1>7 DEF MergeLoad, Begin, NoLocal
<1>8. CASE VisLoad(p) BY <1>0, <1>8 DEF VisLoad, Begin, NoLocal
<1>9. CASE DuplicateEnter(p) BY <1>0, <1>9 DEF DuplicateEnter, Begin, NoLocal
<1> QED BY <1>1, <1>2, <1>3, <1>4, <1>5, <1>6, <1>7, <1>8, <1>9 DEF Request

\* A handler stays the operation it started as, until it ends.
LEMMA IssuedStep ==
    ASSUME TypeInv, NEW p \in Slots, Step(p) \/ Fail(p)
    PROVE  loc'[p].op \in {loc[p].op, "none"}
<1>0. loc[p] \in Local /\ NoLocal.op = "none" BY AtSlot DEF NoLocal
<1>1. \A pt, R : Goto(p, pt, R) => loc'[p] = R BY DEF TypeInv, TypeOK, Goto
<1>2. \A c : [loc[p] EXCEPT !.cfg = c].op = loc[p].op BY <1>0 DEF Local
<1>3. CASE PutEnter(p)
  <2> DEFINE c == PutConfig(loc[p])
             f == FillNeeded(file, c)
             R == [loc[p] EXCEPT !.cfg = c, !.fill = f]
  <2>1. Goto(p, "save", R) BY <1>3 DEF PutEnter
  <2> HIDE DEF c, f
  <2>2. R.op = loc[p].op BY <1>0 DEF Local
  <2> HIDE DEF R
  <2> QED BY <1>0, <1>1, <2>1, <2>2
<1>4. CASE MatEnter(p)
  <2> DEFINE c == Materialised
             f == FillNeeded(file, c)
             R == [loc[p] EXCEPT !.cfg = c, !.fill = f]
  <2>1. Goto(p, "save", R) BY <1>4 DEF MatEnter
  <2> HIDE DEF c, f
  <2>2. R.op = loc[p].op BY <1>0 DEF Local
  <2> HIDE DEF R
  <2> QED BY <1>0, <1>1, <2>1, <2>2
<1>5. CASE Save(p) BY <1>1, <1>2, <1>5 DEF Save
<1>6. CASE MergeEnter(p) BY <1>1, <1>2, <1>6 DEF MergeEnter
<1>7. CASE VisEnter(p) BY <1>0, <1>1, <1>2, <1>7 DEF VisEnter, Finish
<1>8. CASE PostSeed(p)
  <2> DEFINE d == live'
             R == [loc[p] EXCEPT !.doc = d, !.cfg = NoConfig]
  <2>1. Goto(p, "apply", R) BY <1>8 DEF PostSeed
  <2> HIDE DEF d
  <2>2. R.op = loc[p].op BY <1>0 DEF Local
  <2> HIDE DEF R
  <2> QED BY <1>0, <1>1, <2>1, <2>2
<1>9. CASE PostApply(p)
  <2> DEFINE t == ticket + 1
             R == [loc[p] EXCEPT !.tick = t, !.home = 0]
  <2>1. Goto(p, "debounce", R) BY <1>9 DEF PostApply
  <2> HIDE DEF t
  <2>2. R.op = loc[p].op BY <1>0 DEF Local
  <2> HIDE DEF R
  <2> QED BY <1>0, <1>1, <2>1, <2>2
<1>10. CASE Debounced(p)
  <2> DEFINE R == [loc[p] EXCEPT !.doc = 0, !.tick = 0]
  <2>1. Goto(p, "enter", R) \/ Goto(p, "idle", NoLocal) BY <1>10 DEF Debounced, Finish
  <2>2. R.op = loc[p].op BY <1>0 DEF Local
  <2> HIDE DEF R
  <2> QED BY <1>0, <1>1, <2>1, <2>2
<1>11. CASE Checkpoint(p)
  <2> DEFINE m == [parent |-> head, names |-> {loc[p].by}]
             R == [loc[p] EXCEPT !.cid = nextCommit, !.meta = m]
  <2>1. Goto(p, "snapshot", R) BY <1>11 DEF Checkpoint
  <2> HIDE DEF m
  <2>2. R.op = loc[p].op BY <1>0 DEF Local
  <2> HIDE DEF R
  <2> QED BY <1>0, <1>1, <2>1, <2>2
<1>12. CASE Fail(p) BY <1>0, <1>1, <1>12 DEF Fail, Finish
<1>13. CASE \/ PutRefused(p) \/ Note(p) \/ JoinSeed(p) \/ MatSkip(p) \/ WriteSnapshot(p)
            \/ WriteMeta(p) \/ WriteHead(p) \/ ClearPending(p) \/ Settle(p)
            \/ OverwriteEnter(p) \/ MergeGone(p) \/ VisSummary(p) \/ Store(p)
  BY <1>0, <1>1, <1>13
     DEF PutRefused, Note, JoinSeed, MatSkip, WriteSnapshot, WriteMeta, WriteHead,
         ClearPending, Settle, OverwriteEnter, MergeGone, VisSummary, Store, Finish
<1> QED BY <1>3, <1>4, <1>5, <1>6, <1>7, <1>8, <1>9, <1>10, <1>11, <1>12, <1>13
        DEF Step

\* At start-up and after every step.
LEMMA IssuedInit == Init => Issued
BY DEF Init, Issued, NoLocal

LEMMA IssuedNext == TypeInv /\ Issued /\ [Next]_vars => Issued'
<1> SUFFICES ASSUME TypeInv, Issued, [Next]_vars, NEW q \in Slots
             PROVE  loc'[q].op \in Ops \cup {"none"}
  BY DEF Issued
<1>1. loc[q].op \in Ops \cup {"none"} BY DEF Issued
<1>2. ASSUME NEW p \in Slots, Moves(p) PROVE loc'[q].op \in Ops \cup {"none"}
  <2>1. CASE p # q BY <1>1, <1>2, <2>1, OthersStay DEF TypeInv
  <2>2. CASE p = q
    BY <1>1, <1>2, <2>2, IssuedRequest, IssuedStep DEF Moves, TypeInv
  <2> QED BY <2>1, <2>2
<1>3. CloseThread \/ Bootstrap \/ Delete \/ Publish \/ UNCHANGED vars => loc' = loc
  BY DEF CloseThread, Bootstrap, Delete, Publish, vars
<1>4. Crash => loc'[q].op = "none" BY DEF Crash, NoLocal
<1> QED BY <1>1, <1>2, <1>3, <1>4 DEF Next, Moves

\* The visibility of a stored config moves only by set_pack_visibility's own write.
\* restore_commit and revert_pack_config bring an older one back, and a bootstrap
\* writes its own: they are the hypothesis.
THEOREM ServerFieldsKept ==
    ASSUME "bootstrap" \notin Ops, "restore" \notin Ops, "revert" \notin Ops
    PROVE  Spec => ServerOwnedKept
<1>1. ASSUME TypeInv, KeepInv, Issued, [Next]_vars,
             file # NoConfig, file' # NoConfig, file'.vis # file.vis
      PROVE  \E p \in Slots : pc[p] = "store" /\ loc[p].op = "visibility"
  <2>1. ~Bootstrap /\ ~Delete BY <1>1 DEF Bootstrap, Delete
  <2>2. PICK p \in Slots : Save(p) \/ Store(p) BY <1>1, <2>1, FileWriters
  <2>3. KeepOK(pc[p], loc[p]) /\ loc[p].op \in Ops \cup {"none"}
    BY <1>1 DEF KeepInv, Issued
  <2>4. CASE Save(p)
    <3>1. PICK c \in Filled(loc[p]) : file' = c BY <2>4 DEF Save
    <3>2. c.vis = loc[p].cfg.vis BY DEF Filled, Cfg
    <3>3. pc[p] = "save" BY <2>4 DEF Save
    <3>4. loc[p].op \in {"put", "post", "merge"} BY <2>3, <3>3 DEF KeepOK
    <3>5. loc[p].cfg.vis = file.vis BY <1>1, <2>3, <3>3, <3>4 DEF KeepOK
    <3> QED BY <1>1, <3>1, <3>2, <3>5
  <2>5. CASE Store(p)
    <3>1. pc[p] = "store" BY <2>5 DEF Store
    <3>2. loc[p].op = "visibility" BY <1>1, <2>3, <3>1 DEF KeepOK
    <3> QED BY <3>1, <3>2
  <2> QED BY <2>2, <2>4, <2>5
<1>2. TypeInv /\ KeepInv /\ Issued /\ [Next]_vars =>
        [file # NoConfig /\ file' # NoConfig /\ file'.vis # file.vis =>
            \E p \in Slots : pc[p] = "store" /\ loc[p].op = "visibility"]_vars
  BY <1>1
<1>3. TypeInv /\ KeepInv /\ [Next]_vars => KeepInv' BY KeepNext
<1> QED BY <1>2, <1>3, TypeInit, TypeNext, KeepInit, IssuedInit, IssuedNext, PTL
        DEF Spec, ServerOwnedKept

----------------------------------------------------------------------------
(* The document holds what is stored *)

\* Whole-config writes forget the document before they write, and a bootstrap or a
\* deletion does not touch it; what follows is of packs edited through the document.
DocumentOnly ==
    Ops \cap {"put", "restore", "revert", "merge", "delete", "bootstrap"} = {}

\* A handler about to seed holds everything stored, unless somebody seeded before it;
\* a materialise inside the lock holds everything stored and nothing that is not in
\* the document; a visibility toggle changes no content.
DocOK(pt, l) ==
    /\ pt = "seed" => file # NoConfig /\ (live = 0 => file.body \subseteq l.cfg.body)
    /\ pt = "save" => /\ live # 0
                      /\ file.body \subseteq l.cfg.body
                      /\ l.cfg.body \subseteq docs[live].body
    /\ pt = "store" /\ l.op = "visibility" => file # NoConfig /\ l.cfg.body = file.body

DocInv ==
    /\ live # 0 => file # NoConfig /\ file.body \subseteq docs[live].body
    /\ \A q \in Slots : DocOK(pc[q], loc[q])

\* get_or_seed keeps the registered document or registers one made of what was read.
LEMMA SeedMoves ==
    ASSUME TypeOK, NEW c, GetOrSeed(c)
    PROVE  \/ live # 0 /\ live' = live /\ docs' = docs
           \/ live = 0 /\ live' # 0 /\ docs'[live'].body = c.body
<1>1. CASE live # 0 /\ UNCHANGED <<live, docs, nextDoc>> BY <1>1
<1>2. CASE /\ live = 0 /\ nextDoc <= MaxDocs
           /\ live' = nextDoc
           /\ docs' = [docs EXCEPT ![nextDoc] = [body |-> c.body, pulled |-> c.pulled]]
  <2>1. nextDoc \in DocIds /\ nextDoc # 0 BY <1>2, ConstantsOK DEF TypeOK, DocIds
  <2> QED BY <1>2, <2>1 DEF TypeOK
<1> QED BY <1>1, <1>2 DEF GetOrSeed

\* An update only adds to its document.
LEMMA ApplyGrows ==
    ASSUME TypeInv, NEW p \in Slots, PostApply(p), NEW d \in DocIds
    PROVE  docs[d].body \subseteq docs'[d].body
<1>1. loc[p].doc \in DocIds BY AtSlot DEF PostApply, SlotOK
<1>2. PICK new \in Applied(loc[p]) : docs' = [docs EXCEPT ![loc[p].doc] = new]
  BY DEF PostApply
<1>3. docs[loc[p].doc].body \subseteq new.body BY <1>2 DEF Applied
<1> QED BY <1>1, <1>2, <1>3 DEF TypeInv, TypeOK

\* What a step can do to the registered document: forget it with the process, let it
\* grow, or seed one.
LEMMA DocumentMoves ==
    ASSUME TypeInv, Issued, DocumentOnly, [Next]_vars, ~Crash
    PROVE  \/ live' = live /\ (live # 0 => docs[live].body \subseteq docs'[live].body)
           \/ /\ live = 0 /\ live' # 0 /\ file' = file
              /\ \E p \in Slots : pc[p] = "seed" /\ docs'[live'].body = loc[p].cfg.body
<1>0. TypeOK /\ (live # 0 => live \in DocIds)
  BY ConstantsOK DEF TypeInv, TypeOK, DocIds
<1>1. CASE live' = live /\ docs' = docs BY <1>1
<1>2. ASSUME NEW p \in Slots, JoinSeed(p) \/ PostSeed(p)
      PROVE  \/ live' = live /\ docs' = docs
             \/ /\ live = 0 /\ live' # 0 /\ file' = file
                /\ pc[p] = "seed" /\ docs'[live'].body = loc[p].cfg.body
  BY <1>0, <1>2, SeedMoves DEF JoinSeed, PostSeed, disk
<1>3. ASSUME NEW p \in Slots, PostApply(p)
      PROVE  live' = live /\ (live # 0 => docs[live].body \subseteq docs'[live].body)
  BY <1>0, <1>3, ApplyGrows DEF PostApply
<1>4. ASSUME NEW p \in Slots, PutEnter(p) \/ OverwriteEnter(p) \/ MergeEnter(p)
      PROVE  FALSE
  <2>1. loc[p].op \in {"put", "restore", "revert", "merge"}
    BY <1>4 DEF PutEnter, OverwriteEnter, MergeEnter
  <2> QED BY <2>1 DEF Issued, DocumentOnly
<1>5. ASSUME NEW p \in Slots, Request(p) PROVE live' = live /\ docs' = docs
  BY <1>5 DEF Request, PutRead, JoinLoad, PostGet, CommitEnter, RestoreLoad, RevertLoad,
              MergeLoad, VisLoad, DuplicateEnter, memory
<1>6. ASSUME NEW p \in Slots, Step(p) \/ Fail(p),
             ~(JoinSeed(p) \/ PostSeed(p) \/ PostApply(p))
      PROVE  live' = live /\ docs' = docs
  BY <1>4, <1>6
     DEF Step, Fail, PutRefused, Save, Note, Debounced, MatEnter, MatSkip, Checkpoint,
         WriteSnapshot, WriteMeta, WriteHead, ClearPending, Settle, MergeGone,
         VisSummary, VisEnter,
         Store, memory
<1>7. CloseThread \/ Bootstrap \/ Delete \/ Publish \/ UNCHANGED vars
        => live' = live /\ docs' = docs
  BY DEF CloseThread, Bootstrap, Delete, Publish, memory, vars
<1> QED BY <1>1, <1>2, <1>3, <1>5, <1>6, <1>7 DEF Next

\* What a write of config.json does to its content: a save stores what it carries,
\* all of it in the document; a toggle stores the content that was there; a clone is
\* stored where there was nothing.
LEMMA ContentMoves ==
    ASSUME TypeInv, KeepInv, DocInv, DocumentOnly, [Next]_vars, file' # file
    PROVE  /\ file' # NoConfig
           /\ \/ /\ live # 0 /\ live' = live /\ docs' = docs
                 /\ file'.body \subseteq docs[live].body
              \/ file # NoConfig /\ file'.body = file.body
              \/ file = NoConfig /\ live' = live
<1>1. ~Bootstrap /\ ~Delete BY DEF DocumentOnly, Bootstrap, Delete
<1>2. PICK p \in Slots : Save(p) \/ Store(p) BY <1>1, FileWriters
<1>3. /\ loc[p] \in Local /\ SlotOK(p, pc[p], loc[p], lock)
      /\ KeepOK(pc[p], loc[p]) /\ DocOK(pc[p], loc[p])
  BY AtSlot DEF KeepInv, DocInv
<1>4. NoConfig \notin Config BY ConstantsOK DEF NoConfig, Cfg, Config
<1>5. pc[p] \in Locked BY <1>2 DEF Save, Store, Locked
<1>6. loc[p].cfg \in Config BY <1>3, <1>5 DEF SlotOK
<1>7. CASE Save(p)
  <2>1. PICK c \in Filled(loc[p]) : file' = c BY <1>7 DEF Save
  <2>2. c.body = loc[p].cfg.body BY FilledBody
  <2>3. c \in Config BY <1>3, <1>6, FilledType
  <2>4. live # 0 /\ loc[p].cfg.body \subseteq docs[live].body
    BY <1>3, <1>7 DEF Save, DocOK
  <2>5. live' = live /\ docs' = docs BY <1>7 DEF Save, memory
  <2> QED BY <1>4, <2>1, <2>2, <2>3, <2>4, <2>5
<1>8. CASE Store(p)
  <2>1. file' = loc[p].cfg /\ pc[p] = "store" /\ live' = live
    BY <1>8 DEF Store, memory
  <2>2. loc[p].op \in {"visibility", "duplicate"} BY <1>3, <2>1 DEF KeepOK
  <2>3. CASE loc[p].op = "visibility" BY <1>3, <1>4, <1>6, <2>1, <2>3 DEF DocOK
  <2>4. CASE loc[p].op = "duplicate" BY <1>3, <1>4, <1>6, <2>1, <2>4 DEF KeepOK
  <2> QED BY <2>2, <2>3, <2>4
<1> QED BY <1>2, <1>7, <1>8

\* A handler that arrives where it carries content carries what is stored.
LEMMA DocArrives ==
    ASSUME TypeInv, Issued, DocInv, DocumentOnly, NEW p \in Slots, Moves(p)
    PROVE  DocOK(pc[p], loc[p])'
<1>0. TypeOK /\ loc[p] \in Local BY AtSlot DEF TypeInv
<1>1. CASE pc'[p] = "seed"
  <2>1. CASE JoinLoad(p)
    <3>1. PICK u \in Users :
            Goto(p, "seed", [NoLocal EXCEPT !.op = "join", !.by = u, !.cfg = file])
      BY <2>1 DEF JoinLoad
    <3>2. loc'[p].cfg = file BY <1>0, <3>1 DEF Goto, TypeOK, NoLocal
    <3>3. file # NoConfig /\ file' = file BY <2>1 DEF JoinLoad, disk
    <3> QED BY <1>1, <3>2, <3>3 DEF DocOK
  <2>2. CASE PostGet(p)
    <3>1. PICK u \in Users, e \in Fresh :
            LET l == [NoLocal EXCEPT !.op = "post", !.by = u, !.edit = {e},
                                     !.home = seat[u]]
            IN  IF live # 0
                THEN Goto(p, "apply", [l EXCEPT !.doc = live])
                ELSE Goto(p, "seed", [l EXCEPT !.cfg = file])
      BY <2>2 DEF PostGet
    <3>2. live = 0 BY <1>0, <1>1, <3>1 DEF Goto, TypeOK
    <3> DEFINE l == [NoLocal EXCEPT !.op = "post", !.by = u, !.edit = {e}, !.home = seat[u]]
    <3>3. Goto(p, "seed", [l EXCEPT !.cfg = file]) BY <3>1, <3>2
    <3>4. "cfg" \in DOMAIN l BY DEF NoLocal
    <3> HIDE DEF l
    <3>5. loc'[p].cfg = file BY <1>0, <3>3, <3>4 DEF Goto, TypeOK
    <3>6. file # NoConfig /\ file' = file BY <2>2, <3>2 DEF PostGet, disk
    <3> QED BY <1>1, <3>5, <3>6 DEF DocOK
  <2> QED BY <1>0, <1>1, <2>1, <2>2, Arrivals
<1>2. CASE pc'[p] = "save"
  <2>1. loc[p].op \in Ops \cup {"none"} BY DEF Issued
  <2>2. MatEnter(p)
    <3>1. ~PutEnter(p) /\ ~OverwriteEnter(p) /\ ~MergeEnter(p)
      BY <2>1 DEF PutEnter, OverwriteEnter, MergeEnter, DocumentOnly
    <3> QED BY <1>0, <1>2, <3>1, Arrivals
  <2> DEFINE c == Materialised
             f == FillNeeded(file, c)
             R == [loc[p] EXCEPT !.cfg = c, !.fill = f]
  <2>3. loc'[p] = R /\ file' = file /\ live' = live /\ docs' = docs
    BY <2>2, <1>0 DEF MatEnter, disk, memory, Goto, TypeOK
  <2>4. live # 0 BY <2>2 DEF MatEnter, NothingMoved
  <2>5. c.body = docs[live].body
    <3>1. Cfg(docs[live].body, docs[live].pulled, file.vis).body = docs[live].body
      BY DEF Cfg
    <3> QED BY <3>1, MergeKeeps DEF Materialised
  <2> HIDE DEF c, f
  <2>6. R.cfg = c BY <1>0 DEF Local
  <2> HIDE DEF R
  <2> QED BY <1>2, <2>3, <2>4, <2>5, <2>6 DEF DocOK, DocInv
<1>3. CASE pc'[p] = "store"
  <2>1. CASE VisEnter(p)
    <3> DEFINE c == WithVis(file, loc[p].cfg.vis)
               R == [loc[p] EXCEPT !.cfg = c]
    <3>1. loc'[p] = R /\ file' = file /\ file # NoConfig
      BY <1>0, <1>3, <2>1 DEF VisEnter, Finish, Goto, TypeOK, disk
    <3>2. c.body = file.body BY DEF WithVis, Cfg
    <3> HIDE DEF c
    <3>3. R.cfg = c BY <1>0 DEF Local
    <3> HIDE DEF R
    <3> QED BY <1>3, <3>1, <3>2, <3>3 DEF DocOK
  <2>2. CASE DuplicateEnter(p)
    <3>1. PICK e \in Fresh :
            Goto(p, "store", [NoLocal EXCEPT !.op = "duplicate", !.edit = {e},
                                !.cfg = Cfg({e}, {}, Draft)])
      BY <2>2 DEF DuplicateEnter
    <3>2. loc'[p].op = "duplicate" BY <1>0, <3>1 DEF Goto, TypeOK, NoLocal
    <3> QED BY <1>3, <3>2 DEF DocOK
  <2> QED BY <1>0, <1>3, <2>1, <2>2, Arrivals
<1>4. CASE pc'[p] \notin {"seed", "save", "store"} BY <1>4 DEF DocOK
<1> QED BY <1>1, <1>2, <1>3, <1>4

\* What a slot that stays knows survives the others' steps.
LEMMA DocStays ==
    ASSUME TypeInv, KeepInv, Issued, DocInv, DocumentOnly, [Next]_vars, ~Crash,
           NEW q \in Slots, pc'[q] = pc[q], loc'[q] = loc[q]
    PROVE  DocOK(pc[q], loc[q])'
<1>0. DocOK(pc[q], loc[q]) BY DEF DocInv
<1>1. \/ live' = live /\ (live # 0 => docs[live].body \subseteq docs'[live].body)
      \/ live = 0 /\ live' # 0 /\ file' = file
  BY DocumentMoves
<1>2. ~Bootstrap /\ ~Delete BY DEF DocumentOnly, Bootstrap, Delete
<1>3. CASE pc[q] = "seed"
  <2>1. file # NoConfig BY <1>0, <1>3 DEF DocOK
  <2>2. CASE file' = file BY <1>0, <1>1, <1>3, <2>2 DEF DocOK
  <2>3. CASE file' # file
    <3>1. /\ file' # NoConfig
          /\ \/ live # 0 /\ live' = live
             \/ file'.body = file.body
      BY <2>1, <2>3, ContentMoves
    <3> QED BY <1>0, <1>1, <1>3, <2>3, <3>1 DEF DocOK
  <2> QED BY <2>2, <2>3
<1>4. CASE pc[q] \in {"save", "store"}
  <2>1. file' = file BY <1>2, <1>4, LockedFile DEF Locked
  <2> QED BY <1>0, <1>1, <1>4, <2>1 DEF DocOK
<1>5. CASE pc[q] \notin {"seed", "save", "store"} BY <1>5 DEF DocOK
<1> QED BY <1>3, <1>4, <1>5

\* No document and no handler at start-up.
LEMMA DocInit == Init => DocInv
BY DEF Init, DocInv, DocOK

\* Every step of a pack edited through its document keeps the invariant.
LEMMA DocNext ==
    ASSUME DocumentOnly
    PROVE  TypeInv /\ KeepInv /\ Issued /\ DocInv /\ [Next]_vars => DocInv'
<1> SUFFICES ASSUME TypeInv, KeepInv, Issued, DocInv, [Next]_vars PROVE DocInv' OBVIOUS
<1>1. CASE Crash BY <1>1 DEF Crash, DocInv, DocOK
<1>2. CASE ~Crash
  <2>1. ASSUME NEW q \in Slots PROVE DocOK(pc[q], loc[q])'
    <3>1. CASE \E p \in Slots : Moves(p)
      <4>1. PICK p \in Slots : Moves(p) BY <3>1
      <4>2. CASE p = q BY <4>1, <4>2, DocArrives
      <4>3. CASE p # q
        <5>1. pc'[q] = pc[q] /\ loc'[q] = loc[q] BY <4>1, <4>3, OthersStay DEF TypeInv
        <5> QED BY <1>2, <5>1, DocStays
      <4> QED BY <4>2, <4>3
    <3>2. CASE CloseThread \/ Bootstrap \/ Delete \/ Publish \/ UNCHANGED vars
      <4>1. pc' = pc /\ loc' = loc
        BY <3>2 DEF CloseThread, Bootstrap, Delete, Publish, vars
      <4> QED BY <1>2, <4>1, DocStays
    <3> QED BY <1>2, <3>1, <3>2 DEF Next, Moves
  <2>2. ASSUME live' # 0 PROVE file' # NoConfig /\ file'.body \subseteq docs'[live'].body
    <3>1. CASE live = 0
      <4>1. PICK p \in Slots :
              pc[p] = "seed" /\ docs'[live'].body = loc[p].cfg.body /\ file' = file
        BY <1>2, <2>2, <3>1, DocumentMoves
      <4>2. file # NoConfig /\ file.body \subseteq loc[p].cfg.body
        BY <3>1, <4>1 DEF DocInv, DocOK
      <4> QED BY <4>1, <4>2
    <3>2. CASE live # 0
      <4>1. live' = live /\ docs[live].body \subseteq docs'[live].body
        BY <1>2, <3>2, DocumentMoves
      <4>2. file # NoConfig /\ file.body \subseteq docs[live].body BY <3>2 DEF DocInv
      <4>3. CASE file' = file BY <4>1, <4>2, <4>3
      <4>4. CASE file' # file
        <5>1. /\ file' # NoConfig
              /\ \/ docs' = docs /\ file'.body \subseteq docs[live].body
                 \/ file'.body = file.body
          BY <4>2, <4>4, ContentMoves
        <5> QED BY <4>1, <4>2, <5>1
      <4> QED BY <4>3, <4>4
    <3> QED BY <3>1, <3>2
  <2> QED BY <2>1, <2>2 DEF DocInv
<1> QED BY <1>1, <1>2

\* Materialising the document never drops stored work, for every number of editors,
\* documents, restarts and failed writes, in a pack that is edited through its document
\* (commits, toggles, clones and publications going on beside it).
THEOREM MaterialisedWorkKept ==
    ASSUME DocumentOnly
    PROVE  Spec => MaterialiseKeeps
<1>0. "bootstrap" \notin Ops BY DEF DocumentOnly
<1>1. ASSUME TypeInv, DocInv, [Next]_vars, NEW p \in Slots, Saves(p)
      PROVE  file.body \subseteq file'.body
  <2>1. Save(p) BY <1>1, SaveMoves DEF TypeInv
  <2>2. PICK c \in Filled(loc[p]) : file' = c BY <2>1 DEF Save
  <2>3. c.body = loc[p].cfg.body BY FilledBody
  <2>4. file.body \subseteq loc[p].cfg.body BY <1>1, <2>1 DEF Save, DocInv, DocOK
  <2> QED BY <2>2, <2>3, <2>4
<1>2. TypeInv /\ DocInv /\ [Next]_vars =>
        [\A p \in Slots :
            Saves(p) /\ loc[p].op = "post" => file.body \subseteq file'.body]_vars
  BY <1>1
<1>3. TypeInv /\ KeepInv /\ [Next]_vars => KeepInv' BY <1>0, KeepNext
<1>4. TypeInv /\ KeepInv /\ Issued /\ DocInv /\ [Next]_vars => DocInv' BY DocNext
<1> QED BY <1>2, <1>3, <1>4, TypeInit, TypeNext, KeepInit, IssuedInit, IssuedNext, DocInit,
           PTL DEF Spec, MaterialiseKeeps
============================================================================
