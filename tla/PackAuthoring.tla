--------------------------- MODULE PackAuthoring ---------------------------
(***************************************************************************)
(* The authoring side of one pack (src/http/admin.rs, src/storage.rs,      *)
(* src/authoring/packdoc.rs, src/authoring/commits.rs): its config.json,   *)
(* the live document editors merge into, the commit history, and the HTTP  *)
(* handlers that move them.  The config lock is keyed by pack id, so one   *)
(* pack is the whole interaction.                                          *)
(*                                                                         *)
(* A config is abstracted to the set of edits it contains (body), the rows *)
(* the dependency fill pulled in (pulled), and its visibility, which       *)
(* stands for the four server-owned fields.  A handler is a slot p with a  *)
(* program counter: one action per stretch between two points where        *)
(* another task can touch the same state.                                  *)
(***************************************************************************)
EXTENDS Naturals, FiniteSets

CONSTANTS
    Slots,        \* request slots; a spawned materialise task keeps its slot
    Users,        \* logins of the people editing the pack
    Edits,        \* authored changes, each made at most once
    Declares,     \* the edits that change the declared mods or assets
    Offer,        \* the edit a proposal's fork carries
    Rows,         \* dependency rows the fill may pull in
    Vis,          \* visibilities; Draft is the one a clone starts at
    Draft,
    DefaultVis,   \* the visibility of a config that names none
    Ops,          \* the operations the clients of this instance issue
    MaxDocs,      \* bound: documents seeded over the run
    MaxCommits,   \* bound: commits written over the run
    MaxCrashes,   \* bound: restarts over the run
    None          \* absence: no file, no user, no document, no commit

AllOps == {"put", "join", "post", "commit", "restore", "revert", "merge",
           "close", "visibility", "delete", "duplicate", "bootstrap",
           "publish", "fail", "crash"}

ASSUME ConstantsOK ==
    /\ Declares \subseteq Edits
    /\ Offer \in Edits
    /\ Draft \in Vis /\ DefaultVis \in Vis
    /\ Ops \subseteq AllOps
    /\ MaxDocs \in Nat /\ MaxCommits \in Nat /\ MaxCrashes \in Nat
    /\ None \notin Users \cup Slots \cup Vis

Config == [body : SUBSET (Edits \cup Rows), pulled : SUBSET Rows, vis : Vis]
Cfg(b, r, v) == [body |-> b, pulled |-> r, vis |-> v]
WithVis(c, v) == Cfg(c.body, c.pulled, v)
NoConfig == Cfg({}, {}, None)
DocIds == 1..MaxDocs
CommitIds == 1..MaxCommits
\* commit and document numbers start at 1; 0 is HEAD absent, no parent, no document
Meta == [parent : 0..MaxCommits, names : SUBSET Users]
NoMeta == [parent |-> 0, names |-> {}]

VARIABLES
    file,      \* authoring/config.json
    summary,   \* visibility in summary.json
    released,  \* content of the latest published manifest
    snaps,     \* commits/<id>.snapshot.json
    metas,     \* commits/<id>.json
    head,      \* commits/HEAD
    pending,   \* commits/pending.json: who saved since HEAD moved
    thread,    \* the proposal's row in accounts.db
    live,      \* PackDocs.docs: the document registered for the pack
    docs,      \* what each document holds; a handler may keep a forgotten one
    ticket,    \* PackDocs.tickets
    lock,      \* the holder of Storage.config_locks for the pack
    pc, loc,   \* each slot's program counter and locals
    seat,      \* the document each editor's session joined
    author,    \* who made each edit; None while it is unused
    nextDoc, nextCommit, crashes

disk == <<file, summary, released, snaps, metas, head, pending, thread>>
history == <<snaps, metas, head, pending>>
memory == <<live, docs, ticket, nextDoc>>
people == <<seat, author>>
vars == <<file, summary, released, snaps, metas, head, pending, thread, live,
          docs, ticket, lock, pc, loc, seat, author, nextDoc, nextCommit,
          crashes>>

Local ==
    [op : AllOps \cup {"none"}, by : Users \cup {None}, edit : SUBSET Edits,
     pre : {"none", "any", "rev"}, rev : SUBSET (Edits \cup Rows),
     cfg : Config \cup {NoConfig}, fill : BOOLEAN, doc : 0..MaxDocs,
     home : 0..MaxDocs, tick : Nat, cid : 0..MaxCommits, meta : Meta]

NoLocal ==
    [op |-> "none", by |-> None, edit |-> {}, pre |-> "none", rev |-> {},
     cfg |-> NoConfig, fill |-> FALSE, doc |-> 0, home |-> 0, tick |-> 0,
     cid |-> 0, meta |-> NoMeta]

\* Program points outside and inside the config lock.
Waiting == {"idle", "enter", "patch", "seed", "apply", "debounce"}
Locked == {"save", "note", "checkpoint", "snapshot", "meta", "head", "clear",
           "settle", "store"}

Init ==
    /\ file \in {NoConfig, Cfg({}, {}, Draft)}
    /\ summary = None
    /\ released = NoConfig
    /\ snaps = [c \in CommitIds |-> NoConfig]
    /\ metas = [c \in CommitIds |-> NoMeta]
    /\ head = 0
    /\ pending = {}
    /\ thread = "open"
    /\ live = 0
    /\ docs = [d \in DocIds |-> [body |-> {}, pulled |-> {}]]
    /\ ticket = 0
    /\ lock = None
    /\ pc = [p \in Slots |-> "idle"]
    /\ loc = [p \in Slots |-> NoLocal]
    /\ seat = [u \in Users |-> 0]
    /\ author = [e \in Edits |-> None]
    /\ nextDoc = 1
    /\ nextCommit = 1
    /\ crashes = 0

----------------------------------------------------------------------------
(* Slots, the lock and fresh edits *)

Fresh == {e \in Edits \ {Offer} : author[e] = None}

Goto(p, point, l) ==
    /\ pc' = [pc EXCEPT ![p] = point]
    /\ loc' = [loc EXCEPT ![p] = l]

Finish(p) == Goto(p, "idle", NoLocal)

\* A handler with nothing pending starts operation op in slot p.
Begin(p, op) == op \in Ops /\ pc[p] = "idle"

\* Mutant: the lock is taken without waiting for its holder.
AcquireBarging(p) == lock' = p

\* lock_pack_config: the slot waits until nobody holds the pack's lock.
Acquire(p) == lock = None /\ lock' = p
Release(p) == lock = p /\ lock' = None

\* PackConfig::edit_rev: everything a client authors, nothing server-owned.
EditRev(c) == c.body

\* fill_needed: did the declared mods or assets move?
Declared(c) == <<c.body \cap (Declares \cup Rows), c.pulled>>
FillNeeded(before, after) == before = NoConfig \/ Declared(before) # Declared(after)

\* Mutant: the sticky merge is skipped.
MergePulledDropped(saved, incoming) == incoming

\* merge_pulled: pulled rows on disk that the incoming config lacks are kept.
MergePulled(saved, incoming) ==
    Cfg(incoming.body, incoming.pulled \cup (saved.pulled \ incoming.body),
        incoming.vis)

----------------------------------------------------------------------------
(* put_pack_config *)

\* The client reads the config (or learns there is none) and edits its copy.
PutRead(p) ==
    /\ Begin(p, "put")
    /\ \E u \in Users, e \in Fresh, pre \in {"none", "any", "rev"}, v \in Vis :
        /\ pre = "rev" => file # NoConfig
        /\ Goto(p, "enter",
                [NoLocal EXCEPT !.op = "put", !.by = u, !.edit = {e}, !.pre = pre,
                                !.rev = IF pre = "rev" THEN EditRev(file) ELSE {},
                                !.cfg = Cfg(file.body \cup {e}, file.pulled, v)])
        /\ author' = [author EXCEPT ![e] = u]
    /\ UNCHANGED <<disk, memory, lock, seat, nextCommit, crashes>>

\* Mutant: If-Match asks only that some config is stored.
PreconditionAnyRev(l) == l.pre = "none" \/ file # NoConfig

\* check_precondition against the config on disk.
PreconditionHolds(l) ==
    CASE l.pre = "none" -> TRUE
      [] l.pre = "any" -> file # NoConfig
      [] l.pre = "rev" -> file # NoConfig /\ EditRev(file) = l.rev

\* Mutant: the client's visibility is trusted.
PutConfigTrusting(l) ==
    IF file # NoConfig THEN MergePulled(file, l.cfg) ELSE WithVis(l.cfg, Draft)

\* Server-owned fields come from disk on an edit, from the namespace on create.
PutConfig(l) ==
    IF file # NoConfig
    THEN MergePulled(file, WithVis(l.cfg, file.vis))
    ELSE WithVis(l.cfg, Draft)

PutEnter(p) ==
    LET l == loc[p] IN
    /\ pc[p] = "enter" /\ l.op = "put"
    /\ Acquire(p)
    /\ PreconditionHolds(l)
    /\ Goto(p, "save", [l EXCEPT !.cfg = PutConfig(l),
                                 !.fill = FillNeeded(file, PutConfig(l))])
    /\ live' = 0
    /\ UNCHANGED <<disk, docs, ticket, people, nextDoc, nextCommit, crashes>>

PutRefused(p) ==
    /\ pc[p] = "enter" /\ loc[p].op = "put"
    /\ lock = None
    /\ ~PreconditionHolds(loc[p])
    /\ Finish(p)
    /\ UNCHANGED <<disk, memory, lock, people, nextCommit, crashes>>

----------------------------------------------------------------------------
(* store_edited_config, shared by every door into the config *)

\* The fill may pull rows in, prune them, or fail and leave the config alone.
Filled(l) ==
    IF l.fill
    THEN {Cfg(l.cfg.body, rows, l.cfg.vis) : rows \in SUBSET (Rows \ l.cfg.body)}
         \cup {l.cfg}
    ELSE {l.cfg}

Save(p) ==
    /\ pc[p] = "save" /\ lock = p
    /\ \E c \in Filled(loc[p]) :
        /\ file' = c
        /\ Goto(p, "note", [loc[p] EXCEPT !.cfg = c])
    /\ UNCHANGED <<summary, released, history, thread, memory, lock, people,
                   nextCommit, crashes>>

\* Operations that go on to write a checkpoint of what they stored.
Checkpoints == {"restore", "revert", "merge"}

\* note_pending_author, best effort; then the handler's own continuation.
Note(p) ==
    /\ pc[p] = "note" /\ lock = p
    /\ pending' \in {pending \cup {loc[p].by}}
                    \cup (IF "fail" \in Ops THEN {pending} ELSE {})
    /\ IF loc[p].op \in Checkpoints
       THEN Goto(p, "checkpoint", loc[p]) /\ UNCHANGED lock
       ELSE Finish(p) /\ Release(p)
    /\ UNCHANGED <<file, summary, released, snaps, metas, head, thread, memory,
                   people, nextCommit, crashes>>

----------------------------------------------------------------------------
(* get_pack_doc, post_pack_doc and materialise *)

\* Mutant: every ask seeds a new document and replaces the registered one.
SeedAlways(cfg) ==
    /\ nextDoc <= MaxDocs
    /\ live' = nextDoc
    /\ docs' = [docs EXCEPT ![nextDoc] = [body |-> cfg.body, pulled |-> cfg.pulled]]
    /\ nextDoc' = nextDoc + 1

\* The registered document, or one seeded from cfg if there is none.
GetOrSeed(cfg) ==
    \/ /\ live # 0
       /\ UNCHANGED <<live, docs, nextDoc>>
    \/ /\ live = 0 /\ nextDoc <= MaxDocs
       /\ live' = nextDoc
       /\ docs' = [docs EXCEPT ![nextDoc] = [body |-> cfg.body, pulled |-> cfg.pulled]]
       /\ nextDoc' = nextDoc + 1

\* get_pack_doc reads the config without the lock ...
JoinLoad(p) ==
    /\ Begin(p, "join")
    /\ file # NoConfig
    /\ \E u \in Users :
        Goto(p, "seed", [NoLocal EXCEPT !.op = "join", !.by = u, !.cfg = file])
    /\ UNCHANGED <<disk, memory, lock, people, nextCommit, crashes>>

\* ... and seeds the document from what it read; the editor joins that document.
JoinSeed(p) ==
    /\ pc[p] = "seed" /\ loc[p].op = "join"
    /\ GetOrSeed(loc[p].cfg)
    /\ seat' = [seat EXCEPT ![loc[p].by] = live']
    /\ Finish(p)
    /\ UNCHANGED <<disk, ticket, lock, author, nextCommit, crashes>>

\* post_pack_doc: an editor sends an update made on the document it joined.
PostGet(p) ==
    /\ Begin(p, "post")
    /\ live # 0 \/ file # NoConfig
    /\ \E u \in Users, e \in Fresh :
        /\ seat[u] # 0
        /\ LET l == [NoLocal EXCEPT !.op = "post", !.by = u, !.edit = {e},
                                    !.home = seat[u]]
           IN  IF live # 0
               THEN Goto(p, "apply", [l EXCEPT !.doc = live])
               ELSE Goto(p, "seed", [l EXCEPT !.cfg = file])
        /\ author' = [author EXCEPT ![e] = u]
    /\ UNCHANGED <<disk, memory, lock, seat, nextCommit, crashes>>

PostSeed(p) ==
    /\ pc[p] = "seed" /\ loc[p].op = "post"
    /\ GetOrSeed(loc[p].cfg)
    /\ Goto(p, "apply", [loc[p] EXCEPT !.doc = live', !.cfg = NoConfig])
    /\ UNCHANGED <<disk, ticket, lock, people, nextCommit, crashes>>

\* yrs: an update made on this document integrates; one made on another
\* document's history integrates or waits for blocks this one never gets.
Applied(l) ==
    LET merged == [body |-> docs[l.doc].body \cup l.edit, pulled |-> docs[l.doc].pulled]
    IN  IF l.home = l.doc THEN {merged} ELSE {merged, docs[l.doc]}

\* The update is merged and fanned out, the handler takes a ticket and answers
\* 202; the task it spawned sleeps for MATERIALISE_AFTER.
PostApply(p) ==
    /\ pc[p] = "apply"
    /\ \E d \in Applied(loc[p]) : docs' = [docs EXCEPT ![loc[p].doc] = d]
    /\ ticket' = ticket + 1
    /\ Goto(p, "debounce", [loc[p] EXCEPT !.tick = ticket + 1, !.home = 0])
    /\ UNCHANGED <<disk, live, nextDoc, lock, people, nextCommit, crashes>>

\* Mutant: an off-by-one leaves nobody holding the newest ticket.
IsCurrentLate(t) == ticket < t

\* PackDocs::is_current
IsCurrent(t) == ticket = t

\* The sleep is over: only the holder of the newest ticket goes on to write.
Debounced(p) ==
    /\ pc[p] = "debounce"
    /\ IF IsCurrent(loc[p].tick)
       THEN Goto(p, "enter", [loc[p] EXCEPT !.doc = 0, !.tick = 0])
       ELSE Finish(p)
    /\ UNCHANGED <<disk, memory, lock, people, nextCommit, crashes>>

\* to_config over the stored file, with the pulled rows carried from it.
Materialised ==
    MergePulled(file, Cfg(docs[live].body, docs[live].pulled, file.vis))

NothingMoved == IF live = 0 \/ file = NoConfig THEN TRUE ELSE Materialised = file

MatEnter(p) ==
    /\ pc[p] = "enter" /\ loc[p].op = "post"
    /\ ~NothingMoved
    /\ Acquire(p)
    /\ Goto(p, "save", [loc[p] EXCEPT !.cfg = Materialised,
                                      !.fill = FillNeeded(file, Materialised)])
    /\ UNCHANGED <<disk, memory, people, nextCommit, crashes>>

\* Nothing to write: no document, no config, or nothing moved -- or the merged
\* document is not a config at the moment, which "fail" instances allow.
MatSkip(p) ==
    /\ pc[p] = "enter" /\ loc[p].op = "post"
    /\ lock = None
    /\ NothingMoved \/ "fail" \in Ops
    /\ Finish(p)
    /\ UNCHANGED <<disk, memory, lock, people, nextCommit, crashes>>

----------------------------------------------------------------------------
(* Commits: create_commit, and the checkpoint of a restore, revert or merge *)

\* The signer, and everyone who saved since the last commit.
Contributors(u) == {u} \cup pending

CommitEnter(p) ==
    /\ Begin(p, "commit")
    /\ file # NoConfig /\ nextCommit <= MaxCommits
    /\ Acquire(p)
    /\ \E u \in Users :
        Goto(p, "snapshot",
             [NoLocal EXCEPT !.op = "commit", !.by = u, !.cfg = file,
                             !.cid = nextCommit,
                             !.meta = [parent |-> head, names |-> Contributors(u)]])
    /\ nextCommit' = nextCommit + 1
    /\ UNCHANGED <<disk, memory, people, crashes>>

\* checkpoint: names only the person who pressed it.
Checkpoint(p) ==
    /\ pc[p] = "checkpoint" /\ nextCommit <= MaxCommits
    /\ Goto(p, "snapshot",
            [loc[p] EXCEPT !.cid = nextCommit,
                           !.meta = [parent |-> head, names |-> {loc[p].by}]])
    /\ nextCommit' = nextCommit + 1
    /\ UNCHANGED <<disk, memory, lock, people, crashes>>

\* Mutant: HEAD moves with the first write, before the metadata is on disk.
HeadFirst(p) ==
    /\ pc[p] = "snapshot"
    /\ snaps' = [snaps EXCEPT ![loc[p].cid] = loc[p].cfg]
    /\ head' = loc[p].cid
    /\ Goto(p, "meta", loc[p])
    /\ UNCHANGED <<file, summary, released, metas, pending, thread, memory, lock,
                   people, nextCommit, crashes>>

\* save_commit: the snapshot lands first, then the metadata, then HEAD.
WriteSnapshot(p) ==
    /\ pc[p] = "snapshot"
    /\ snaps' = [snaps EXCEPT ![loc[p].cid] = loc[p].cfg]
    /\ Goto(p, "meta", loc[p])
    /\ UNCHANGED <<file, summary, released, metas, head, pending, thread, memory,
                   lock, people, nextCommit, crashes>>

WriteMeta(p) ==
    /\ pc[p] = "meta"
    /\ metas' = [metas EXCEPT ![loc[p].cid] = loc[p].meta]
    /\ Goto(p, "head", loc[p])
    /\ UNCHANGED <<file, summary, released, snaps, head, pending, thread, memory,
                   lock, people, nextCommit, crashes>>

WriteHead(p) ==
    /\ pc[p] = "head"
    /\ head' = loc[p].cid
    /\ Goto(p, "clear", loc[p])
    /\ UNCHANGED <<file, summary, released, snaps, metas, pending, thread, memory,
                   lock, people, nextCommit, crashes>>

ClearPending(p) ==
    /\ pc[p] = "clear"
    /\ pending' = {}
    /\ IF loc[p].op = "merge"
       THEN Goto(p, "settle", loc[p]) /\ UNCHANGED lock
       ELSE Finish(p) /\ Release(p)
    /\ UNCHANGED <<file, summary, released, snaps, metas, head, thread, memory,
                   people, nextCommit, crashes>>

----------------------------------------------------------------------------
(* restore_commit, revert_pack_config and merge_proposal *)

\* The snapshot is read before the lock is taken.
RestoreLoad(p) ==
    /\ Begin(p, "restore")
    /\ \E u \in Users, c \in CommitIds :
        /\ snaps[c] # NoConfig
        /\ Goto(p, "enter",
                [NoLocal EXCEPT !.op = "restore", !.by = u, !.cfg = snaps[c]])
    /\ UNCHANGED <<disk, memory, lock, people, nextCommit, crashes>>

\* reconstruct_config: every published row comes back as a declared one, and
\* the server-owned fields come from the summary.
Reconstructed ==
    Cfg(released.body \cup released.pulled, {}, summary)

RevertLoad(p) ==
    /\ Begin(p, "revert")
    /\ released # NoConfig /\ summary # None
    /\ \E u \in Users :
        Goto(p, "enter",
             [NoLocal EXCEPT !.op = "revert", !.by = u, !.cfg = Reconstructed])
    /\ UNCHANGED <<disk, memory, lock, people, nextCommit, crashes>>

\* Both overwrite whatever is on disk, with no precondition and no fill.
OverwriteEnter(p) ==
    /\ pc[p] = "enter" /\ loc[p].op \in {"restore", "revert"}
    /\ Acquire(p)
    /\ live' = 0
    /\ Goto(p, "save", loc[p])
    /\ UNCHANGED <<disk, docs, ticket, people, nextDoc, nextCommit, crashes>>

\* The proposal's status and the offered commit are read before the lock.
MergeLoad(p) ==
    /\ Begin(p, "merge")
    /\ thread = "open"
    /\ \E u \in Users, v \in Vis :
        Goto(p, "enter",
             [NoLocal EXCEPT !.op = "merge", !.by = u, !.edit = {Offer},
                             !.cfg = Cfg({Offer}, {}, v)])
    /\ UNCHANGED <<disk, memory, lock, people, nextCommit, crashes>>

\* Mutant: a merge into a pack with no config goes ahead.
MergeEnterBlind(p) ==
    /\ pc[p] = "enter" /\ loc[p].op = "merge"
    /\ Acquire(p)
    /\ live' = 0
    /\ Goto(p, "save", [loc[p] EXCEPT !.cfg = WithVis(loc[p].cfg, file.vis)])
    /\ UNCHANGED <<disk, docs, ticket, people, nextDoc, nextCommit, crashes>>

\* with_authored_from: the target keeps its server-owned fields.
MergeEnter(p) ==
    /\ pc[p] = "enter" /\ loc[p].op = "merge"
    /\ file # NoConfig
    /\ Acquire(p)
    /\ live' = 0
    /\ Goto(p, "save", [loc[p] EXCEPT !.cfg = WithVis(loc[p].cfg, file.vis)])
    /\ UNCHANGED <<disk, docs, ticket, people, nextDoc, nextCommit, crashes>>

MergeGone(p) ==
    /\ pc[p] = "enter" /\ loc[p].op = "merge"
    /\ lock = None /\ file = NoConfig
    /\ Finish(p)
    /\ UNCHANGED <<disk, memory, lock, people, nextCommit, crashes>>

\* settle_thread: only an open thread settles; otherwise the merge answers 409.
Settle(p) ==
    /\ pc[p] = "settle"
    /\ thread' = IF thread = "open" THEN "merged" ELSE thread
    /\ Finish(p) /\ Release(p)
    /\ UNCHANGED <<file, summary, released, history, memory, people, nextCommit,
                   crashes>>

\* close_thread: decline the proposal, or take it back.
CloseThread ==
    /\ "close" \in Ops
    /\ thread = "open"
    /\ thread' = "declined"
    /\ UNCHANGED <<file, summary, released, history, memory, lock, pc, loc, people,
                   nextCommit, crashes>>

----------------------------------------------------------------------------
(* set_pack_visibility, delete_pack, duplicate_pack, run_bootstrap, publish *)

\* The summary is loaded outside the lock, if there is one ...
VisLoad(p) ==
    /\ Begin(p, "visibility")
    /\ \E v \in Vis :
        Goto(p, IF summary = None THEN "enter" ELSE "patch",
             [NoLocal EXCEPT !.op = "visibility", !.cfg = Cfg({}, {}, v)])
    /\ UNCHANGED <<disk, memory, lock, people, nextCommit, crashes>>

\* ... and written back an await later, even where the pack is gone by then.
VisSummary(p) ==
    /\ pc[p] = "patch"
    /\ \/ summary' = loc[p].cfg.vis /\ Goto(p, "enter", loc[p])
       \/ "fail" \in Ops /\ Finish(p) /\ UNCHANGED summary
    /\ UNCHANGED <<file, released, history, thread, memory, lock, people,
                   nextCommit, crashes>>

\* The config is then patched under the lock, if there is one.
VisEnter(p) ==
    /\ pc[p] = "enter" /\ loc[p].op = "visibility"
    /\ IF file # NoConfig
       THEN /\ Acquire(p)
            /\ Goto(p, "store", [loc[p] EXCEPT !.cfg = WithVis(file, loc[p].cfg.vis)])
       ELSE lock = None /\ Finish(p) /\ UNCHANGED lock
    /\ UNCHANGED <<disk, memory, people, nextCommit, crashes>>

\* Mutant: the clone is written without asking whether the id is taken.
TargetUnchecked == TRUE

\* duplicate_pack refuses a target that already has a config.
TargetFree == file = NoConfig

\* Storage::duplicate_pack onto this id: refused when a config is there.
DuplicateEnter(p) ==
    /\ Begin(p, "duplicate")
    /\ TargetFree
    /\ Acquire(p)
    /\ \E e \in Fresh, u \in Users :
        /\ Goto(p, "store", [NoLocal EXCEPT !.op = "duplicate", !.edit = {e},
                               !.cfg = Cfg({e}, {}, Draft)])
        /\ author' = [author EXCEPT ![e] = u]
    /\ UNCHANGED <<disk, memory, seat, nextCommit, crashes>>

\* save_pack_config, the last write of either.
Store(p) ==
    /\ pc[p] = "store"
    /\ file' = loc[p].cfg
    /\ Finish(p) /\ Release(p)
    /\ UNCHANGED <<summary, released, history, thread, memory, people, nextCommit,
                   crashes>>

\* run_bootstrap writes the config it read out of an archive, with no lock.
Bootstrap ==
    /\ "bootstrap" \in Ops
    /\ \E e \in Fresh, u \in Users :
        /\ file' = Cfg({e}, {}, DefaultVis)
        /\ author' = [author EXCEPT ![e] = u]
    /\ UNCHANGED <<summary, released, history, thread, memory, lock, pc, loc, seat,
                   nextCommit, crashes>>

\* delete_pack removes the pack's directory; the document and the lock stay.
Delete ==
    /\ "delete" \in Ops
    /\ file # NoConfig \/ summary # None \/ head # 0
    /\ file' = NoConfig
    /\ summary' = None
    /\ released' = NoConfig
    /\ snaps' = [c \in CommitIds |-> NoConfig]
    /\ metas' = [c \in CommitIds |-> NoMeta]
    /\ head' = 0
    /\ pending' = {}
    /\ thread' = "gone"
    /\ UNCHANGED <<memory, lock, pc, loc, people, nextCommit, crashes>>

\* A build job publishes a commit: manifest, then a summary made from the
\* commit's own config (make_pack_summary).
Publish ==
    /\ "publish" \in Ops
    /\ \E c \in CommitIds :
        /\ snaps[c] # NoConfig
        /\ released' = snaps[c]
        /\ summary' = snaps[c].vis
    /\ UNCHANGED <<file, history, thread, memory, lock, pc, loc, people, nextCommit,
                   crashes>>

----------------------------------------------------------------------------
(* Errors and restarts *)

\* A write fails, or the client goes away: the handler returns early and its
\* guard releases the lock.
Fail(p) ==
    /\ "fail" \in Ops
    /\ pc[p] \in Locked
    /\ Finish(p) /\ Release(p)
    /\ UNCHANGED <<disk, memory, people, nextCommit, crashes>>

\* The process restarts: documents, tickets, locks and tasks are gone.
Crash ==
    /\ "crash" \in Ops /\ crashes < MaxCrashes
    /\ crashes' = crashes + 1
    /\ live' = 0 /\ ticket' = 0 /\ lock' = None
    /\ pc' = [p \in Slots |-> "idle"]
    /\ loc' = [p \in Slots |-> NoLocal]
    /\ UNCHANGED <<disk, docs, nextDoc, people, nextCommit>>

Step(p) ==
    \/ PutEnter(p) \/ PutRefused(p) \/ Save(p) \/ Note(p)
    \/ JoinSeed(p) \/ PostSeed(p) \/ PostApply(p) \/ Debounced(p)
    \/ MatEnter(p) \/ MatSkip(p)
    \/ Checkpoint(p) \/ WriteSnapshot(p) \/ WriteMeta(p) \/ WriteHead(p)
    \/ ClearPending(p) \/ Settle(p)
    \/ OverwriteEnter(p) \/ MergeEnter(p) \/ MergeGone(p)
    \/ VisSummary(p) \/ VisEnter(p) \/ Store(p)

Request(p) ==
    \/ PutRead(p) \/ JoinLoad(p) \/ PostGet(p) \/ CommitEnter(p)
    \/ RestoreLoad(p) \/ RevertLoad(p) \/ MergeLoad(p) \/ VisLoad(p)
    \/ DuplicateEnter(p)

Next ==
    \/ \E p \in Slots : Step(p) \/ Request(p) \/ Fail(p)
    \/ CloseThread \/ Bootstrap \/ Delete \/ Publish \/ Crash

Spec == Init /\ [][Next]_vars

\* A handler once started runs on: its task is scheduled until it ends, and the
\* config lock is a tokio Mutex, which hands itself on in arrival order, so a
\* slot waiting for it is not overtaken forever.
FairSpec == Spec /\ \A p \in Slots : SF_vars(Step(p))

----------------------------------------------------------------------------
(* Properties *)

\* Every variable keeps its type; a document or commit number past its bound is
\* never used as an index.
TypeOK ==
    /\ file \in Config \cup {NoConfig}
    /\ summary \in Vis \cup {None}
    /\ released \in Config \cup {NoConfig}
    /\ snaps \in [CommitIds -> Config \cup {NoConfig}]
    /\ metas \in [CommitIds -> Meta]
    /\ head \in 0..MaxCommits
    /\ pending \subseteq Users
    /\ thread \in {"open", "merged", "declined", "gone"}
    /\ live \in 0..MaxDocs
    /\ docs \in [DocIds -> [body : SUBSET (Edits \cup Rows), pulled : SUBSET Rows]]
    /\ ticket \in Nat
    /\ lock \in Slots \cup {None}
    /\ pc \in [Slots -> Waiting \cup Locked]
    /\ loc \in [Slots -> Local]
    /\ seat \in [Users -> 0..MaxDocs]
    /\ author \in [Edits -> Users \cup {None}]
    /\ nextDoc \in 1..(MaxDocs + 1)
    /\ nextCommit \in 1..(MaxCommits + 1)
    /\ crashes \in 0..MaxCrashes

\* This step is slot p's save_pack_config inside store_edited_config.
Saves(p) == pc[p] = "save" /\ pc'[p] = "note"

\* put_pack_config with If-Match never loses an update: when the write lands,
\* every edit then on disk is in what it writes, whoever saved or typed between
\* the client's read and this moment.
ConditionalSaveKeeps ==
    [][\A p \in Slots :
        Saves(p) /\ loc[p].op = "put" /\ loc[p].pre = "rev"
            => file # NoConfig /\ file.body \subseteq file'.body]_vars

\* save_commit's write order: HEAD, and every commit the log can reach from it,
\* has its metadata and its snapshot on disk, across failed writes and restarts.
HistoryReadable ==
    /\ head # 0 => metas[head] # NoMeta
    /\ \A c \in CommitIds :
        metas[c] # NoMeta =>
            /\ snaps[c] # NoConfig
            /\ metas[c].parent # 0 => metas[metas[c].parent] # NoMeta

\* History is append-only and linear: HEAD only ever moves to a commit whose
\* parent is the HEAD it replaces, however commits, restores, reverts and merges
\* interleave.
HistoryAppends == [][head' # head => head' # 0 /\ metas[head'].parent = head]_vars

\* A commit records what the pack was: when HEAD moves, the snapshot it moves to
\* is the config on disk at that moment, not a half-applied or overtaken one.
CommitCapturesDisk ==
    [][head' # head /\ head' # 0 => snaps[head'] = file]_vars

\* The visibility of a stored config (owner, tier and fork_of behave alike) moves
\* only by set_pack_visibility's own write: not by a client's body, a document, a
\* merge or a write computed before the toggle.
ServerOwnedKept ==
    [][file # NoConfig /\ file' # NoConfig /\ file'.vis # file.vis =>
        \E p \in Slots : pc[p] = "store" /\ loc[p].op = "visibility"]_vars

\* merge_pulled: a pulled row on disk is never lost to a body or a document made
\* before the row existed; it reaches the save, where only the fill may prune it.
PulledKept ==
    [][\A p \in Slots :
        Saves(p) /\ loc[p].op \in {"put", "post"}
            => file.pulled \subseteq loc[p].cfg.pulled \cup loc[p].cfg.body]_vars

\* Materialising the document never drops work already stored in config.json.
MaterialiseKeeps ==
    [][\A p \in Slots :
        Saves(p) /\ loc[p].op = "post" => file.body \subseteq file'.body]_vars

\* An update post_pack_doc answered 202 is eventually in config.json.
AcceptedReachesDisk ==
    \A e \in Edits :
        (\E p \in Slots : pc[p] = "debounce" /\ loc[p].edit = {e})
            ~> (e \in file.body)

\* Everyone whose saved work a commit takes in is named on it or on a commit it
\* follows.
ContributorsNamed ==
    \A c \in CommitIds : metas[c] # NoMeta =>
        \A e \in snaps[c].body \cap Edits :
            author[e] # None =>
                \E a \in 1..c : author[e] \in metas[a].names

\* A declined proposal's content is not in the pack.
DeclinedNotApplied == thread = "declined" => Offer \notin file.body

\* duplicate_pack never overwrites a pack: when the clone's config lands, there is
\* still no config at its id, whoever created or deleted one meanwhile.
DuplicateNeverClobbers ==
    [][\A p \in Slots :
        pc[p] = "store" /\ loc[p].op = "duplicate" /\ file' # file
            => file = NoConfig \/ pc'[p] # "idle"]_vars
============================================================================
