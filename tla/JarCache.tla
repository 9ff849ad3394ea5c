------------------------------ MODULE JarCache -------------------------------
(***************************************************************************)
(* The mirror's shared jars: the content-addressed cache, the takedown     *)
(* list, the icons that came out of the jars, member uploads waiting for   *)
(* an operator, and the curated lists beside them.  A request is several   *)
(* steps, and requests interleave between them; only the takedown list is  *)
(* behind a lock.  A jar is a number: its hash, in the order of hashes.    *)
(***************************************************************************)
EXTENDS Streams

CONSTANTS
    Shas,        \* \subseteq Nat: jars in play
    Prefix,      \* [Shas -> Nat]: the directory a hash lives in
    IconIn,      \* [Shas -> {"image", "absent"}]: what the jar itself carries
    Upstream,    \* jars whose very hash Modrinth serves
    Carried,     \* jars whose mod Modrinth carries for their target
    Projects,    \* Modrinth projects whose picture may be asked for
    Servers,     \* server entries
    Shelf,       \* the jars cached at the start
    Slots,       \* bound: requests in flight
    Misreads,    \* \subseteq Slots: the requests that may find removed.txt unreadable
    Menus        \* bound: workloads explored, each a bag of operation names

ASSUME JarsAreNumbers == Shas \subseteq Nat /\ None \notin Shas
ASSUME FinitelyManyJars == IsFiniteSet(Shas)
ASSUME IconsAreKnown == IconIn \in [Shas -> {"image", "absent"}]
ASSUME ShelfHoldsJars == Shelf \subseteq Shas
ASSUME NoneIsNoSlot == None \notin Slots
ASSUME PrefixIsOrdered == Prefix \in [Shas -> Nat] /\ \A a, b \in Shas : a < b => Prefix[a] <= Prefix[b]

VARIABLES
    disk,     \* jars under cache/
    dirs,     \* the prefix directories that exist
    removed,  \* removed.txt
    lock,     \* the slot holding removed_lock, or None
    icons,    \* [Shas -> {"unknown", "absent", "image"}]: what icons/ remembers
    pictures, \* [Projects -> {"none", "fresh", "aged"}]: icons/modrinth
    staged,   \* jars under uploads/
    uploads,  \* the mod_uploads rows, in id order: [sha, status]
    board,    \* [servers, featured]
    given,    \* [Slots -> the jar last downloaded there, or None]
    walk,     \* a reader paging through the inventory
    reqs,     \* [Slots -> the request in flight]
    menu      \* how many more requests of each operation this behaviour may see

cacheVars == <<disk, dirs, removed, lock, icons, pictures, staged, uploads, board, given, walk>>
vars == <<cacheVars, reqs, menu, streamVars>>

Idle == [op |-> "idle", pc |-> "idle", sha |-> None, row |-> 0, seen |-> {}, what |-> None]

Walks == [pc : {"rest", "dirs", "stat", "done", "failed"}, size : Nat, after : Shas \cup {None},
          left : SUBSET Nat, here : SUBSET Shas, out : SUBSET Shas,
          listed : SUBSET Shas, twice : BOOLEAN, steady : SUBSET Shas]

\* Field types; a taken lock is held by a request that is reading or writing
\* the list, and every upload row names a jar and one of the three states.
TypeOK ==
    /\ disk \subseteq Shas /\ removed \subseteq Shas /\ staged \subseteq Shas /\ dirs \subseteq Nat
    /\ lock # None => reqs[lock].op \in {"takedown", "restore"} /\ reqs[lock].pc \in {"read", "record"}
    /\ icons \in [Shas -> {"unknown", "absent", "image"}]
    /\ pictures \in [Projects -> {"none", "fresh", "aged"}]
    /\ \A i \in DOMAIN uploads : uploads[i] \in [sha : Shas, status : {"pending", "approved", "rejected"}]
    /\ board \in [servers : SUBSET Servers, featured : SUBSET Servers]
    /\ given \in [Slots -> Shas \cup {None}]
    /\ walk \in Walks
    /\ StreamsTypeOK

-----------------------------------------------------------------------------
(* Requests *)

At(s, op, pc) == reqs[s].op = op /\ reqs[s].pc = pc
Onward(s, pc) == reqs' = [reqs EXCEPT ![s].pc = pc]
Answer(s) == reqs' = [reqs EXCEPT ![s] = Idle]

JarOps == {"put", "ingest", "delete", "takedown", "restore", "get", "icon"}
Operations == JarOps \cup {"upload", "approve", "reject", "catalog", "picture"}

Arguments == {None, "force", "save", "drop", "feature"} \cup Projects

\* What each operation is asked with.
Asks(op, sha, row, what) ==
    /\ sha # None <=> op \in JarOps \cup {"upload"}
    /\ row # 0 <=> op \in {"approve", "reject"}
    /\ CASE op = "upload" -> what \in {None, "force"}
         [] op = "catalog" -> what \in {"save", "drop", "feature"}
         [] op = "picture" -> what \in Projects
         [] OTHER -> what = None

\* A request reaches its handler.
Arrive(s) ==
    /\ reqs[s] = Idle
    /\ \E op \in DOMAIN menu \cap Operations :
        /\ menu[op] > 0
        /\ menu' = [menu EXCEPT ![op] = @ - 1]
        /\ \E sha \in Shas \cup {None}, row \in 0..Len(uploads), what \in Arguments :
            /\ Asks(op, sha, row, what)
            /\ reqs' = [reqs EXCEPT ![s] = [op |-> op, sha |-> sha, row |-> row, seen |-> {}, what |-> what,
                            pc |-> IF op = "restore" THEN "lock" ELSE "start"]]
    /\ UNCHANGED <<cacheVars, streamVars>>

Sha1Shard(sha) == Prefix[sha]

\* What reading removed.txt brings: the list, or nothing when the read fails.
Readings(s) == IF s \in Misreads THEN {removed, {}} ELSE {removed}

\* A list that cannot be read blocks nothing.
IsSha1Removed(sha, list) == sha \in list

\* What is on disk from one end of a walk to the other.
Dropped(sha) ==
    /\ disk' = disk \ {sha}
    /\ walk' = [walk EXCEPT !.steady = @ \ {sha}]

\* save_cache_jar and write_to_cache: the list is asked, and the bytes are
\* written later.
SaveCheck(s, op, at) ==
    /\ At(s, op, at)
    /\ \E list \in Readings(s) : IF IsSha1Removed(reqs[s].sha, list) THEN Answer(s) ELSE Onward(s, "write")
    /\ UNCHANGED <<cacheVars, menu, streamVars>>

SaveWrite(s, op, next) ==
    /\ At(s, op, "write")
    /\ disk' = disk \cup {reqs[s].sha}
    /\ dirs' = dirs \cup {Sha1Shard(reqs[s].sha)}
    /\ next
    /\ UNCHANGED <<removed, lock, icons, pictures, staged, uploads, board, given, walk, menu, streamVars>>

\* Frees bytes: nothing is blocked, and the icon stays.
DeleteJar(s) ==
    /\ At(s, "delete", "start")
    /\ Dropped(reqs[s].sha)
    /\ Answer(s)
    /\ UNCHANGED <<dirs, removed, lock, icons, pictures, staged, uploads, board, given, menu, streamVars>>

\* The bytes, then the icon, then the list.
TakedownBytes(s) ==
    /\ At(s, "takedown", "start")
    /\ Dropped(reqs[s].sha)
    /\ Onward(s, "icon")
    /\ UNCHANGED <<dirs, removed, lock, icons, pictures, staged, uploads, board, given, menu, streamVars>>

ForgetIcon(s) ==
    /\ At(s, "takedown", "icon")
    /\ icons' = [icons EXCEPT ![reqs[s].sha] = "unknown"]
    /\ Onward(s, "lock")
    /\ UNCHANGED <<disk, dirs, removed, lock, pictures, staged, uploads, board, given, walk, menu, streamVars>>

\* A mutant: the list is read without its lock.
LockNothing(s) ==
    /\ reqs[s].op \in {"takedown", "restore"} /\ reqs[s].pc = "lock"
    /\ lock' = s
    /\ Onward(s, "read")
    /\ UNCHANGED <<disk, dirs, removed, icons, pictures, staged, uploads, board, given, walk, menu, streamVars>>

LockRemoved(s) ==
    /\ reqs[s].op \in {"takedown", "restore"} /\ reqs[s].pc = "lock"
    /\ lock = None
    /\ lock' = s
    /\ Onward(s, "read")
    /\ UNCHANGED <<disk, dirs, removed, icons, pictures, staged, uploads, board, given, walk, menu, streamVars>>

\* A takedown goes on from a list it could not read as from an empty one.
ReadRemoved(s) ==
    /\ reqs[s].op \in {"takedown", "restore"} /\ reqs[s].pc = "read"
    /\ \E list \in IF reqs[s].op = "takedown" THEN Readings(s) ELSE {removed} :
          reqs' = [reqs EXCEPT ![s].pc = "record", ![s].seen = list]
    /\ UNCHANGED <<cacheVars, menu, streamVars>>

\* A mutant: the lock outlives the write.
WriteRemovedHeld(s, list) ==
    /\ removed' = list
    /\ Answer(s)
    /\ UNCHANGED <<disk, dirs, lock, icons, pictures, staged, uploads, board, given, walk, menu, streamVars>>

\* The whole file is written back, one jar more or less than was read.
WriteRemoved(s, list) ==
    /\ removed' = list
    /\ lock' = None
    /\ Answer(s)
    /\ UNCHANGED <<disk, dirs, icons, pictures, staged, uploads, board, given, walk, menu, streamVars>>

RecordRemoved(s) == At(s, "takedown", "record") /\ WriteRemoved(s, reqs[s].seen \cup {reqs[s].sha})
Restore(s) == At(s, "restore", "record") /\ WriteRemoved(s, reqs[s].seen \ {reqs[s].sha})

\* A restore does not: it answers, and the list is as it was.
RestoreNothing(s) == At(s, "restore", "read") /\ s \in Misreads /\ WriteRemoved(s, removed)

\* The operator's handlers; each then pokes the harvest.
PutCacheJar(s) == SaveCheck(s, "put", "start") \/ SaveWrite(s, "put", Answer(s))
WriteToCache(s) == SaveCheck(s, "ingest", "start") \/ SaveWrite(s, "ingest", Answer(s))
DeleteCacheJar(s) == DeleteJar(s)
TakedownJar(s) == TakedownBytes(s) \/ ForgetIcon(s) \/ RecordRemoved(s)
RestoreJar(s) == Restore(s) \/ RestoreNothing(s)
ListOfRemoved(s) == LockRemoved(s) \/ ReadRemoved(s)

-----------------------------------------------------------------------------
(* Public reads of the cache *)

\* A taken-down jar is not served even if its bytes are on disk.
GetCacheJar(s) ==
    \/ /\ At(s, "get", "start")
       /\ \E list \in Readings(s) : IF IsSha1Removed(reqs[s].sha, list) THEN Answer(s) ELSE Onward(s, "serve")
       /\ UNCHANGED <<cacheVars, menu, streamVars>>
    \/ /\ At(s, "get", "serve")
       /\ given' = IF reqs[s].sha \in disk THEN [given EXCEPT ![s] = reqs[s].sha] ELSE given
       /\ Answer(s)
       /\ UNCHANGED <<disk, dirs, removed, lock, icons, pictures, staged, uploads, board, walk, menu, streamVars>>

ReadCachedIcon(sha) == icons[sha]

StoreIcon(sha) == icons' = [icons EXCEPT ![sha] = IconIn[sha]]

\* Remembered, or taken out of the jar and then remembered; the list is not
\* asked.
GetCacheIcon(s) ==
    \/ /\ At(s, "icon", "start")
       /\ IF ReadCachedIcon(reqs[s].sha) = "unknown" /\ reqs[s].sha \in disk
          THEN Onward(s, "store") ELSE Answer(s)
       /\ UNCHANGED <<cacheVars, menu, streamVars>>
    \/ /\ At(s, "icon", "store")
       /\ StoreIcon(reqs[s].sha)
       /\ Answer(s)
       /\ UNCHANGED <<disk, dirs, removed, lock, pictures, staged, uploads, board, given, walk, menu, streamVars>>

\* A copy older than its age limit reads as absent.
ReadProjectIcon(p) == pictures[p] = "fresh"

StoreProjectIcon(p) == pictures' = [pictures EXCEPT ![p] = "fresh"]

\* Fetched on a miss, if Modrinth answers; a kind the mirror does not serve is
\* not kept.
GetProjectIcon(s) ==
    /\ At(s, "picture", "start")
    /\ \/ UNCHANGED pictures
       \/ ~ReadProjectIcon(reqs[s].what) /\ StoreProjectIcon(reqs[s].what)
    /\ Answer(s)
    /\ UNCHANGED <<disk, dirs, removed, lock, icons, staged, uploads, board, given, walk, menu, streamVars>>

\* PROJECT_ICON_MAX_AGE passes.
PictureAges(p) ==
    /\ pictures[p] = "fresh"
    /\ pictures' = [pictures EXCEPT ![p] = "aged"]
    /\ UNCHANGED <<disk, dirs, removed, lock, icons, staged, uploads, board, given, walk, reqs, menu, streamVars>>

-----------------------------------------------------------------------------
(* Uploads and moderation *)

\* Modrinth serving the very file refuses it; carrying the mod for that target
\* does too, unless an operator with the debug rung forces it.
UploadGate(s) ==
    /\ At(s, "upload", "start")
    /\ IF reqs[s].sha \in Upstream \/ (reqs[s].sha \in Carried /\ reqs[s].what # "force")
       THEN Answer(s) ELSE Onward(s, "stage")
    /\ UNCHANGED <<cacheVars, menu, streamVars>>

StageUpload(s) ==
    /\ At(s, "upload", "stage")
    /\ staged' = staged \cup {reqs[s].sha}
    /\ Onward(s, "enqueue")
    /\ UNCHANGED <<disk, dirs, removed, lock, icons, pictures, uploads, board, given, walk, menu, streamVars>>

EnqueueUpload(s) ==
    /\ At(s, "upload", "enqueue")
    /\ uploads' = Append(uploads, [sha |-> reqs[s].sha, status |-> "pending"])
    /\ Onward(s, "moderation")
    /\ UNCHANGED <<disk, dirs, removed, lock, icons, pictures, staged, board, given, walk, menu, streamVars>>

\* The row is read whatever its status; a staged copy already gone is a 404.
PromoteUpload(s) ==
    /\ At(s, "approve", "start")
    /\ IF uploads[reqs[s].row].sha \in staged
       THEN reqs' = [reqs EXCEPT ![s].pc = "check", ![s].sha = uploads[reqs[s].row].sha]
       ELSE Answer(s)
    /\ UNCHANGED <<cacheVars, menu, streamVars>>

PromoteSave(s) == SaveCheck(s, "approve", "check") \/ SaveWrite(s, "approve", Onward(s, "unstage"))

\* The staging copy goes once the cache has it, or once a rejection came.
Unstage(s) ==
    /\ At(s, "approve", "unstage") \/ At(s, "reject", "start")
    /\ staged' = staged \ {uploads[reqs[s].row].sha}
    /\ Onward(s, "status")
    /\ UNCHANGED <<disk, dirs, removed, lock, icons, pictures, uploads, board, given, walk, menu, streamVars>>

SetUploadStatus(s) ==
    /\ reqs[s].pc = "status"
    /\ uploads' = [uploads EXCEPT ![reqs[s].row].status =
                      IF reqs[s].op = "approve" THEN "approved" ELSE "rejected"]
    /\ Onward(s, "moderation")
    /\ UNCHANGED <<disk, dirs, removed, lock, icons, pictures, staged, board, given, walk, menu, streamVars>>

SaveServer(x) == board' = [board EXCEPT !.servers = @ \cup {x}]
DeleteServer(x) == board' = [board EXCEPT !.servers = @ \ {x}]
SaveFeatured(x) == board' = [board EXCEPT !.featured = {x}]

\* Deleting what is not there is a 404 and tells nobody.
EditCatalog(s, x) ==
    /\ At(s, "catalog", "start")
    /\ CASE reqs[s].what = "save" -> SaveServer(x)
         [] reqs[s].what = "drop" -> DeleteServer(x)
         [] OTHER -> SaveFeatured(x)
    /\ IF reqs[s].what = "drop" /\ x \notin board.servers THEN Answer(s) ELSE Onward(s, "catalog")
    /\ UNCHANGED <<disk, dirs, removed, lock, icons, pictures, staged, uploads, given, walk, menu, streamVars>>

\* What was stored is announced, after it was stored.
Nudge(s) ==
    /\ reqs[s].pc \in Events
    /\ Publish(reqs[s].pc)
    /\ Answer(s)
    /\ UNCHANGED <<cacheVars, menu, ears, log, tabs>>

UploadJar(s) == UploadGate(s) \/ StageUpload(s) \/ EnqueueUpload(s)
ApproveUpload(s) == PromoteUpload(s) \/ PromoteSave(s) \/ Unstage(s)
DecideUpload(s) == SetUploadStatus(s)

\* Oldest first, the rows nobody has decided.
Pending == {i \in DOMAIN uploads : uploads[i].status = "pending"}

ListUploads == Pending
ListServers == board.servers
GetFeatured == board.featured

\* What a view of a page of that role reads: the queue of uploads, or the
\* curated lists.
World(l, k) ==
    IF k = "catalog" THEN [servers |-> ListServers, featured |-> GetFeatured]
    ELSE IF ListenerRole[l] = "admin" THEN ListUploads ELSE {}

-----------------------------------------------------------------------------
(* Paging through the inventory *)

FirstOf(set, n) == {x \in set : Cardinality({y \in set : y < x}) < n}
Greatest(set) == CHOOSE x \in set : \A y \in set : y <= x
Least(set) == CHOOSE x \in set : \A y \in set : x <= y

\* A mutant: a page reads no more rows than it shows.
ProbeExact(size) == size

\* One row past the page tells a full page from the last one.
Probe(size) == size + 1

Resting == [pc |-> "rest", size |-> 0, after |-> None, left |-> {}, here |-> {}, out |-> {},
            listed |-> {}, twice |-> FALSE, steady |-> {}]

\* The reader asks for the first page; size 0 asks for the whole listing.
StartWalk(size) ==
    /\ walk.pc = "rest" /\ "walk" \in DOMAIN menu /\ menu["walk"] > 0
    /\ menu' = [menu EXCEPT !["walk"] = @ - 1]
    /\ walk' = [Resting EXCEPT !.pc = "dirs", !.size = size, !.left = dirs, !.steady = disk]
    /\ UNCHANGED <<disk, dirs, removed, lock, icons, pictures, staged, uploads, board, given, reqs, streamVars>>

\* The answer to a page: its rows and, when there are more, the cursor of the
\* next one, which the reader follows.
Split(rows) ==
    LET page == IF walk.size = 0 THEN rows ELSE FirstOf(rows, walk.size)
        more == walk.size # 0 /\ Cardinality(rows) > walk.size
    IN  [walk EXCEPT !.pc = IF more THEN "dirs" ELSE "done", !.out = {}, !.here = {},
                     !.listed = @ \cup page, !.twice = @ \/ page \cap walk.listed # {},
                     !.after = IF more THEN Greatest(page) ELSE @, !.left = dirs]

\* Directories before the cursor's own are skipped; the next one is opened.
\* A jar that went away before it was measured fails the page.
InventoryDir ==
    \/ /\ walk.pc = "dirs"
       /\ LET open == {d \in walk.left : walk.after # None => d >= Sha1Shard(walk.after)}
          IN  IF open = {} THEN walk' = Split(walk.out)
              ELSE walk' = [walk EXCEPT !.pc = "stat", !.left = open \ {Least(open)},
                                        !.here = {x \in disk : /\ Sha1Shard(x) = Least(open)
                                                               /\ walk.after # None => x > walk.after}]
       /\ UNCHANGED <<disk, dirs, removed, lock, icons, pictures, staged, uploads, board, given, reqs, menu, streamVars>>
    \/ /\ walk.pc = "stat"
       /\ walk' = IF walk.here \ disk # {} THEN [walk EXCEPT !.pc = "failed"]
                  ELSE LET out == walk.out \cup walk.here
                       IN  IF walk.size # 0 /\ Cardinality(out) >= Probe(walk.size)
                           THEN Split(FirstOf(out, Probe(walk.size)))
                           ELSE [walk EXCEPT !.pc = "dirs", !.out = out, !.here = {}]
       /\ UNCHANGED <<disk, dirs, removed, lock, icons, pictures, staged, uploads, board, given, reqs, menu, streamVars>>

-----------------------------------------------------------------------------

Init ==
    /\ disk = Shelf /\ dirs = {Sha1Shard(x) : x \in Shelf}
    /\ removed = {} /\ lock = None
    /\ icons = [x \in Shas |-> "unknown"]
    /\ pictures = [p \in Projects |-> "none"]
    /\ staged = {} /\ uploads = <<>>
    /\ board = [servers |-> {}, featured |-> {}]
    /\ given = [s \in Slots |-> None]
    /\ walk = Resting
    /\ reqs = [s \in Slots |-> Idle]
    /\ menu \in Menus
    /\ StreamsInit

Handler(s) ==
    \/ PutCacheJar(s) \/ WriteToCache(s) \/ DeleteCacheJar(s)
    \/ TakedownJar(s) \/ RestoreJar(s) \/ ListOfRemoved(s)
    \/ GetCacheJar(s) \/ GetCacheIcon(s) \/ GetProjectIcon(s)
    \/ UploadJar(s) \/ ApproveUpload(s) \/ DecideUpload(s)
    \/ (\E x \in Servers : EditCatalog(s, x)) \/ Nudge(s)

\* The pages take part only in the workloads that are about them.
Watching == "listen" \in DOMAIN menu
Editing == "room" \in DOMAIN menu

Pages ==
    \/ Watching /\ \E l \in Listeners : Subscribe(l) \/ Hear(l) \/ \E k \in Events : Refetch(l, k, World(l, k))
    \/ Editing /\ \E t \in Tabs : Announce(t) \/ PackEvents(t) \/ Leave(t)

\* A bounded number of joins.
Enter(t) ==
    /\ Editing /\ menu["room"] > 0
    /\ menu' = [menu EXCEPT !["room"] = @ - 1]
    /\ Join(t)
    /\ UNCHANGED <<cacheVars, reqs>>

Next ==
    \/ \E s \in Slots : Arrive(s) \/ Handler(s)
    \/ \E p \in Projects : PictureAges(p)
    \/ \E size \in 0..2 : StartWalk(size)
    \/ InventoryDir
    \/ Pages /\ UNCHANGED <<cacheVars, reqs, menu>>
    \/ \E t \in Tabs : Enter(t)

Spec == Init /\ [][Next]_vars

-----------------------------------------------------------------------------
(* Properties *)

\* Requests past their look at the list, and not done.
Cleared(rs) ==
    {<<s, IF rs[s].op = "get" THEN "read" ELSE "write", rs[s].sha>> :
        s \in {r \in Slots : rs[r].pc \in {"serve", "write"}}}

Promise == INSTANCE Takedowns WITH
    Jars <- Shas, Requests <- Slots, Nothing <- None, blocked <- removed, held <- disk, given <- given,
    cleared <- Cleared(reqs)

\* The cache keeps the promise of a takedown: whatever is being uploaded,
\* promoted or written back at the same time, a download or a write into the
\* cache is let through only at an instant when its jar is not on the list, and
\* no takedown or restore of one jar ever undoes another's.  storage.rs keeps
\* the list in one file that is read and written back whole, under a lock;
\* get_cache_jar, save_cache_jar and write_to_cache ask it first.  A request that
\* could not read the file is the only one that may break it.
KeepsPromise ==
    /\ Promise!Init
    /\ [][Promise!Next \/ \E s \in Misreads : Handler(s)]_(Promise!promiseVars)

\* docs/architecture.md has it without the exception: the list "blocks a sha1 from
\* serving and from re-ingestion, even if the bytes are still on disk".
BlocksTakenDown == Promise!Spec

\* And lists "sha1s that must never serve again": one that was taken down leaves
\* the list by a restore of its own.
OnlyRestored ==
    [][\A j \in removed \ removed' : \E s \in Slots : reqs[s].op = "restore" /\ reqs[s].sha = j]_vars

\* Walking the inventory page by page misses nothing and repeats nothing: every
\* jar that was there from the first page to the last is listed, and no jar is
\* listed twice, whatever is added or deleted meanwhile.  page.rs and
\* cache_inventory_after page by the last hash seen.
WalkComplete ==
    walk.pc = "done" => walk.steady \subseteq walk.listed /\ ~walk.twice

\* A view whose page has read every event it was sent, and that has reread on
\* those of its kind, shows the queue or the lists as they are, unless a request
\* has stored something and not announced it yet -- or the page fell behind the
\* channel and an event of that very kind was dropped since the last rereading.
CaughtUpIsCurrent ==
    \A l \in Listeners, k \in Events :
        ears[l] # None /\ k \notin ears[l].stale \cup ears[l].missed /\ ~Behind(ears[l].at, sent) =>
            ears[l].view[k] = World(l, k) \/ \E s \in Slots : reqs[s].pc = k

\* The same whatever was dropped: events.rs says that falling behind is not a
\* loss, because the next event received says the same.
LagLosesNothing ==
    \A l \in Listeners, k \in Events :
        ears[l] # None /\ k \notin ears[l].stale /\ ~Behind(ears[l].at, sent) =>
            ears[l].view[k] = World(l, k) \/ \E s \in Slots : reqs[s].pc = k
=============================================================================
