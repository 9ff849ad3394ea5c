-------------------------------- MODULE Reads -------------------------------
(***************************************************************************)
(* The reads of the mirror, over the state the requests of Discussions      *)
(* leave: the storage readers of packs, builds, static files and commits,   *)
(* the account readers of threads, comments and notifications, and the      *)
(* public, member and authoring handlers in front of them.  A handler is an *)
(* operator giving the set of what it answers with; {} is a refusal (401,   *)
(* 403 or 404: a draft somebody may not see answers 404 like a missing      *)
(* one).  What a built pack has on disk besides its visibility is fixed by  *)
(* constants and goes when the pack is deleted; one that has not been built *)
(* has its config alone: checkpoints declared before a first build, and     *)
(* what a clone copies of its source's static files, are left out.          *)
(***************************************************************************)
EXTENDS Discussions, Sequences

LOCAL INSTANCE SequencesExt

CONSTANTS
    Owner,       \* [Packs -> Nat]: the owner the summary records
    Builds,      \* [Packs -> set of BuildFile]: packs/<id>/manifests/*.json
    Latest,      \* [Packs -> set of at most one version]: the `latest` link
    Statics,     \* [Packs -> set of paths]: packs/<id>/static
    SafePaths,   \* paths is_safe_rel_path accepts
    Log,         \* [Packs -> sequence of commits from HEAD back to the first]
    Damaged,     \* commits whose metadata does not load
    UsedBy,      \* packs whose manifests ship the one mod asked about
    Jars,        \* that mod's artifacts
    Held         \* the artifacts in the cache

\* A version is the sequence of its numeric segments.
BuildFile == [version : Seq(Nat), at : Nat, channel : {"release", "beta", "none"}, snapshot : BOOLEAN,
              from : STRING, reads : BOOLEAN]

\* Somebody asking: a signed-in person, the bearer, or a guest.
Readers == Callers \cup {Nobody}

-----------------------------------------------------------------------------
(* Storage readers *)

TierOf(p) == IF NamespaceUid[p] = 0 THEN "official" ELSE "community"

PackSummary(p) ==
    [pack |-> p, tier |-> TierOf(p), visibility |-> packs[p], owner |-> Owner[p], built |-> {}]

\* A child directory without a summary is passed over.
ReadSummariesIn(dir) == {PackSummary(p) : p \in {p \in dir : HasSummary(p)}}

\* Official packs at the top, a member's one level deeper.
ListPackSummaries ==
    ReadSummariesIn({p \in Packs : NamespaceUid[p] = 0})
        \cup UNION {ReadSummariesIn({p \in Packs : NamespaceUid[p] = u}) : u \in Uids}

LoadPackSummary(p) == ReadSummariesIn({p})

\* The test is of authoring/config.json, which a pack nobody has built has too.
ReadAuthoringIdsIn(dir) == {p \in dir : HasConfig(p)}

ListAuthoringPacks ==
    ReadAuthoringIdsIn({p \in Packs : NamespaceUid[p] = 0})
        \cup UNION {ReadAuthoringIdsIn({p \in Packs : NamespaceUid[p] = u}) : u \in Uids}

Manifests(p) == IF HasSummary(p) THEN Builds[p] ELSE {}

LoadManifestVersion(p, v) == {b \in Manifests(p) : b.version = v /\ b.reads}

\* The name the link holds, whatever it points at.
LatestManifestVersion(p) == IF HasSummary(p) THEN Latest[p] ELSE {}

LoadLatestManifest(p) == UNION {LoadManifestVersion(p, v) : v \in LatestManifestVersion(p)}

\* Segments compared as numbers, missing ones as 0.
Segment(v, i) == IF i <= Len(v) THEN v[i] ELSE 0

ComparePackVersions(v, w) ==
    \E i \in 1..(Len(v) + Len(w)) :
        /\ Segment(v, i) < Segment(w, i)
        /\ \A j \in 1..(i - 1) : Segment(v, j) = Segment(w, j)

StoredManifestVersions(p) ==
    SetToSortSeq({b.version : b \in Manifests(p)}, ComparePackVersions)

LegacyVersionChannel(b) == IF b.snapshot THEN "beta" ELSE "release"

\* The stored channel wins over the one the version string used to carry.
BuildInfoFromHead(b) ==
    [version |-> b.version, at |-> b.at, from |-> b.from,
     channel |-> IF b.channel = "none" THEN LegacyVersionChannel(b) ELSE b.channel]

NewerBuild(a, b) == a.at > b.at \/ (a.at = b.at /\ ComparePackVersions(b.version, a.version))

\* Newest first; a file that no longer parses is passed over.
ListManifestBuilds(p) ==
    SetToSortSeq({BuildInfoFromHead(b) : b \in {b \in Manifests(p) : b.reads}}, NewerBuild)

LatestBuildInfo(p) == {BuildInfoFromHead(b) : b \in LoadLatestManifest(p)}

BuildsByCommit(p, c) ==
    LET of(b) == b.from = c IN SelectSeq(ListManifestBuilds(p), of)

IsSafeRelPath(path) == path \in SafePaths

PackStaticPath(p, path) == {f \in {path} : IsSafeRelPath(path)}

ListPackStatic(p) == IF HasSummary(p) THEN Statics[p] ELSE {}

CommitHead(p) == IF HasSummary(p) /\ Log[p] # <<>> THEN {Log[p][1]} ELSE {}

LoadCommit(p, c) == {d \in {c} : HasSummary(p) /\ c \in ToSet(Log[p]) /\ c \notin Damaged}

LoadCommitConfig(p, c) == {d \in {c} : HasSummary(p) /\ c \in ToSet(Log[p])}

\* The walk from HEAD, or from the parent of the cursor: it stops at a commit
\* that does not load, and a cursor that does not load is the end of the history.
CommitLog(p, after, limit) ==
    LET from == IF after = "none" THEN 1 ELSE 1 + (CHOOSE i \in 1..Len(Log[p]) : Log[p][i] = after)
        rest == SubSeq(Log[p], from, Len(Log[p]))
        bad == {i \in 1..Len(rest) : LoadCommit(p, rest[i]) = {}}
        good == IF bad = {} THEN Len(rest) ELSE (CHOOSE i \in bad : \A j \in bad : i <= j) - 1
    IN  IF ~HasSummary(p) \/ (after # "none" /\ LoadCommit(p, after) = {}) THEN <<>>
        ELSE SubSeq(rest, 1, IF good < limit THEN good ELSE limit)

HasCacheJar(sha) == sha \in Held
CachedAmong(shas) == {sha \in shas : HasCacheJar(sha)}

-----------------------------------------------------------------------------
(* Account readers *)

\* Rows opened in one rate window are taken to share a second, which is the
\* case the id in the order is for.
CreatedAt(row) == IF row.recent THEN 2 ELSE 1

ThreadFromRow(i) ==
    [id |-> i, created |-> CreatedAt(threads[i]), pack |-> threads[i].pack, kind |-> threads[i].kind,
     status |-> threads[i].status, by |-> threads[i].by, source |-> threads[i].source,
     comments |-> Cardinality({c \in Ids : Exists(comments, c) /\ comments[c].thread = i})]

ThreadNewer(a, b) == a.created > b.created \/ (a.created = b.created /\ a.id > b.id)

Upto(rows, limit) == IF limit = 0 \/ Len(rows) <= limit THEN rows ELSE SubSeq(rows, 1, limit)

\* A mutant: the cursor compares the second alone.
ThreadsForSecond(p, kind, openOnly, after, limit) ==
    Upto(SetToSortSeq({t \in {ThreadFromRow(i) : i \in {i \in Ids : Exists(threads, i)}} :
                          /\ t.pack = p /\ (kind = "any" \/ t.kind = kind)
                          /\ (openOnly => t.status = "open")
                          /\ (after # <<>> => t.created < after[1])}, ThreadNewer), limit)

\* 0 is no limit, <<>> no cursor.
ThreadsFor(p, kind, openOnly, after, limit) ==
    LET below(t) == t.created < after[1] \/ (t.created = after[1] /\ t.id < after[2])
    IN  Upto(SetToSortSeq(
            {t \in {ThreadFromRow(i) : i \in {i \in Ids : Exists(threads, i)}} :
                /\ t.pack = p
                /\ kind = "any" \/ t.kind = kind
                /\ openOnly => t.status = "open"
                /\ after # <<>> => below(t)}, ThreadNewer), limit)

ThreadById(i) == IF Exists(threads, i) THEN {ThreadFromRow(i)} ELSE {}

\* A hidden comment keeps its place and loses its body.
CommentFromRow(c) ==
    [id |-> c, by |-> comments[c].by, hidden |-> comments[c].hidden, body |-> ~comments[c].hidden]

CommentsOn(i, after, limit) ==
    LET older(a, b) == a.id < b.id
    IN  Upto(SetToSortSeq({CommentFromRow(c) : c \in {c \in Ids :
                /\ Exists(comments, c)
                /\ comments[c].thread = i
                /\ c > after}}, older), limit)

ThreadOfComment(c) == IF Exists(comments, c) THEN {comments[c].thread} ELSE {}

CommentById(c) == IF Exists(comments, c) THEN {CommentFromRow(c)} ELSE {}

\* Joined with the thread, whose title and status are read live.
NotificationsFor(u, unreadOnly, after, limit) ==
    LET newer(a, b) == a.n > b.n
    IN  Upto(SetToSortSeq({x \in notes :
                /\ x.uid = u
                /\ unreadOnly => ~x.read
                /\ after # 0 => x.n < after}, newer), limit)

UnreadCount(u) == Cardinality({x \in notes : x.uid = u /\ ~x.read})

UidForFeedKey(key) == {u \in Uids : feedKey[u] = key /\ key # 0}

ListUsers == {[uid |-> u, role |-> users[u], suspended |-> u \in suspended] :
                u \in {v \in Uids : users[v] # "nobody"}}

ListPackBlocks(p) == {u \in Uids : <<p, u>> \in blocks}

-----------------------------------------------------------------------------
(* Paging *)

\* One row past the page is read, to tell a full page from the last one.
PageProbe(size) == IF size = 0 THEN 0 ELSE size + 1

PageSplit(rows, size) ==
    [page |-> Upto(rows, size), more |-> size # 0 /\ Len(rows) > size]

\* Every page of a listing, following the link: read(after) answers one probe,
\* key(row) is its cursor.
Pages(read(_), key(_), start, size) ==
    LET walk[k \in 0..MaxRows] ==
            IF k = 0 THEN [rows |-> <<>>, after |-> start, more |-> TRUE]
            ELSE IF ~walk[k - 1].more THEN walk[k - 1]
            ELSE LET got == PageSplit(read(walk[k - 1].after), size)
                 IN  [rows |-> walk[k - 1].rows \o got.page, more |-> got.more,
                      after |-> IF got.more THEN key(got.page[Len(got.page)]) ELSE start]
    IN  walk[MaxRows].rows

-----------------------------------------------------------------------------
(* Public handlers *)

OptionalIdentity(r) ==
    LET known == IF r \in Uids THEN {SessionIdentity(r)} ELSE {BreakGlass(role) : role \in BearerRoles}
    IN  {id \in known : ResolvesTo(r, id)}

\* A mutant: a draft opens to its namespace's owner and the admins alone.
GateSummaryOwner(r, s) ==
    s.visibility # "draft" \/ \E id \in OptionalIdentity(r) : InherentLevel(id, s.pack) = "own"

\* A draft is private; unlisted and published are readable by id.
GateSummary(r, s) ==
    s.visibility # "draft" \/ \E id \in OptionalIdentity(r) : May(id, s.pack, "view")

GatePackRead(r, p) == \E s \in LoadPackSummary(p) : GateSummary(r, s)

EnrichLatestBuild(s) == [s EXCEPT !.built = LatestBuildInfo(s.pack)]

\* The launcher's catalog.
ListPacks ==
    {EnrichLatestBuild(s) : s \in {s \in ListPackSummaries :
        s.tier = "official" /\ s.visibility = "published"}}

ListCommunity ==
    {EnrichLatestBuild(s) : s \in {s \in ListPackSummaries :
        s.tier = "community" /\ s.visibility = "published"}}

GetPackSummary(r, p) == {EnrichLatestBuild(s) : s \in {s \in LoadPackSummary(p) : GateSummary(r, s)}}

GetLatestManifest(r, p) == IF GatePackRead(r, p) THEN LoadLatestManifest(p) ELSE {}

GetManifestVersion(r, p, v) == IF GatePackRead(r, p) THEN LoadManifestVersion(p, v) ELSE {}

GetManifestVersions(r, p) ==
    IF GatePackRead(r, p)
    THEN {[builds |-> ListManifestBuilds(p), latest |-> LatestManifestVersion(p)]} ELSE {}

\* Both ends must load; without a target it is the latest.
GetPackDiff(r, p, from, to) ==
    IF GatePackRead(r, p)
    THEN LoadManifestVersion(p, from) \X
         (IF to = <<>> THEN LoadLatestManifest(p) ELSE LoadManifestVersion(p, to))
    ELSE {}

GetPackStatic(r, p, path) ==
    IF GatePackRead(r, p) THEN PackStaticPath(p, path) \cap ListPackStatic(p) ELSE {}

PublicThreads(r, p, kind, all, after, size) ==
    IF GatePackRead(r, p) THEN {PageSplit(ThreadsFor(p, kind, ~all, after, PageProbe(size)), size)} ELSE {}

\* What is paged is the discussion; the thread rides with every page.
PublicThread(r, i, after, size) ==
    {[thread |-> t, comments |-> PageSplit(CommentsOn(i, after, PageProbe(size)), size)] :
        t \in {t \in ThreadById(i) : GatePackRead(r, t.pack)}}

\* A proposal shows what it offers to whoever may read the pack it is offered to.
PublicThreadDiff(r, i) ==
    {[from |-> t.pack, to |-> t.source] :
        t \in {t \in ThreadById(i) : GatePackRead(r, t.pack) /\ t.source # "none" /\ HasConfig(t.source)}}

\* The key is the whole credential.
PersonalFeed(key) ==
    UNION {ToSet(NotificationsFor(u, FALSE, 0, 50)) : u \in UidForFeedKey(key)}

\* Each entry names the actor, or the operator for the bearer.
AtomFeed(rows) == {[entry |-> x.n, who |-> IF x.actor = BreakGlassUid THEN "operator" ELSE "login"] : x \in rows}

\* "Used by" is kept to what the launcher's catalog exposes.
GetModDetail == [files |-> [sha \in Jars |-> sha \in CachedAmong(Jars)],
                 used |-> UsedBy \cap {s.pack : s \in {s \in ListPackSummaries :
                                s.tier = "official" /\ s.visibility = "published"}}]

GetFileDetail(sha) == {[sha |-> s, cached |-> HasCacheJar(s)] : s \in Jars \cap {sha}}

-----------------------------------------------------------------------------
(* Member and authoring handlers *)

\* What the middleware in front of the operator and the debug routes answers to.
RequireAuth(r) == {id \in OptionalIdentity(r) : IsAdmin(id)}
RequireDebug(r) == {id \in OptionalIdentity(r) : RoleRank(id.role) >= RoleRank("debug")}

Me(r) == {[uid |-> id.uid, role |-> id.role, terms |-> RequireTerms(id.uid), stopped |-> SuspensionOf(id.uid)] :
            id \in OptionalIdentity(r)}

MyPacks(id) == {s \in ListPackSummaries : s.owner = id.uid \/ IsAdmin(id)}

MyAuthoring(id) == FilterMay(id, ListAuthoringPacks, "view")

MyNotifications(id, unread, after, size) ==
    [unread |-> UnreadCount(id.uid),
     list |-> PageSplit(NotificationsFor(id.uid, unread, after, PageProbe(size)), size)]

ListAccess(id, p) == IF Authorize(id, p, "view") THEN ListPackAccess(p) ELSE {}
ListBlocks(id, p) == IF Authorize(id, p, "edit") THEN ListPackBlocks(p) ELSE {}
ListStatic(id, p) == IF Authorize(id, p, "view") THEN ListPackStatic(p) ELSE {}
ListAllPackSummaries(r) == UNION {ListPackSummaries : id \in RequireAuth(r)}

CommitLogEntry(p, c) == [commit |-> c, builds |-> BuildsByCommit(p, c)]

ListCommits(id, p, after, size) ==
    IF Authorize(id, p, "view")
    THEN LET log == CommitLog(p, after, IF size = 0 THEN 100 ELSE PageProbe(size))
         IN  {PageSplit([i \in 1..Len(log) |-> CommitLogEntry(p, log[i])], size)}
    ELSE {}

GetCommit(id, p, c) ==
    IF Authorize(id, p, "view") THEN {CommitLogEntry(p, d) : d \in LoadCommit(p, c)} ELSE {}

GetCommitConfig(id, p, c) == IF Authorize(id, p, "view") THEN LoadCommitConfig(p, c) ELSE {}

\* The commit on its own, or from its parent: both snapshots must load.
CommitDiff(id, p, c) ==
    IF Authorize(id, p, "view") /\ LoadCommit(p, c) # {} /\ LoadCommitConfig(p, c) # {}
    THEN LET at == CHOOSE i \in 1..Len(Log[p]) : Log[p][i] = c
         IN  IF at = Len(Log[p]) THEN {<<"initial", c>>}
             ELSE {<<d, c>> : d \in LoadCommitConfig(p, Log[p][at + 1])}
    ELSE {}

-----------------------------------------------------------------------------
(* Properties *)

\* No request is in flight.  A read does not look at those, and every state of
\* the store is also reached without one (Crash), so the properties are asked
\* of these states.
Quiet == \A u \in Callers : calls[u] = Idle

Listed(ids) ==
    {s.pack : s \in ListPacks \cup ListCommunity} \cup GetModDetail.used \cup UNION {MyAuthoring(id) : id \in ids}
        \cup {s.pack : s \in {s \in UNION {MyPacks(id) : id \in ids} : s.tier = "community"}}

\* Whoever finds a built pack in the catalog, in the community shelf, in their
\* own lists or in the "used by" of a mod can open it, every open door opens to
\* the same readers, and a draft opens to exactly those the gate gives a view.
\* A pack nobody has built, a clone among them, is in the authoring list of
\* whoever may view it and behind none of these doors: they ask the summary.
PacksAgree(r, ids, p, listed, open, threadsOf) ==
    /\ p \in listed /\ HasSummary(p) => open
    /\ ~HasSummary(p) => ~open
    /\ \A id \in ids : p \in MyAuthoring(id) <=> HasConfig(p) /\ Authorize(id, p, "view")
    /\ HasSummary(p) /\ packs[p] = "draft" => (open <=> \E id \in ids : Authorize(id, p, "view"))
    /\ open <=> GetPackSummary(r, p) # {}
    /\ open <=> PublicThreads(r, p, "any", TRUE, <<>>, 1) # {}
    /\ \A i \in threadsOf : open <=> PublicThread(r, i, 0, 1) # {}
    /\ ~open => /\ GetLatestManifest(r, p) = {} /\ GetManifestVersions(r, p) = {}
                /\ \A f \in Statics[p] : GetPackStatic(r, p, f) = {}
                /\ \A i \in threadsOf : PublicThreadDiff(r, i) = {}

\* Every build the version list names is served, and any two of them compare;
\* the list leaves out exactly the files that no longer parse.
BuildsServed(r, p) ==
    \A l \in GetManifestVersions(r, p), k \in DOMAIN StoredManifestVersions(p) :
        LET v == StoredManifestVersions(p)[k]
            in == \E j \in DOMAIN l.builds : l.builds[j].version = v
        IN  /\ in <=> GetManifestVersion(r, p, v) # {}
            /\ in => GetPackDiff(r, p, v, v) # {} /\ (l.latest # {} => GetPackDiff(r, p, v, <<>>) # {})

\* The authoring reads answer a caller the gate gives the level, and no other;
\* every commit the log lists opens, with its config and what it changed.
HistoryOpens(id, p) ==
    IF ~Authorize(id, p, "view")
    THEN ListCommits(id, p, "none", 0) = {} /\ ListStatic(id, p) = {} /\ ListAccess(id, p) = {}
            /\ ListBlocks(id, p) = {}
    ELSE \A l \in ListCommits(id, p, "none", 0) : \A k \in DOMAIN l.page :
            LET c == l.page[k].commit
            IN  GetCommit(id, p, c) # {} /\ GetCommitConfig(id, p, c) # {} /\ CommitDiff(id, p, c) # {}

\* What a person is told is the same wherever they read it: the feed behind
\* their key is their list, the badge counts what the list shows unread, the
\* operator's view of the account is the one they get of themselves, and a
\* comment read alone is the one in its thread.
TellsTheSame(u) ==
    LET list == NotificationsFor(u, FALSE, 0, 0)
    IN  /\ feedKey[u] # 0 => AtomFeed(PersonalFeed(feedKey[u])) = AtomFeed(ToSet(list))
        /\ \A id \in OptionalIdentity(u) :
              MyNotifications(id, TRUE, 0, 0).unread = Len(NotificationsFor(u, TRUE, 0, 0))
        /\ \A me \in Me(u) : \E row \in ListUsers :
              row = [uid |-> u, role |-> me.role, suspended |-> me.stopped]
        /\ \A c \in Ids : \A i \in ThreadOfComment(c) :
              \A one \in CommentById(c) : one \in ToSet(CommentsOn(i, 0, 0))

\* The operator's reads are behind the admin rung, and debug is above it.
OperatorsOnly(r) ==
    /\ RequireDebug(r) \subseteq RequireAuth(r)
    /\ RequireAuth(r) = {} => ListAllPackSummaries(r) = {}

ReaderSees(r, ids, listed) ==
    \A p \in Packs :
        /\ PacksAgree(r, ids, p, listed, GatePackRead(r, p),
                      {i \in Ids : Exists(threads, i) /\ threads[i].pack = p})
        /\ BuildsServed(r, p)
        /\ \A id \in ids : HistoryOpens(id, p)

ReaderAgrees(r, ids) == ReaderSees(r, ids, Listed(ids))

\* However requests interleave, what one listing shows a reader every other door
\* opens to the same reader, and to nobody else.  The rule is asked in
\* gate_summary, in authorize, in filter_may and by the filters of three
\* listings, against summaries, grants and roles that different requests change.
DoorsAgree ==
    Quiet =>
        /\ ListingMatchesGate
        /\ \A r \in Readers : OperatorsOnly(r) /\ ReaderAgrees(r, OptionalIdentity(r))
        /\ \A u \in Uids : TellsTheSame(u)
        /\ \A sha \in Jars : \A f \in GetFileDetail(sha) : f.cached = GetModDetail.files[sha]

\* Following the links of a listing gives the whole listing, each row once, in
\* its order, whatever the page size: threads (ordered by second, then id),
\* comments, notifications and the commit log.  threads_for says what its
\* tiebreak is for: "a cursor into an order that is not total can skip a row or
\* serve it twice".
PagesCover ==
    Quiet => \A size \in 1..2 :
        /\ \A p \in Packs, kind \in {"any", "issue"}, all \in BOOLEAN :
              LET read(after) == ThreadsFor(p, kind, ~all, after, PageProbe(size))
                  key(t) == <<t.created, t.id>>
              IN  Pages(read, key, <<>>, size) = ThreadsFor(p, kind, ~all, <<>>, 0)
        /\ \A i \in Ids :
              LET read(after) == CommentsOn(i, after, PageProbe(size))
                  key(c) == c.id
              IN  Pages(read, key, 0, size) = CommentsOn(i, 0, 0)
        /\ \A u \in Uids, unread \in BOOLEAN :
              LET read(after) == NotificationsFor(u, unread, after, PageProbe(size))
                  key(x) == x.n
              IN  Pages(read, key, 0, size) = NotificationsFor(u, unread, 0, 0)
        /\ \A p \in Packs :
              LET read(after) == CommitLog(p, after, PageProbe(size))
                  key(c) == c
              IN  Pages(read, key, "none", size) = CommitLog(p, "none", 100)

\* Anyone who can read a discussion can join it, as post_comment's comment says:
\* a signed-in person the public thread page answers to is not refused a reply
\* for want of sight of the pack.
ReadersMayJoin ==
    \A u \in Uids, i \in Ids :
        PublicThread(u, i, 0, 0) # {} =>
            \A id \in OptionalIdentity(u) : MayReadThreads(id, threads[i].pack)

\* "An unpublished pack's discussion stays with whoever can see the pack", says
\* public_threads: somebody with a view of a pack can open every thread on it.
\* gate_pack_read loads the summary first, so nobody can where the pack has not
\* been built yet, while open_issue and post_comment ask the gate alone.
DiscussionStays ==
    \A u \in Uids, i \in Ids :
        Exists(threads, i) /\ HasConfig(threads[i].pack) =>
            \A id \in OptionalIdentity(u) :
                Authorize(id, threads[i].pack, "view") => PublicThread(u, i, 0, 0) # {}
=============================================================================
