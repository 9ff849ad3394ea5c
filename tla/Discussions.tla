---------------------------- MODULE Discussions -----------------------------
(***************************************************************************)
(* What people do to a pack that is not the pack itself: letting others in *)
(* and stopping them, and the threads, comments and notifications about    *)
(* it.  A request is several steps: the middleware resolves who is calling *)
(* (Arrive), the handler asks the gate (the ...Gate actions), writes (the  *)
(* ...Write actions) and, for a thread that moved, works out whom to tell  *)
(* and tells them (Audience, Tell).  Requests of different callers         *)
(* interleave between any two of these, and the process may die there.     *)
(***************************************************************************)
EXTENDS Accounts

CONSTANTS
    Nobody,             \* stands for a uid where there is none
    Shelves,            \* bound: the visibilities packs may start with
    Menus,              \* bound: the workloads explored, each a bag of operation names
    MaxRows,            \* bound: rows of threads, comments and notifications
    ThreadsPerWindow,   \* THREADS_PER_WINDOW
    CommentsPerWindow   \* COMMENTS_PER_WINDOW

ASSUME ShelvesAssumption == Shelves \subseteq [Packs -> Visibilities \cup {"unbuilt", "absent"}]
ASSUME RowsAssumption == MaxRows \in Nat

\* Behind require_auth: the admin rung is asked of the identity as resolved.
OperatorOps == {"role", "suspend", "lift"}

\* The operations whose handler asks a gate before it writes.
GatedOps == {"suspend", "grant", "revoke", "block", "unblock", "visibility", "delete", "fork",
             "issue", "proposal", "comment", "hide", "close", "reopen", "merge"}

\* Every operation a request may ask for.
Ops == OperatorOps \cup GatedOps \cup {"read", "terms", "feedkey", "rotate"}

ASSUME MenusAssumption ==
    \A m \in Menus : DOMAIN m \subseteq Ops \cup {"session"} /\ \A op \in DOMAIN m : m[op] \in Nat

VARIABLES
    threads,  \* [1..MaxRows -> thread row or NoRow]: pack_threads
    comments, \* [1..MaxRows -> comment row or NoRow]: thread_comments
    notes,    \* notification rows
    feedKey,  \* [Uids -> Nat]: feed_keys, 0 when there is none
    minted,   \* feed keys minted so far
    calls,    \* [Callers -> the request in flight or Idle]
    menu,     \* how many more requests of each operation this behaviour may see
    answered  \* ids of comments whose author got the 201

threadVars == <<threads, comments, notes, feedKey, minted, answered>>
vars == <<accountVars, threadVars, calls, menu>>

Callers == Uids \cup {BreakGlassUid}
Ids == 1..MaxRows
NoRow == [status |-> "absent"]
Idle == [op |-> "idle"]

\* A report or a fork offered back; by 0 is the machine bearer.
ThreadRows == [pack : Packs, kind : {"issue", "proposal"}, by : Callers, recent : BOOLEAN,
               status : {"open", "closed", "merged", "declined", "withdrawn"},
               source : Packs \cup {"none"}, decided : Callers \cup {Nobody}]

CommentRows == [status : {"said"}, thread : Ids, by : Callers, hidden : BOOLEAN, recent : BOOLEAN]

NoteRows == [n : Nat, uid : Uids, kind : {"comment", "opened", "settled"},
             thread : Ids, actor : Callers, read : BOOLEAN]

\* What a request says besides whom and which row, and what its gate worked out.
Whats == Roles \cup Levels \cup Visibilities \cup Packs
            \cup {"nothing", "hide", "show", "closed", "merged", "declined", "withdrawn"}

CallRecords == [op : Ops, id : Identities, pack : Packs \cup {"none"},
                target : Callers \cup {Nobody}, what : Whats, row : Nat,
                made : Nat, told : SUBSET Callers,
                pc : {"gate", "write", "forget", "audience", "tell"}]

\* Field types of every table and of the requests in flight.
TypeOK ==
    /\ AccountsTypeOK
    /\ threads \in [Ids -> ThreadRows \cup {NoRow}]
    /\ comments \in [Ids -> CommentRows \cup {NoRow}]
    /\ notes \subseteq NoteRows
    /\ feedKey \in [Uids -> Nat] /\ minted \in Nat
    /\ calls \in [Callers -> CallRecords \cup {Idle}]
    /\ DOMAIN menu \subseteq Ops \cup {"session"} /\ \A op \in DOMAIN menu : menu[op] \in Nat
    /\ answered \subseteq Ids

Exists(table, i) == i \in Ids /\ table[i] # NoRow

\* INTEGER PRIMARY KEY without AUTOINCREMENT: one past the largest id in use,
\* so the id of a deleted last row is handed out again.
NextId(table) == IF \A i \in Ids : table[i] = NoRow THEN 1
                 ELSE 1 + CHOOSE i \in Ids : /\ table[i] # NoRow
                                             /\ \A j \in Ids : table[j] # NoRow => j <= i

NotesOn(gone) == {x \in notes : x.thread \in gone}

-----------------------------------------------------------------------------
(* Store functions over threads, comments and notifications *)

OpenThread(p, kind, by, source) ==
    threads' = [threads EXCEPT ![NextId(threads)] =
                  [pack |-> p, kind |-> kind, by |-> by, status |-> "open", recent |-> TRUE,
                   source |-> source, decided |-> Nobody]]

\* A mutant: the UPDATE without its status in the WHERE.
SettleAnyThread(i, status, by) ==
    threads' = IF Exists(threads, i) THEN [threads EXCEPT ![i].status = status, ![i].decided = by]
               ELSE threads

\* Only an open thread settles.
SettleThread(i, status, by) ==
    IF Exists(threads, i) /\ threads[i].status = "open"
    THEN threads' = [threads EXCEPT ![i].status = status, ![i].decided = by]
    ELSE UNCHANGED threads

ReopenIssue(i) ==
    IF Exists(threads, i) /\ threads[i].kind = "issue" /\ threads[i].status = "closed"
    THEN threads' = [threads EXCEPT ![i].status = "open", ![i].decided = Nobody]
    ELSE UNCHANGED threads

Comment(i, by) ==
    comments' = [comments EXCEPT ![NextId(comments)] =
                   [status |-> "said", thread |-> i, by |-> by, hidden |-> FALSE, recent |-> TRUE]]

SetCommentHidden(c, hidden) == comments' = [comments EXCEPT ![c].hidden = hidden]

\* Counted from the rows themselves, never from a counter.
RecentBy(table, u) == Cardinality({i \in Ids : Exists(table, i) /\ table[i].by = u /\ table[i].recent})

SpeakersOn(i) == {comments[c].by : c \in {c \in Ids : Exists(comments, c) /\ comments[c].thread = i}}

\* A mutant: the reserved uid is given a list.
NotifyAllRows(uids, kind, i, actor) ==
    {[n |-> 1, uid |-> u, kind |-> kind, thread |-> i, actor |-> actor, read |-> FALSE] : u \in uids}

\* The actor is never told of their own act and the reserved uid has no list;
\* the foreign key refuses a row about a thread that is gone.
NotifyRows(uids, kind, i, actor) ==
    LET told == uids \ {actor, BreakGlassUid}
        base == IF notes = {} THEN 0
                ELSE CHOOSE m \in {x.n : x \in notes} : \A x \in notes : x.n <= m
    IN  IF ~Exists(threads, i) THEN {}
        ELSE {[n |-> base + Cardinality({v \in told : v <= u}), uid |-> u, kind |-> kind,
               thread |-> i, actor |-> actor, read |-> FALSE] : u \in told}

ForgetNotificationsAbout(p, u) ==
    notes' = {x \in notes : ~(x.uid = u /\ threads[x.thread].pack = p)}

MarkRead(u, n) ==
    notes' = {IF x.uid = u /\ (n = 0 \/ x.n = n) THEN [x EXCEPT !.read = TRUE] ELSE x : x \in notes}

\* Either side of a proposal; comments and notifications cascade.
ForgetPackThreads(p) ==
    LET gone == {i \in Ids : Exists(threads, i) /\ p \in {threads[i].pack, threads[i].source}}
    IN  /\ threads' = [i \in Ids |-> IF i \in gone THEN NoRow ELSE threads[i]]
        /\ comments' = [c \in Ids |-> IF Exists(comments, c) /\ comments[c].thread \in gone
                                      THEN NoRow ELSE comments[c]]
        /\ notes' = notes \ NotesOn(gone)
        /\ answered' = {c \in answered : comments[c].thread \notin gone}

\* An existing key is handed back; a missing one is minted.
FeedKeyOf(u) ==
    IF feedKey[u] # 0 THEN UNCHANGED <<feedKey, minted>>
    ELSE /\ feedKey' = [feedKey EXCEPT ![u] = minted + 1]
         /\ minted' = minted + 1

-----------------------------------------------------------------------------
(* Whom to tell *)

KeepersOf(p) ==
    (IF NamespaceUid[p] # 0 THEN {NamespaceUid[p]} ELSE OperatorUids)
        \cup {g[1] : g \in {h \in ListPackAccess(p) : LevelRank(h[2]) >= LevelRank("edit")}}

\* A mutant: only whoever opened the thread is told.
OpenerOf(i, opener) == {opener}

VoicesIn(i, opener) == {opener} \cup SpeakersOn(i)

WithinRate(kind, u) ==
    IF kind = "comments" THEN RecentBy(comments, u) < CommentsPerWindow
    ELSE RecentBy(threads, u) < ThreadsPerWindow

-----------------------------------------------------------------------------
(* Requests *)

\* What a request of this kind may name: [pack, target, what, row].
Asks(P, T, W, R) == [pack : P, target : T, what : W, row : R]
RowsOf(table) == {i \in Ids : Exists(table, i)}

Args(op) ==
    CASE op = "role" -> Asks({"none"}, Callers, Roles, {0})
      [] op \in {"suspend", "lift"} -> Asks({"none"}, Callers, {"nothing"}, {0})
      [] op = "grant" -> Asks(Packs, Callers, Levels, {0})
      [] op \in {"revoke", "block", "unblock"} -> Asks(Packs, Uids, {"nothing"}, {0})
      [] op = "visibility" -> Asks(Packs, {Nobody}, Visibilities, {0})
      [] op \in {"delete", "fork", "issue", "proposal"} -> Asks(Packs, {Nobody}, {"nothing"}, {0})
      [] op \in {"comment", "close", "reopen", "merge"} -> Asks({"none"}, {Nobody}, {"nothing"}, RowsOf(threads))
      [] op = "hide" -> Asks({"none"}, {Nobody}, {"hide", "show"}, RowsOf(comments))
      [] op = "read" -> Asks({"none"}, {Nobody}, {"nothing"}, {0} \cup {x.n : x \in notes})
      [] OTHER -> Asks({"none"}, {Nobody}, {"nothing"}, {0})

Arrive(u) ==
    /\ calls[u] = Idle
    /\ \E id \in Identities, op \in DOMAIN menu \ {"session"} :
        /\ menu[op] > 0
        /\ ResolvesTo(u, id)
        /\ op \in OperatorOps => IsAdmin(id)
        /\ \E a \in Args(op) :
            calls' = [calls EXCEPT ![u] =
                        [op |-> op, id |-> id, pack |-> a.pack, target |-> a.target, what |-> a.what,
                         row |-> a.row, made |-> 0, told |-> {},
                         pc |-> IF op \in GatedOps THEN "gate" ELSE "write"]]
        /\ menu' = [menu EXCEPT ![op] = @ - 1]
    /\ UNCHANGED <<accountVars, threadVars>>

At(u, op, pc) == calls[u] # Idle /\ calls[u].op = op /\ calls[u].pc = pc

Finish(u) == calls' = [calls EXCEPT ![u] = Idle]
Onward(u, pc) == calls' = [calls EXCEPT ![u].pc = pc]

\* The gate lets the request through to its write, or answers a refusal.
GateStep(u, op, ok, onward) ==
    /\ At(u, op, "gate")
    /\ \/ ok /\ calls' = [calls EXCEPT ![u] = [onward EXCEPT !.pc = "write"]]
       \/ ~ok /\ Finish(u)
    /\ UNCHANGED <<accountVars, threadVars, menu>>

SignIn(u) ==
    /\ "session" \in DOMAIN menu /\ session[u] # "live"
    /\ GithubCallback(u)
    /\ UNCHANGED <<threadVars, calls, menu>>

EndSession(u) ==
    /\ "session" \in DOMAIN menu /\ menu["session"] > 0
    /\ menu' = [menu EXCEPT !["session"] = @ - 1]
    /\ Logout(u) \/ Lapse(u) \/ PruneLapsed(u)
    /\ UNCHANGED <<threadVars, calls>>

-----------------------------------------------------------------------------
(* Operator handlers *)

\* The target's rung is read before the row is written.
SuspendGate(u) ==
    LET c == calls[u]
    IN  GateStep(u, "suspend", c.target # c.id.uid /\ ~IsAdmin(IdentityOf(c.target)), c)

SuspendWrite(u) ==
    /\ At(u, "suspend", "write")
    /\ SuspendAccount(calls[u].target)
    /\ Finish(u)
    /\ UNCHANGED <<users, session, terms, grants, blocks, packs, threadVars, menu>>

Lift(u) ==
    /\ At(u, "lift", "write")
    /\ LiftSuspension(calls[u].target)
    /\ Finish(u)
    /\ UNCHANGED <<users, session, terms, grants, blocks, packs, threadVars, menu>>

SetUserRole(u) ==
    /\ At(u, "role", "write")
    /\ SetRole(calls[u].target, calls[u].what)
    /\ Finish(u)
    /\ UNCHANGED <<session, terms, suspended, grants, blocks, packs, threadVars, menu>>

-----------------------------------------------------------------------------
(* Access, blocks and the pack itself *)

GrantGate(u) ==
    LET c == calls[u]
    IN  GateStep(u, "grant", Authorize(c.id, c.pack, "own") /\ c.target # c.id.uid, c)

GrantAccess(u) ==
    /\ At(u, "grant", "write")
    /\ GrantPackAccess(calls[u].pack, calls[u].target, calls[u].what)
    /\ Finish(u)
    /\ UNCHANGED <<users, session, terms, suspended, blocks, packs, threadVars, menu>>

RevokeGate(u) == GateStep(u, "revoke", Authorize(calls[u].id, calls[u].pack, "own"), calls[u])

\* The row goes first, what they were told about the pack after it.
RevokeAccess(u) ==
    \/ /\ At(u, "revoke", "write")
       /\ RevokePackAccess(calls[u].pack, calls[u].target)
       /\ Onward(u, "forget")
       /\ UNCHANGED <<users, session, terms, suspended, blocks, packs, threadVars, menu>>
    \/ /\ At(u, "revoke", "forget")
       /\ ForgetNotificationsAbout(calls[u].pack, calls[u].target)
       /\ Finish(u)
       /\ UNCHANGED <<accountVars, threads, comments, feedKey, minted, answered, menu>>

\* Somebody who keeps the pack is not somebody to block.
BlockGate(u) ==
    LET c == calls[u]
    IN  GateStep(u, "block", Authorize(c.id, c.pack, "edit") /\ ~MayUid(c.pack, c.target, "edit"), c)

BlockWrite(u) ==
    /\ At(u, "block", "write")
    /\ BlockFromPack(calls[u].pack, calls[u].target)
    /\ Finish(u)
    /\ UNCHANGED <<users, session, terms, suspended, grants, packs, threadVars, menu>>

UnblockGate(u) == GateStep(u, "unblock", Authorize(calls[u].id, calls[u].pack, "edit"), calls[u])

UnblockWrite(u) ==
    /\ At(u, "unblock", "write")
    /\ UnblockFromPack(calls[u].pack, calls[u].target)
    /\ Finish(u)
    /\ UNCHANGED <<users, session, terms, suspended, grants, packs, threadVars, menu>>

VisibilityGate(u) == GateStep(u, "visibility", Authorize(calls[u].id, calls[u].pack, "own"), calls[u])

SetPackVisibility(u) ==
    /\ At(u, "visibility", "write")
    /\ packs' = [packs EXCEPT ![calls[u].pack] = IF HasSummary(calls[u].pack) THEN calls[u].what ELSE @]
    /\ Finish(u)
    /\ UNCHANGED <<users, session, terms, suspended, grants, blocks, threadVars, menu>>

DeleteGate(u) == GateStep(u, "delete", Authorize(calls[u].id, calls[u].pack, "own"), calls[u])

\* The files go first; the access list, the blocks and the threads after them.
DeletePack(u) ==
    \/ /\ At(u, "delete", "write")
       /\ packs' = [packs EXCEPT ![calls[u].pack] = "absent"]
       /\ IF HasConfig(calls[u].pack) THEN Onward(u, "forget") ELSE Finish(u)
       /\ UNCHANGED <<users, session, terms, suspended, grants, blocks, threadVars, menu>>
    \/ /\ At(u, "delete", "forget")
       /\ ForgetPackAccess(calls[u].pack)
       /\ ForgetPackBlocks(calls[u].pack)
       /\ ForgetPackThreads(calls[u].pack)
       /\ Finish(u)
       /\ UNCHANGED <<users, session, terms, suspended, packs, feedKey, minted, menu>>

\* A published pack is anyone's to fork; another only for who can see it.
ForkGate(u) ==
    LET c == calls[u]
    IN  GateStep(u, "fork", /\ NotSuspended(c.id)
                            /\ RequireTerms(c.id.uid)
                            /\ IsPublished(c.pack) \/ Authorize(c.id, c.pack, "view"), c)

\* The clone is a config and no summary, whatever the source has: duplicate_pack
\* refuses where either config says so.
ForkPack(u) ==
    /\ At(u, "fork", "write")
    /\ \/ \E t \in Packs : /\ NamespaceUid[t] = calls[u].id.uid
                           /\ ~HasConfig(t) /\ HasConfig(calls[u].pack)
                           /\ packs' = [packs EXCEPT ![t] = "unbuilt"]
       \/ /\ \A t \in Packs : NamespaceUid[t] = calls[u].id.uid =>
                HasConfig(t) \/ ~HasConfig(calls[u].pack)
          /\ UNCHANGED packs
    /\ Finish(u)
    /\ UNCHANGED <<users, session, terms, suspended, grants, blocks, threadVars, menu>>

-----------------------------------------------------------------------------
(* Threads *)

IssueGate(u) ==
    LET c == calls[u]
    IN  GateStep(u, "issue", /\ MayReadThreads(c.id, c.pack)
                             /\ NotSilenced(c.id, c.pack)
                             /\ WithinRate("threads", c.id.uid), c)

ProposalGate(u) ==
    LET c == calls[u]
    IN  \E source \in Packs :
            GateStep(u, "proposal", /\ Authorize(c.id, source, "edit")
                                    /\ MayReadThreads(c.id, c.pack)
                                    /\ source # c.pack
                                    /\ NotSilenced(c.id, c.pack)
                                    /\ WithinRate("threads", c.id.uid), [c EXCEPT !.what = source])

\* The row, then the audience; the opener is the caller.
OpenWrite(u, op, source) ==
    /\ At(u, op, "write")
    /\ NextId(threads) <= MaxRows
    /\ OpenThread(calls[u].pack, op, calls[u].id.uid, source)
    /\ calls' = [calls EXCEPT ![u].pc = "audience", ![u].row = NextId(threads)]
    /\ UNCHANGED <<accountVars, comments, notes, feedKey, minted, answered, menu>>

OpenIssue(u) == OpenWrite(u, "issue", "none")
OpenProposal(u) == OpenWrite(u, "proposal", calls[u].what)

\* load_thread: the row as it was read stays with the request.
Loaded(u) == [calls[u] EXCEPT !.pack = threads[calls[u].row].pack, !.target = threads[calls[u].row].by]

CommentGate(u) ==
    LET c == calls[u]
    IN  GateStep(u, "comment", /\ Exists(threads, c.row)
                               /\ MayReadThreads(c.id, threads[c.row].pack)
                               /\ NotSilenced(c.id, threads[c.row].pack)
                               /\ WithinRate("comments", c.id.uid), Loaded(u))

PostComment(u) ==
    /\ At(u, "comment", "write")
    /\ IF Exists(threads, calls[u].row)
       THEN /\ NextId(comments) <= MaxRows
            /\ Comment(calls[u].row, calls[u].id.uid)
            /\ calls' = [calls EXCEPT ![u].pc = "audience", ![u].made = NextId(comments)]
       ELSE Finish(u) /\ UNCHANGED comments
    /\ UNCHANGED <<accountVars, threads, notes, feedKey, minted, answered, menu>>

HideGate(u) ==
    LET c == calls[u]
    IN  GateStep(u, "hide", /\ Exists(comments, c.row)
                            /\ Exists(threads, comments[c.row].thread)
                            /\ Authorize(c.id, threads[comments[c.row].thread].pack, "edit"), c)

ModerateComment(u) ==
    /\ At(u, "hide", "write")
    /\ IF Exists(comments, calls[u].row) THEN SetCommentHidden(calls[u].row, calls[u].what = "hide")
       ELSE UNCHANGED comments
    /\ Finish(u)
    /\ UNCHANGED <<accountVars, threads, notes, feedKey, minted, answered, menu>>

Mine(u) == threads[calls[u].row].by = calls[u].id.uid

\* Taking back your own of either needs no level.
CloseGate(u) ==
    LET c == calls[u]
    IN  GateStep(u, "close", /\ Exists(threads, c.row)
                             /\ Mine(u) \/ Authorize(c.id, threads[c.row].pack, "edit"),
                 [Loaded(u) EXCEPT !.what = IF threads[c.row].kind = "issue" THEN "closed"
                                            ELSE IF Mine(u) THEN "withdrawn" ELSE "declined"])

MergeGate(u) ==
    LET c == calls[u]
    IN  GateStep(u, "merge", /\ Exists(threads, c.row)
                             /\ Authorize(c.id, threads[c.row].pack, "edit")
                             /\ threads[c.row].status = "open" /\ threads[c.row].kind = "proposal",
                 [Loaded(u) EXCEPT !.what = "merged"])

\* A settlement that matched nothing is a conflict and tells nobody.
Settle(u, op) ==
    /\ At(u, op, "write")
    /\ SettleThread(calls[u].row, calls[u].what, calls[u].id.uid)
    /\ IF Exists(threads, calls[u].row) /\ threads[calls[u].row].status = "open"
       THEN Onward(u, "audience") ELSE Finish(u)
    /\ UNCHANGED <<accountVars, comments, notes, feedKey, minted, answered, menu>>

CloseThread(u) == Settle(u, "close")
MergeProposal(u) == Settle(u, "merge")

ReopenGate(u) ==
    GateStep(u, "reopen", /\ Exists(threads, calls[u].row)
                          /\ Mine(u) \/ Authorize(calls[u].id, threads[calls[u].row].pack, "edit"),
             Loaded(u))

ReopenThread(u) ==
    /\ At(u, "reopen", "write")
    /\ ReopenIssue(calls[u].row)
    /\ IF threads' # threads THEN Onward(u, "audience") ELSE Finish(u)
    /\ UNCHANGED <<accountVars, comments, notes, feedKey, minted, answered, menu>>

-----------------------------------------------------------------------------
(* Telling *)

\* voices_in and keepers_of are read after the act is stored.
Audience(u) ==
    /\ calls[u] # Idle /\ calls[u].pc = "audience"
    /\ LET c == calls[u]
       IN  calls' = [calls EXCEPT ![u].pc = "tell", ![u].told =
              CASE c.op \in {"issue", "proposal"} -> KeepersOf(c.pack)
                [] c.op = "comment" -> VoicesIn(c.row, c.target) \cup KeepersOf(c.pack)
                [] OTHER -> VoicesIn(c.row, c.target)]
    /\ UNCHANGED <<accountVars, threadVars, menu>>

KindOf(op) == CASE op \in {"issue", "proposal"} -> "opened" [] op = "comment" -> "comment"
                [] OTHER -> "settled"

Tell(u) ==
    /\ calls[u] # Idle /\ calls[u].pc = "tell"
    /\ notes' = notes \cup NotifyRows(calls[u].told, KindOf(calls[u].op), calls[u].row, calls[u].id.uid)
    /\ answered' = IF calls[u].op = "comment" /\ Exists(comments, calls[u].made)
                   THEN answered \cup {calls[u].made} ELSE answered
    /\ Finish(u)
    /\ UNCHANGED <<accountVars, threads, comments, feedKey, minted, menu>>

ReadNotifications(u) ==
    /\ At(u, "read", "write")
    /\ MarkRead(calls[u].id.uid, calls[u].row)
    /\ Finish(u)
    /\ UNCHANGED <<accountVars, threads, comments, feedKey, minted, answered, menu>>

AcceptRules(u) ==
    /\ At(u, "terms", "write")
    /\ AcceptTerms(calls[u].id.uid)
    /\ Finish(u)
    /\ UNCHANGED <<users, session, suspended, grants, blocks, packs, threadVars, menu>>

MyFeedKey(u) ==
    /\ At(u, "feedkey", "write")
    /\ IF u = BreakGlassUid THEN UNCHANGED <<feedKey, minted>> ELSE FeedKeyOf(u)
    /\ Finish(u)
    /\ UNCHANGED <<accountVars, threads, comments, notes, answered, menu>>

\* The old key is deleted in one statement and its successor minted in another.
RotateFeedKey(u) ==
    \/ /\ At(u, "rotate", "write")
       /\ feedKey' = IF u = BreakGlassUid THEN feedKey ELSE [feedKey EXCEPT ![u] = 0]
       /\ IF u = BreakGlassUid THEN Finish(u) ELSE Onward(u, "forget")
       /\ UNCHANGED <<accountVars, threads, comments, notes, minted, answered, menu>>
    \/ /\ At(u, "rotate", "forget")
       /\ FeedKeyOf(u)
       /\ Finish(u)
       /\ UNCHANGED <<accountVars, threads, comments, notes, answered, menu>>

\* RATE_WINDOW_SECS pass.
WindowPasses ==
    /\ \E i \in Ids : (Exists(threads, i) /\ threads[i].recent) \/ (Exists(comments, i) /\ comments[i].recent)
    /\ threads' = [i \in Ids |-> IF Exists(threads, i) THEN [threads[i] EXCEPT !.recent = FALSE] ELSE NoRow]
    /\ comments' = [i \in Ids |-> IF Exists(comments, i) THEN [comments[i] EXCEPT !.recent = FALSE] ELSE NoRow]
    /\ UNCHANGED <<accountVars, notes, feedKey, minted, answered, calls, menu>>

\* The database is durable; requests in flight are not.
Crash ==
    /\ \E u \in Callers : calls[u] # Idle
    /\ calls' = [u \in Callers |-> Idle]
    /\ UNCHANGED <<accountVars, threadVars, menu>>

Init ==
    /\ users = [u \in Uids |-> IF ForcedRole(u) # "none" THEN ForcedRole(u) ELSE "member"]
    /\ session = [u \in Uids |-> "live"]
    /\ terms = {} /\ suspended = {} /\ blocks = {}
    /\ grants = [k \in Packs \X Uids |-> "none"]
    /\ packs \in Shelves
    /\ threads = [i \in Ids |-> NoRow]
    /\ comments = [i \in Ids |-> NoRow]
    /\ notes = {} /\ answered = {}
    /\ feedKey = [u \in Uids |-> 0] /\ minted = 0
    /\ calls = [u \in Callers |-> Idle]
    /\ menu \in Menus

Handler(u) ==
    \/ SuspendGate(u) \/ SuspendWrite(u) \/ Lift(u) \/ SetUserRole(u)
    \/ GrantGate(u) \/ GrantAccess(u) \/ RevokeGate(u) \/ RevokeAccess(u)
    \/ BlockGate(u) \/ BlockWrite(u) \/ UnblockGate(u) \/ UnblockWrite(u)
    \/ VisibilityGate(u) \/ SetPackVisibility(u) \/ DeleteGate(u) \/ DeletePack(u)
    \/ ForkGate(u) \/ ForkPack(u)
    \/ IssueGate(u) \/ OpenIssue(u) \/ ProposalGate(u) \/ OpenProposal(u)
    \/ CommentGate(u) \/ PostComment(u) \/ HideGate(u) \/ ModerateComment(u)
    \/ CloseGate(u) \/ CloseThread(u) \/ MergeGate(u) \/ MergeProposal(u)
    \/ ReopenGate(u) \/ ReopenThread(u) \/ Audience(u) \/ Tell(u)
    \/ ReadNotifications(u) \/ AcceptRules(u) \/ MyFeedKey(u) \/ RotateFeedKey(u)

Next ==
    \/ \E u \in Callers : Arrive(u) \/ Handler(u)
    \/ \E u \in Uids : SignIn(u) \/ EndSession(u)
    \/ WindowPasses \/ Crash

Spec == Init /\ [][Next]_vars

-----------------------------------------------------------------------------
(* Properties *)

\* A decision is made once: however two deciders interleave, a settled thread
\* keeps its status and its decider, except that a closed issue may be reopened;
\* a proposal never is.  settle_thread and reopen_issue carry this in the WHERE
\* of one UPDATE.
DecidedOnce ==
    [][\A i \in Ids : Exists(threads, i) /\ Exists(threads', i) /\ threads[i].status # "open" =>
          \/ /\ threads'[i].status = threads[i].status
             /\ threads'[i].decided = threads[i].decided
          \/ threads[i].kind = "issue" /\ threads[i].status = "closed" /\ threads'[i].status = "open"
      ]_vars

\* A comment whose author got an answer has reached everyone already in the
\* discussion: whoever opened it and whoever spoke before, other than its
\* author, holds a notification of it -- or was cut off since by a revocation,
\* which drops their list.  The audience is read after the comment is stored,
\* so two people speaking at once are told of each other.
\* Asked of workloads that comment and delete no pack: a row id is used again after
\* a deletion, and a comment on its way to the old thread would land in the new.
VoicesHear ==
    \A c \in answered :
        LET i == comments[c].thread
            earlier == {threads[i].by} \cup
                       {comments[d].by : d \in {d \in Ids : d < c /\ Exists(comments, d) /\ comments[d].thread = i}}
        IN  \A v \in earlier \ {comments[c].by, BreakGlassUid} :
               \/ \E x \in notes : x.uid = v /\ x.thread = i /\ x.actor = comments[c].by /\ x.kind = "comment"
               \/ "revoke" \in DOMAIN menu

\* Somebody who may not read a pack's discussion is shown nothing of it: once
\* every request has been answered, no notification names a thread of a pack its
\* reader can neither see published nor view.  revoke_access forgets what the
\* person was told for this reason.
ListShowsReadable ==
    (\A u \in Callers : calls[u] = Idle) =>
        \A x \in notes : MayReadThreads(IdentityOf(x.uid), threads[x.thread].pack)
=============================================================================
