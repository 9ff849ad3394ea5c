------------------------------ MODULE Accounts ------------------------------
(***************************************************************************)
(* The accounts store (accounts.db) and the authorisation gate in front of *)
(* every authored read and write: users and their rung, sessions, the      *)
(* rules-of-use record, suspensions, the per-pack access list and the      *)
(* per-pack blocks.  Every store function takes the connection's mutex for *)
(* its whole body, so each is one step; a handler is several.              *)
(***************************************************************************)
EXTENDS Naturals, FiniteSets

CONSTANTS
    Uids,         \* GitHub uids of the people who may sign in
    Packs,        \* pack ids that may exist
    NamespaceUid, \* [Packs -> Uids \cup {0}]: whose namespace the id names, 0 = official
    AdminUids,    \* the operator allowlists
    DebugUids,
    BearerRoles   \* rungs a machine bearer token is configured for

\* The reserved uid of the machine bearer.
BreakGlassUid == 0

ASSUME UidAssumption == Uids \subseteq Nat \ {BreakGlassUid} /\ IsFiniteSet(Uids)
ASSUME NamespaceAssumption == NamespaceUid \in [Packs -> Uids \cup {0}]

VARIABLES
    users,     \* [Uids -> Roles \cup {"nobody"}]: role of the users row, if any
    session,   \* [Uids -> {"none", "live", "lapsed"}]: the session row behind their cookie
    terms,     \* uids that accepted the rules of use
    suspended, \* uids with an account_suspensions row
    grants,    \* [Packs \X Uids -> Levels \cup {"none"}]: pack_access
    blocks,    \* subset of Packs \X Uids: pack_blocks
    packs      \* [Packs -> Visibilities \cup {"unbuilt", "absent"}]: what the summary says,
               \* "unbuilt" where there is a config and no summary yet

accountVars == <<users, session, terms, suspended, grants, blocks, packs>>

Roles == {"member", "admin", "debug"}
Levels == {"view", "edit", "own"}
Visibilities == {"draft", "unlisted", "published"}

ASSUME BearerAssumption == BearerRoles \subseteq Roles

\* Declaration order is the rank of a role and of a level.
RoleRank(r) == CASE r = "member" -> 1 [] r = "admin" -> 2 [] r = "debug" -> 3
LevelRank(l) == CASE l = "none" -> 0 [] l = "view" -> 1 [] l = "edit" -> 2 [] l = "own" -> 3

IsAdmin(id) == RoleRank(id.role) >= RoleRank("admin")

\* What the middleware attaches to a request.
Identities == [uid : Uids \cup {BreakGlassUid}, role : Roles]

BreakGlass(role) == [uid |-> BreakGlassUid, role |-> role]

AccountsTypeOK ==
    /\ users \in [Uids -> Roles \cup {"nobody"}]
    /\ session \in [Uids -> {"none", "live", "lapsed"}]
    /\ terms \subseteq Uids \cup {BreakGlassUid}
    /\ suspended \subseteq Uids
    /\ grants \in [Packs \X Uids -> Levels \cup {"none"}]
    /\ blocks \subseteq Packs \X Uids
    /\ packs \in [Packs -> Visibilities \cup {"unbuilt", "absent"}]

-----------------------------------------------------------------------------
(* Sign-in and sessions *)

\* debug outranks admin: a uid on both allowlists is given the higher rung.
ForcedRole(u) ==
    IF u \in DebugUids THEN "debug" ELSE IF u \in AdminUids THEN "admin" ELSE "none"

\* An allowlisted role is re-asserted; otherwise a first login seeds a member
\* and a later one leaves the stored role alone.
SignInGithub(u) ==
    /\ users' = [users EXCEPT ![u] =
                    IF ForcedRole(u) # "none" THEN ForcedRole(u)
                    ELSE IF @ = "nobody" THEN "member" ELSE @]
    /\ session' = [session EXCEPT ![u] = "live"]

\* The callback either fails before the store (state cookie, code exchange),
\* leaving everything alone, or signs the person in.
GithubCallback(u) ==
    /\ SignInGithub(u)
    /\ UNCHANGED <<terms, suspended, grants, blocks, packs>>

Logout(u) ==
    /\ session[u] # "none"
    /\ session' = [session EXCEPT ![u] = "none"]
    /\ UNCHANGED <<users, terms, suspended, grants, blocks, packs>>

\* SESSION_TTL passes.
Lapse(u) ==
    /\ session[u] = "live"
    /\ session' = [session EXCEPT ![u] = "lapsed"]
    /\ UNCHANGED <<users, terms, suspended, grants, blocks, packs>>

\* The identity behind the cookie: the role is joined from the users row on
\* every request, and a lapsed row is deleted as it is read.
SessionIdentity(u) == [uid |-> u, role |-> users[u]]

ResolvesTo(u, id) ==
    \/ u \in Uids /\ session[u] = "live" /\ id = SessionIdentity(u)
    \/ u = BreakGlassUid /\ \E r \in BearerRoles : id = BreakGlass(r)

PruneLapsed(u) ==
    /\ session[u] = "lapsed"
    /\ session' = [session EXCEPT ![u] = "none"]
    /\ UNCHANGED <<users, terms, suspended, grants, blocks, packs>>

\* Somebody by uid: an unknown one counts as the plain member they would be.
IdentityOf(u) ==
    IF u \in Uids THEN [uid |-> u, role |-> IF users[u] = "nobody" THEN "member" ELSE users[u]]
    ELSE BreakGlass("member")

OperatorUids == {u \in Uids : users[u] \in {"admin", "debug"}}

-----------------------------------------------------------------------------
(* The gate *)

SuspensionOf(u) == u \in suspended

NotSuspended(id) == IsAdmin(id) \/ ~SuspensionOf(id.uid)

\* The namespace an id names; 0 for one that names none.
PackNamespaceUid(p) == NamespaceUid[p]

InherentLevel(id, p) ==
    IF IsAdmin(id) \/ (PackNamespaceUid(p) # 0 /\ id.uid = PackNamespaceUid(p))
    THEN "own" ELSE "none"

PackAccessLevel(p, u) == IF u \in Uids THEN grants[<<p, u>>] ELSE "none"

\* The stored grant is read only where the identity gives no level of its own.
GrantedLevel(id, p) ==
    IF InherentLevel(id, p) # "none" THEN InherentLevel(id, p) ELSE PackAccessLevel(p, id.uid)

May(id, p, need) == LevelRank(GrantedLevel(id, p)) >= LevelRank(need)

Authorize(id, p, need) ==
    /\ LevelRank(need) >= LevelRank("edit") => NotSuspended(id)
    /\ May(id, p, need)

\* A decision about a third person.
MayUid(p, u, need) == Authorize(IdentityOf(u), p, need)

\* The access list of a pack, and of a person.
ListPackAccess(p) == {<<u, grants[<<p, u>>]>> : u \in {v \in Uids : grants[<<p, v>>] # "none"}}

PacksGrantedTo(u) == {p \in Packs : PackAccessLevel(p, u) # "none"}

\* A mutant: the namespace's own owner is listed nothing.
FilterMayGranted(id, ids, need) ==
    {p \in ids : p \in PacksGrantedTo(id.uid) /\ LevelRank(PackAccessLevel(p, id.uid)) >= LevelRank(need)}

\* One read of the whole access list instead of one per pack.
FilterMay(id, ids, need) ==
    LET granted == PacksGrantedTo(id.uid)
    IN  {p \in ids :
            IF InherentLevel(id, p) # "none"
            THEN LevelRank(InherentLevel(id, p)) >= LevelRank(need)
            ELSE p \in granted /\ LevelRank(PackAccessLevel(p, id.uid)) >= LevelRank(need)}

BlockOn(p, u) == <<p, u>> \in blocks

\* The levels are tried from the highest down with the gate itself; the stop
\* named is the account's before the pack's.
MyLevel(id, p) ==
    [level |-> CASE Authorize(id, p, "own") -> "own"
                 [] Authorize(id, p, "edit") /\ ~Authorize(id, p, "own") -> "edit"
                 [] Authorize(id, p, "view") /\ ~Authorize(id, p, "edit") -> "view"
                 [] OTHER -> "none",
     stopped |-> IF SuspensionOf(id.uid) THEN "everywhere"
                 ELSE IF BlockOn(p, id.uid) THEN "here" ELSE "no"]

NotSilenced(id, p) == NotSuspended(id) /\ ~BlockOn(p, id.uid)

RequireTerms(u) == u \in terms

\* A pack starts as its config; the summary is the first build's.
HasConfig(p) == packs[p] # "absent"
HasSummary(p) == packs[p] \notin {"unbuilt", "absent"}

IsPublished(p) == packs[p] = "published"

MayReadThreads(id, p) == IsPublished(p) \/ Authorize(id, p, "view")

-----------------------------------------------------------------------------
(* Store writes, each one statement under the connection's mutex; the
   reserved uid is refused where the code refuses it *)

GrantPackAccess(p, u, level) ==
    grants' = IF u = BreakGlassUid THEN grants ELSE [grants EXCEPT ![<<p, u>>] = level]

RevokePackAccess(p, u) ==
    grants' = IF u \in Uids THEN [grants EXCEPT ![<<p, u>>] = "none"] ELSE grants

ForgetPackAccess(p) ==
    grants' = [k \in DOMAIN grants |-> IF k[1] = p THEN "none" ELSE grants[k]]

BlockFromPack(p, u) ==
    blocks' = IF u = BreakGlassUid THEN blocks ELSE blocks \cup {<<p, u>>}

UnblockFromPack(p, u) == blocks' = blocks \ {<<p, u>>}

ForgetPackBlocks(p) == blocks' = {b \in blocks : b[1] # p}

SuspendAccount(u) ==
    suspended' = IF u = BreakGlassUid THEN suspended ELSE suspended \cup {u}

LiftSuspension(u) == suspended' = suspended \ {u}

SetRole(u, role) ==
    users' = IF u \in Uids /\ users[u] # "nobody" THEN [users EXCEPT ![u] = role] ELSE users

AcceptTerms(u) == terms' = terms \cup {u}

UpTo(level) == {l \in Levels : LevelRank(l) <= LevelRank(level)}

\* Roles and levels are ranks: a caller the listing shows a pack to is exactly
\* a caller the gate lets read it, and what the panel is told of its own level
\* is the highest level the gate would grant.  auth.rs answers the question in
\* three places (authorize, filter_may, my_level).
ListingMatchesGate ==
    \A u \in Uids : users[u] # "nobody" =>
        LET id == SessionIdentity(u)
        IN  /\ FilterMay(id, Packs, "view") = {p \in Packs : Authorize(id, p, "view")}
            /\ \A p \in Packs : {l \in Levels : Authorize(id, p, l)} = UpTo(MyLevel(id, p).level)
=============================================================================
