-------------------------- MODULE BuildJobsProofs ---------------------------
(***************************************************************************)
(* Proofs about BuildJobs for any number of jobs, commits, versions, pokes, *)
(* lines, failed writes and restarts.  Publication: manifests/latest always *)
(* resolves, a published version changes only when asked to, auto-numbering *)
(* never collides, and a finished build is what the pack serves; all four  *)
(* rest on the pack's build lock.  The harvester: a build that finds it    *)
(* settled does classify against a registry harvested since it began to    *)
(* wait.  Every variable keeps its type, and a stream of a job's log that  *)
(* ended has sent all of it.                                               *)
(***************************************************************************)
EXTENDS BuildJobs, WellFoundedInduction, TLAPS

\* A nonempty set of version counters has a greatest element, and Max is it
\* (the max() of next_auto_version).
LEMMA VersionMax ==
    ASSUME NEW S, S \subseteq Versions, S # {}
    PROVE  Max(S) \in S /\ \A v \in S : v <= Max(S)
<1> DEFINE R == OpToRel(<, Nat)
           T == {MaxVersion - v : v \in S}
<1>1. \A v \in S : v \in Nat /\ v <= MaxVersion
  BY JobConstantsOK DEF Versions
<1>2. T \subseteq Nat /\ T # {}
  BY <1>1, JobConstantsOK
<1>3. IsWellFoundedOn(R, Nat)
  BY NatLessThanWellFounded
<1>4. PICK x \in T : \A y \in T : ~ (<<y, x>> \in R)
  <2> HIDE DEF R, T
  <2> QED
    BY <1>2, <1>3, WFMin
<1>5. \A y \in T : x <= y
  <2> SUFFICES ASSUME NEW y \in T, ~(x <= y) PROVE FALSE
    OBVIOUS
  <2>1. x \in Nat /\ y \in Nat /\ y < x
    BY <1>2
  <2>2. <<y, x>> \in R
    BY <2>1, Zenon DEF OpToRel
  <2> QED
    BY <1>4, <2>2
<1>6. PICK m \in S : x = MaxVersion - m
  OBVIOUS
<1>7. ASSUME NEW v \in S PROVE m >= v
  <2>1. MaxVersion - v \in T
    OBVIOUS
  <2>2. MaxVersion - m <= MaxVersion - v
    BY <1>5, <1>6, <2>1
  <2>3. m \in Nat /\ v \in Nat /\ MaxVersion \in Nat
    BY <1>1, JobConstantsOK
  <2> HIDE DEF T
  <2> QED
    BY <2>2, <2>3
<1>8. \E m1 \in S : \A v \in S : m1 >= v
  BY <1>7
<1> QED
  BY <1>1, <1>8 DEF Max

\* next_auto_version issues a counter nobody has published under.
LEMMA AutoIsFresh == ASSUME Published \subseteq Versions PROVE NextAutoVersion \notin Published
<1>1. CASE Published = {}
  BY <1>1
<1>2. CASE Published # {}
  <2>1. Max(Published) \in Published /\ \A v \in Published : v <= Max(Published)
    BY <1>2, VersionMax
  <2>2. \A v \in Published : v \in Nat
    BY JobConstantsOK DEF Versions
  <2> QED
    BY <1>2, <2>1, <2>2 DEF NextAutoVersion
<1> QED
  BY <1>1, <1>2

----------------------------------------------------------------------------
(* The inductive invariant *)

\* The points of a task past the lock and not yet ended.
Working == Points \ {"unborn", "queued", "end"}
Publishing == {"save", "write", "forget", "latest", "summary"}

\* What a job at point p knows of the public files: the version it checked is
\* still free (or its to overwrite), and what it wrote is still its own.
JobPub(j, p, r, v, m, la, su, re) ==
    /\ p \in Publishing => r.kind = "build" /\ v \in Versions
    /\ p = "save" /\ r.want = AutoNumber => m[v] = None
    /\ p = "write" => m[v] = None \/ r.overwrite
    /\ p \in {"forget", "latest", "summary"} => m[v] = [from |-> r.from, by |-> j]
    /\ p = "summary" => la = v
    /\ p = "done" /\ r.kind = "build" =>
          /\ v \in Versions /\ m[v] = [from |-> r.from, by |-> j] /\ la = v
          /\ su = v \/ j \in re

PubType ==
    /\ next \in Nat
    /\ pc \in [Ids -> Points]
    /\ req \in [Ids -> Requests \cup {NoRequest}]
    /\ ver \in [Ids -> Versions \cup {None}]
    /\ manifests \in [Versions -> Manifests \cup {None}]
    /\ latest \in Versions \cup {None}

\* Jobs are born in order, with their request; a working build holds the lock.
LockInv ==
    /\ \A j \in Ids : j >= next => pc[j] = "unborn"
    /\ \A j \in Ids : pc[j] # "unborn" => req[j] \in Requests
    /\ \A j \in Ids : pc[j] \in Working /\ req[j].kind = "build" => buildLock = j

PubInv ==
    /\ PubType /\ LockInv
    /\ \A j \in Ids : JobPub(j, pc[j], req[j], ver[j], manifests, latest, summary, reverted)
    /\ LatestResolves
    /\ AutoNeverCollides

\* The initial state: nothing is published and no job is born.
LEMMA PubInit == Init => PubInv
<1> SUFFICES ASSUME Init PROVE PubInv
  OBVIOUS
<1>1. PubType
  BY DEF Init, PubType, Points
<1>2. LockInv
  BY DEF Init, LockInv, Working
<1> QED
  BY <1>1, <1>2 DEF Init, PubInv, JobPub, Publishing, LatestResolves,
     AutoNeverCollides

\* A job that moves without touching the public files.
LEMMA PubMove ==
    ASSUME PubInv, NEW j \in Ids, NEW point \in Points,
           pc[j] \in Working, pc' = [pc EXCEPT ![j] = point],
           ver' \in [Ids -> Versions \cup {None}],
           \A k \in Ids \ {j} : ver'[k] = ver[k],
           UNCHANGED <<next, req, public, collided, reverted>>,
           buildLock' = buildLock \/ (point = "end" /\ buildLock = j),
           JobPub(j, point, req[j], ver'[j], manifests, latest, summary, reverted),
           point # "unborn"
    PROVE  PubInv'
<1>1. PubType'
  BY DEF PubInv, PubType, public
<1>2. LockInv'
  <2>1. \A k \in Ids \ {j} : pc'[k] = pc[k]
    BY DEF PubInv, PubType
  <2>2. pc'[j] = point
    BY DEF PubInv, PubType
  <2>3. \A k \in Ids : k >= next' => pc'[k] = "unborn"
    BY <2>1, <2>2 DEF PubInv, LockInv, Working
  <2>4. \A k \in Ids : pc'[k] # "unborn" => req'[k] \in Requests
    BY <2>1, <2>2 DEF PubInv, LockInv, Working
  <2>5. ASSUME NEW k \in Ids, pc'[k] \in Working, req'[k].kind = "build"
        PROVE  buildLock' = k
    <3>1. CASE k = j
      BY <2>2, <2>5, <3>1 DEF PubInv, LockInv, Working
    <3>2. CASE k # j
      BY <2>1, <2>5, <3>2 DEF PubInv, LockInv
    <3> QED
      BY <3>1, <3>2
  <2> QED
    BY <2>3, <2>4, <2>5 DEF LockInv
<1>3. \A k \in Ids : JobPub(k, pc'[k], req'[k], ver'[k], manifests', latest', summary', reverted')
  <2> TAKE k \in Ids
  <2>1. CASE k = j
    BY <2>1 DEF PubInv, PubType, public
  <2>2. CASE k # j
    BY <2>2 DEF PubInv, PubType, public
  <2> QED
    BY <2>1, <2>2
<1> QED
  BY <1>1, <1>2, <1>3 DEF PubInv, LatestResolves, AutoNeverCollides, public

\* A job that writes a public file: it holds the lock, so no other job relies on
\* what is there.
LEMMA PubWrite ==
    ASSUME PubInv, NEW j \in Ids, NEW point \in Points \ {"unborn", "queued", "end"},
           pc[j] \in Publishing, pc' = [pc EXCEPT ![j] = point],
           UNCHANGED <<next, req, ver, buildLock, collided, reverted>>,
           manifests' \in [Versions -> Manifests \cup {None}],
           latest' \in Versions \cup {None},
           JobPub(j, point, req[j], ver[j], manifests', latest', summary', reverted'),
           LatestResolves'
    PROVE  PubInv'
<1>1. PubType'
  BY DEF PubInv, PubType
<1>2. pc'[j] = point /\ \A k \in Ids \ {j} : pc'[k] = pc[k]
  BY DEF PubInv, PubType
<1>3. pc[j] \in Working /\ req[j].kind = "build" /\ buildLock = j
  BY DEF PubInv, LockInv, Working, Publishing, JobPub, Points
<1>4. LockInv'
  BY <1>2, <1>3 DEF PubInv, LockInv, Working
<1>5. \A k \in Ids : JobPub(k, pc'[k], req'[k], ver'[k], manifests', latest', summary', reverted')
  <2> TAKE k \in Ids
  <2>1. CASE k = j
    BY <1>2, <2>1
  <2>2. CASE k # j
    <3>1. pc'[k] = pc[k] /\ req'[k] = req[k] /\ ver'[k] = ver[k]
      BY <1>2, <2>2
    <3>2. ~(pc[k] \in Working /\ req[k].kind = "build")
      BY <1>3, <2>2 DEF PubInv, LockInv
    <3>3. pc[k] \notin Publishing
      BY <3>2 DEF PubInv, JobPub, Working, Publishing, Points
    <3>4. ~(pc[k] = "done" /\ req[k].kind = "build")
      BY <3>2 DEF Working, Points
    <3> QED
      BY <3>1, <3>3, <3>4 DEF JobPub, Publishing
  <2> QED
    BY <2>1, <2>2
<1> QED
  BY <1>1, <1>4, <1>5 DEF PubInv, AutoNeverCollides

----------------------------------------------------------------------------
(* One lemma per kind of step *)

\* A new job is at its first point, with its request, and holds nothing.
LEMMA PubCreate == ASSUME PubInv, NEW r \in Requests, Create(r) PROVE PubInv'
<1>1. /\ next \in Ids /\ next' = next + 1
      /\ req' = [req EXCEPT ![next] = r]
      /\ UNCHANGED <<ver, buildLock, public, collided, reverted>>
  BY DEF Create, rest, card
<1>2. PICK point \in {"queued", "begin"} :
         /\ pc' = [pc EXCEPT ![next] = point]
         /\ point = "begin" => r.kind # "build"
  BY DEF Create, Goto
<1>3. PubType'
  BY <1>1, <1>2 DEF PubInv, PubType, public, Points
<1>4. /\ pc'[next] = point /\ req'[next] = r
      /\ \A k \in Ids \ {next} : pc'[k] = pc[k] /\ req'[k] = req[k]
  BY <1>1, <1>2 DEF PubInv, PubType
<1>5. LockInv'
  <2>1. next \in Nat /\ \A k \in Ids : k \in Nat
    BY DEF PubInv, PubType, Ids
  <2>2. ASSUME NEW k \in Ids, k >= next' PROVE pc'[k] = "unborn"
    <3>1. k >= next /\ k # next
      BY <1>1, <2>1, <2>2
    <3>2. pc[k] = "unborn"
      BY <3>1 DEF PubInv, LockInv
    <3> QED
      BY <1>4, <3>1, <3>2
  <2>3. \A k \in Ids : pc'[k] # "unborn" => req'[k] \in Requests
    BY <1>4 DEF PubInv, LockInv
  <2>4. \A k \in Ids : pc'[k] \in Working /\ req'[k].kind = "build" => buildLock' = k
    BY <1>1, <1>2, <1>4 DEF PubInv, LockInv, Working
  <2> QED
    BY <2>2, <2>3, <2>4 DEF LockInv
<1>6. \A k \in Ids : JobPub(k, pc'[k], req'[k], ver'[k], manifests', latest', summary', reverted')
  <2> TAKE k \in Ids
  <2>1. CASE k = next
    BY <1>2, <1>4, <2>1 DEF JobPub, Publishing
  <2>2. CASE k # next
    BY <1>1, <1>4, <2>2 DEF PubInv, public
  <2> QED
    BY <2>1, <2>2
<1> QED
  BY <1>1, <1>3, <1>5, <1>6 DEF PubInv, LatestResolves, AutoNeverCollides, public

\* The lock is free, so no build is working: the one that takes it is alone.
LEMMA PubLock == ASSUME PubInv, NEW j \in Ids, Lock(j) PROVE PubInv'
<1>1. /\ pc[j] = "queued" /\ buildLock = None /\ buildLock' = j
      /\ pc' = [pc EXCEPT ![j] = "begin"]
      /\ UNCHANGED <<next, req, ver, public, collided, reverted>>
  BY DEF Lock, At, Goto, rest, card
<1>2. PubType'
  BY <1>1 DEF PubInv, PubType, public, Points
<1>3. pc'[j] = "begin" /\ \A k \in Ids \ {j} : pc'[k] = pc[k]
  BY <1>1 DEF PubInv, PubType
<1>4. \A k \in Ids : ~(pc[k] \in Working /\ req[k].kind = "build")
  BY <1>1, JobConstantsOK DEF PubInv, LockInv
<1>5. LockInv'
  BY <1>1, <1>3, <1>4 DEF PubInv, LockInv
<1>6. \A k \in Ids : JobPub(k, pc'[k], req'[k], ver'[k], manifests', latest', summary', reverted')
  <2> TAKE k \in Ids
  <2>1. CASE k = j
    BY <1>3, <2>1 DEF JobPub, Publishing
  <2>2. CASE k # j
    BY <1>1, <1>3, <2>2 DEF PubInv, public
  <2> QED
    BY <2>1, <2>2
<1> QED
  BY <1>1, <1>2, <1>5, <1>6 DEF PubInv, LatestResolves, AutoNeverCollides, public

\* Before it resolves and after it finishes a job promises nothing.
LEMMA PubQuiet ==
    ASSUME PubInv, NEW j \in Ids, NEW point \in Points,
           pc[j] \in Working, Goto(j, point),
           UNCHANGED <<next, req, ver, public, collided, reverted>>,
           buildLock' = buildLock \/ (point = "end" /\ buildLock = j),
           point \notin Publishing \cup {"unborn"},
           point = "done" => req[j].kind # "build"
    PROVE  PubInv'
<1>1. ver' \in [Ids -> Versions \cup {None}] /\ \A k \in Ids \ {j} : ver'[k] = ver[k]
  BY DEF PubInv, PubType
<1>2. JobPub(j, point, req[j], ver'[j], manifests, latest, summary, reverted)
  BY DEF JobPub, Publishing
<1> QED
  BY <1>1, <1>2, PubMove DEF Goto

\* Resolving: the counter is past every published one, and a named version is
\* taken as it is.
LEMMA PubResolve == ASSUME PubInv, NEW j \in Ids, Resolve(j) PROVE PubInv'
<1>1. /\ pc[j] = "resolve"
      /\ UNCHANGED <<next, req, buildLock, public, collided, reverted>>
  BY DEF Resolve, At, rest, card
<1>2. pc[j] \in Working
  BY <1>1 DEF Working, Points
<1>3. CASE Goto(j, "failing") /\ UNCHANGED ver
  BY <1>1, <1>2, <1>3, PubQuiet DEF Points, Publishing
<1>4. CASE /\ NextAutoVersion \in Versions
           /\ ver' = [ver EXCEPT ![j] = IF req[j].want = AutoNumber THEN NextAutoVersion
                                        ELSE req[j].want]
           /\ Goto(j, IF req[j].kind = "build" THEN "save" ELSE "done")
  <2> DEFINE v == IF req[j].want = AutoNumber THEN NextAutoVersion ELSE req[j].want
             point == IF req[j].kind = "build" THEN "save" ELSE "done"
  <2>1. req[j] \in Requests
    BY <1>1 DEF PubInv, LockInv
  <2>2. req[j].want \in Named \cup {AutoNumber}
    <3>1. req[j] \in [kind : Kinds, want : Named \cup {AutoNumber}, from : Commits,
                      overwrite : BOOLEAN]
      BY <2>1, Zenon DEF Requests
    <3> QED
      BY <3>1
  <2>3. v \in Versions
    <3>1. \A n \in Named : n \in Versions
      BY JobConstantsOK DEF Versions
    <3> QED
      BY <1>4, <2>2, <3>1
  <2>4. /\ ver' \in [Ids -> Versions \cup {None}]
        /\ ver'[j] = v /\ \A k \in Ids \ {j} : ver'[k] = ver[k]
    BY <1>4, <2>3 DEF PubInv, PubType
  <2>5. req[j].want = AutoNumber => manifests[v] = None
    BY <2>3, AutoIsFresh DEF Published
  <2>6. JobPub(j, point, req[j], ver'[j], manifests, latest, summary, reverted)
    BY <2>3, <2>4, <2>5 DEF JobPub, Publishing
  <2>7. point \in Points /\ point # "unborn"
    BY DEF Points
  <2>8. pc' = [pc EXCEPT ![j] = point]
    BY <1>4 DEF Goto
  <2> HIDE DEF point, v
  <2> QED
    BY <1>1, <1>2, <2>4, <2>6, <2>7, <2>8, PubMove
<1> QED
  BY <1>3, <1>4, Zenon DEF Resolve

\* The check of save_manifest: an auto-numbered version is never refused, and a
\* version that goes on to the write is free or the job's to overwrite.
LEMMA PubSave == ASSUME PubInv, NEW j \in Ids, Save(j) PROVE PubInv'
<1>1. /\ pc[j] = "save"
      /\ UNCHANGED <<next, req, ver, buildLock, public, reverted>>
  BY DEF Save, At, card
<1>2. /\ pc[j] \in Working /\ req[j].kind = "build" /\ ver[j] \in Versions
      /\ req[j].want = AutoNumber => manifests[ver[j]] = None
  BY <1>1 DEF PubInv, JobPub, Publishing, Working, Points
<1>3. CASE ver[j] \in Published /\ ~req[j].overwrite
  <2>1. req[j].want # AutoNumber
    BY <1>2, <1>3 DEF Published
  <2>2. collided' = collided /\ Goto(j, "failing")
    BY <1>3, <2>1, Zenon DEF Save
  <2> QED
    BY <1>1, <1>2, <2>2, PubQuiet DEF Points, Publishing
<1>4. CASE ~(ver[j] \in Published /\ ~req[j].overwrite)
  <2>1. collided' = collided /\ pc' = [pc EXCEPT ![j] = "write"]
    BY <1>4 DEF Save, Goto
  <2>2. ver' \in [Ids -> Versions \cup {None}] /\ \A k \in Ids \ {j} : ver'[k] = ver[k]
    BY <1>1 DEF PubInv, PubType
  <2>3. manifests[ver[j]] = None \/ req[j].overwrite
    BY <1>2, <1>4 DEF Published
  <2>4. JobPub(j, "write", req[j], ver'[j], manifests, latest, summary, reverted)
    BY <1>1, <1>2, <2>3 DEF JobPub, Publishing
  <2> QED
    BY <1>1, <1>2, <2>1, <2>2, <2>4, PubMove DEF Points
<1> QED
  BY <1>3, <1>4

\* A failed disk write leaves the public files alone and fails the job.
LEMMA PubFault ==
    ASSUME PubInv, NEW j \in Ids, pc[j] \in Publishing, Goto(j, "failing"),
           UNCHANGED <<next, req, ver, buildLock, public, collided, reverted>>
    PROVE  PubInv'
BY PubQuiet DEF Points, Publishing, Working

\* Writing the manifest: the file is the job's own from here on.
LEMMA PubWriteStep == ASSUME PubInv, NEW j \in Ids, Write(j) PROVE PubInv'
<1>1. /\ pc[j] = "write"
      /\ UNCHANGED <<next, req, ver, buildLock, collided, reverted>>
  BY DEF Write, At, card
<1>2. pc[j] \in Publishing /\ req[j].kind = "build" /\ ver[j] \in Versions
  BY <1>1 DEF PubInv, JobPub, Publishing
<1>3. CASE Goto(j, "failing") /\ UNCHANGED public
  BY <1>1, <1>2, <1>3, PubFault
<1>4. CASE /\ manifests' = [manifests EXCEPT ![ver[j]] = [from |-> req[j].from, by |-> j]]
           /\ UNCHANGED <<latest, summary>>
           /\ Goto(j, "forget")
  <2>1. req[j] \in Requests
    BY <1>1 DEF PubInv, LockInv
  <2>2. [from |-> req[j].from, by |-> j] \in Manifests
    BY <2>1 DEF Requests, Manifests
  <2>3. /\ manifests' \in [Versions -> Manifests \cup {None}]
        /\ manifests'[ver[j]] = [from |-> req[j].from, by |-> j]
        /\ \A v \in Versions \ {ver[j]} : manifests'[v] = manifests[v]
    BY <1>2, <1>4, <2>2 DEF PubInv, PubType
  <2>4. manifests'[ver[j]] # None
    BY <2>2, <2>3, JobConstantsOK DEF Manifests
  <2>5. LatestResolves'
    BY <1>4, <2>3, <2>4 DEF PubInv, PubType, LatestResolves
  <2>6. JobPub(j, "forget", req[j], ver[j], manifests', latest', summary', reverted')
    BY <1>2, <2>3 DEF JobPub, Publishing
  <2>7. latest' \in Versions \cup {None}
    BY <1>4 DEF PubInv, PubType
  <2> QED
    BY <1>1, <1>2, <1>4, <2>3, <2>5, <2>6, <2>7, PubWrite DEF Goto, Points
<1> QED
  BY <1>3, <1>4, Zenon DEF Write, Writes

\* Moving the pointer: it names a manifest that is there.
LEMMA PubLatest == ASSUME PubInv, NEW j \in Ids, SetLatest(j) PROVE PubInv'
<1>1. /\ pc[j] = "latest"
      /\ UNCHANGED <<next, req, ver, buildLock, collided, reverted>>
  BY DEF SetLatest, At, card
<1>2. /\ pc[j] \in Publishing /\ req[j].kind = "build" /\ ver[j] \in Versions
      /\ manifests[ver[j]] = [from |-> req[j].from, by |-> j]
  BY <1>1 DEF PubInv, JobPub, Publishing
<1>3. CASE Goto(j, "failing") /\ UNCHANGED public
  BY <1>1, <1>2, <1>3, PubFault
<1>4. CASE latest' = ver[j] /\ UNCHANGED <<manifests, summary>> /\ Goto(j, "summary")
  <2>1. req[j] \in Requests
    BY <1>1 DEF PubInv, LockInv
  <2>2. [from |-> req[j].from, by |-> j] \in Manifests
    BY <2>1 DEF Requests, Manifests
  <2>3. manifests[ver[j]] # None
    BY <1>2, <2>2, JobConstantsOK DEF Manifests
  <2>4. LatestResolves'
    BY <1>4, <2>3 DEF LatestResolves
  <2>5. JobPub(j, "summary", req[j], ver[j], manifests', latest', summary', reverted')
    BY <1>2, <1>4 DEF JobPub, Publishing
  <2>6. manifests' \in [Versions -> Manifests \cup {None}] /\ latest' \in Versions \cup {None}
    BY <1>2, <1>4 DEF PubInv, PubType
  <2> QED
    BY <1>1, <1>2, <1>4, <2>4, <2>5, <2>6, PubWrite DEF Goto, Points
<1> QED
  BY <1>3, <1>4, Zenon DEF SetLatest, Writes

\* Writing the card: manifest, pointer and card agree on the job's version.
LEMMA PubSummary == ASSUME PubInv, NEW j \in Ids, SaveSummary(j) PROVE PubInv'
<1>1. /\ pc[j] = "summary"
      /\ UNCHANGED <<next, req, ver, buildLock, collided, reverted>>
  BY DEF SaveSummary, At, card
<1>2. /\ pc[j] \in Publishing /\ req[j].kind = "build" /\ ver[j] \in Versions
      /\ manifests[ver[j]] = [from |-> req[j].from, by |-> j]
      /\ latest = ver[j]
  BY <1>1 DEF PubInv, JobPub, Publishing
<1>3. CASE Goto(j, "failing") /\ UNCHANGED public
  BY <1>1, <1>2, <1>3, PubFault
<1>4. CASE summary' = ver[j] /\ UNCHANGED <<manifests, latest>> /\ Goto(j, "done")
  <2>1. LatestResolves'
    BY <1>4 DEF PubInv, LatestResolves
  <2>2. JobPub(j, "done", req[j], ver[j], manifests', latest', summary', reverted')
    BY <1>2, <1>4 DEF JobPub, Publishing
  <2>3. manifests' \in [Versions -> Manifests \cup {None}] /\ latest' \in Versions \cup {None}
    BY <1>4 DEF PubInv, PubType
  <2> QED
    BY <1>1, <1>2, <1>4, <2>1, <2>2, <2>3, PubWrite DEF Goto, Points
<1> QED
  BY <1>3, <1>4, Zenon DEF SaveSummary, Writes

\* Dropping the index keeps what was written in place.
LEMMA PubForget == ASSUME PubInv, NEW j \in Ids, Forget(j) PROVE PubInv'
<1>1. /\ pc[j] = "forget" /\ pc' = [pc EXCEPT ![j] = "latest"]
      /\ UNCHANGED <<next, req, ver, buildLock, public, collided, reverted>>
  BY DEF Forget, At, Goto, card
<1>2. ver' \in [Ids -> Versions \cup {None}] /\ \A k \in Ids \ {j} : ver'[k] = ver[k]
  BY <1>1 DEF PubInv, PubType
<1>3. JobPub(j, "latest", req[j], ver'[j], manifests, latest, summary, reverted)
  BY <1>1 DEF PubInv, JobPub, Publishing
<1> QED
  BY <1>1, <1>2, <1>3, PubMove DEF Working, Points

\* The steps of a task before it resolves and after it finishes.
LEMMA PubRest ==
    ASSUME PubInv, NEW j \in Ids,
           \/ Begin(j) \/ ProbeDirty(j) \/ ProbeRunning(j) \/ WaitTimeout(j)
           \/ Load(j) \/ Done(j) \/ PokeHarvest(j) \/ FailLine(j) \/ Failed(j)
           \/ FinalPersist(j)
    PROVE  PubInv'
<1> USE DEF At, rest, card, Points, Publishing, Working
<1>1. CASE Begin(j)
  BY <1>1, PubQuiet DEF Begin
<1>2. CASE ProbeDirty(j)
  <2>1. CASE dirty
    <3>1. UNCHANGED <<next, pc, req, ver, buildLock, public, collided, reverted>>
      BY <1>2, <2>1 DEF ProbeDirty
    <3> QED
      BY <3>1 DEF PubInv, PubType, LockInv, JobPub, LatestResolves,
         AutoNeverCollides, public
  <2>2. CASE ~dirty
    BY <1>2, <2>2, PubQuiet DEF ProbeDirty
  <2> QED
    BY <2>1, <2>2
<1>3. CASE ProbeRunning(j)
  BY <1>3, PubQuiet DEF ProbeRunning
<1>4. CASE WaitTimeout(j)
  BY <1>4, PubQuiet DEF WaitTimeout
<1>5. CASE Load(j)
  BY <1>5, PubQuiet DEF Load
<1>6. CASE Done(j)
  BY <1>6, PubQuiet DEF Done
<1>7. CASE PokeHarvest(j)
  BY <1>7, PubQuiet DEF PokeHarvest
<1>8. CASE FailLine(j) \/ Failed(j)
  BY <1>8, PubQuiet DEF FailLine, Failed
<1>9. CASE FinalPersist(j)
  BY <1>9, PubQuiet DEF FinalPersist
<1> QED
  BY <1>1, <1>2, <1>3, <1>4, <1>5, <1>6, <1>7, <1>8, <1>9

\* A restart ends every task and frees the lock; the files stay as they were.
LEMMA PubCrash == ASSUME PubInv, Crash PROVE PubInv'
<1>1. /\ pc' = [j \in Ids |-> IF pc[j] = "unborn" THEN "unborn" ELSE "end"]
      /\ UNCHANGED <<next, req, ver, public, collided, reverted>>
  BY DEF Crash, At
<1>2. PubType'
  BY <1>1 DEF PubInv, PubType, public, Points
<1>3. LockInv'
  BY <1>1 DEF PubInv, LockInv, Working
<1>4. \A k \in Ids : JobPub(k, pc'[k], req'[k], ver'[k], manifests', latest', summary', reverted')
  BY <1>1 DEF JobPub, Publishing
<1> QED
  BY <1>1, <1>2, <1>3, <1>4 DEF PubInv, LatestResolves, AutoNeverCollides, public

\* A toggle writes the card alone, over a build that is done with it if the card
\* has moved since the toggle loaded it.
LEMMA PubToggle ==
    ASSUME PubInv, NEW t \in Togglers, VisLoad(t) \/ VisWrite(t)
    PROVE  PubInv'
<1>1. UNCHANGED <<next, pc, req, ver, buildLock, manifests, latest, collided>>
  BY DEF VisLoad, VisWrite, jobVars, public
<1>2. \/ UNCHANGED <<summary, reverted>>
      \/ /\ summary' = toggle[t]
         /\ reverted' = reverted \cup {j \in Ids : pc[j] = "done" /\ summary # toggle[t]}
  BY DEF VisLoad, VisWrite, public, At
<1>3. \A k \in Ids : JobPub(k, pc'[k], req'[k], ver'[k], manifests', latest', summary', reverted')
  BY <1>1, <1>2 DEF PubInv, JobPub
<1>4. PubType' /\ LockInv' /\ LatestResolves' /\ AutoNeverCollides'
  BY <1>1 DEF PubInv, PubType, LockInv, LatestResolves, AutoNeverCollides
<1> QED
  BY <1>3, <1>4 DEF PubInv

\* Every step of the specification.
LEMMA PubNext == ASSUME PubInv, [Next]_vars PROVE PubInv'
<1>1. CASE UNCHANGED <<next, pc, req, ver, buildLock, public, collided, reverted>>
  BY <1>1 DEF PubInv, PubType, LockInv, JobPub, LatestResolves,
     AutoNeverCollides, public
<1>2. CASE \E r \in Requests : Create(r)
  BY <1>2, PubCreate
<1>3. ASSUME NEW j \in Ids, JobStep(j) PROVE PubInv'
  BY <1>3, PubLock, PubResolve, PubSave, PubWriteStep, PubLatest, PubSummary,
     PubForget, PubRest DEF JobStep
<1>4. CASE (\E j \in Ids : TailOpen(j)) \/ TailRead \/ IndexList \/ IndexInsert \/ Harvests
  BY <1>1, <1>4 DEF TailOpen, TailRead, IndexList, IndexInsert, Harvests, jobVars, rest, card
<1>5. CASE Crash
  BY <1>5, PubCrash
<1>6. CASE UNCHANGED vars
  BY <1>1, <1>6 DEF vars, jobVars, rest, card
<1>7. CASE \E t \in Togglers : VisLoad(t) \/ VisWrite(t)
  BY <1>7, PubToggle
<1> QED
  BY <1>2, <1>3, <1>4, <1>5, <1>6, <1>7 DEF Next

----------------------------------------------------------------------------
(* The theorems *)

\* PubInv holds in every reachable state.
LEMMA PubAlways == Spec => []PubInv
BY PubInit, PubNext, PTL DEF Spec

\* No reader follows manifests/latest to a missing file (set_latest_manifest).
THEOREM LatestAlwaysResolves == Spec => []LatestResolves
<1>1. PubInv => LatestResolves
  BY DEF PubInv
<1> QED
  BY <1>1, PubAlways, PTL

\* No auto-numbered build is refused for its version (next_auto_version,
\* save_manifest).
THEOREM AutoNumbersAreFree == Spec => []AutoNeverCollides
<1>1. PubInv => AutoNeverCollides
  BY DEF PubInv
<1> QED
  BY <1>1, PubAlways, PTL

\* The manifests move only when a job holding the lock writes its version.
LEMMA WhoWrites ==
    ASSUME [Next]_vars
    PROVE  manifests' = manifests \/ \E j \in Ids : Write(j)
<1>1. ASSUME NEW j \in Ids, JobStep(j) PROVE manifests' = manifests \/ Write(j)
  BY <1>1 DEF JobStep, Lock, Begin, ProbeDirty, ProbeRunning, WaitTimeout, Load,
     Resolve, Save, Forget, SetLatest, SaveSummary, Writes, Done, PokeHarvest,
     FailLine, Failed, FinalPersist, public
<1>2. CASE \/ \E r \in Requests : Create(r)
           \/ \E j \in Ids : TailOpen(j)
           \/ TailRead \/ IndexList \/ IndexInsert \/ Harvests \/ Crash
           \/ \E t \in Togglers : VisLoad(t) \/ VisWrite(t)
           \/ UNCHANGED vars
  BY <1>2 DEF Create, TailOpen, TailRead, IndexList, IndexInsert, Harvests,
     VisLoad, VisWrite, Crash, vars, public
<1> QED
  BY <1>1, <1>2 DEF Next

\* A published version changes only under a build that was asked to overwrite
\* it (save_manifest): check and write are two steps, and the lock joins them.
THEOREM PublishedStaysPut == Spec => PublishedImmutable
<1>1. ASSUME PubInv, [Next]_vars
      PROVE  \A v \in Published :
                manifests'[v] # manifests[v] => req[manifests'[v].by].overwrite
  <2> SUFFICES ASSUME NEW v \in Published, manifests'[v] # manifests[v]
               PROVE  req[manifests'[v].by].overwrite
    OBVIOUS
  <2>1. PICK j \in Ids : Write(j)
    BY <1>1, WhoWrites
  <2>2. pc[j] = "write"
    BY <2>1 DEF Write, At
  <2>3. ver[j] \in Versions /\ (manifests[ver[j]] = None \/ req[j].overwrite)
    BY <1>1, <2>2 DEF PubInv, JobPub, Publishing
  <2>4. manifests' = [manifests EXCEPT ![ver[j]] = [from |-> req[j].from, by |-> j]]
    BY <2>1 DEF Write, Writes, public
  <2>5. v \in Versions /\ manifests[v] # None /\ DOMAIN manifests = Versions
    BY <1>1 DEF Published, PubInv, PubType
  <2>6. v = ver[j] /\ manifests'[v] = [from |-> req[j].from, by |-> j]
    BY <2>3, <2>4, <2>5
  <2> QED
    BY <2>3, <2>5, <2>6
<1> QED
  BY <1>1, PubAlways, PTL DEF Spec, PublishedImmutable

\* A job's status moves only when its own task finishes it.
LEMMA WhoFinishes ==
    ASSUME [Next]_vars
    PROVE  status' = status \/ \E j \in Ids : Done(j) \/ Failed(j)
<1>1. ASSUME NEW j \in Ids, JobStep(j) PROVE status' = status \/ Done(j) \/ Failed(j)
  BY <1>1 DEF JobStep, Lock, Begin, ProbeDirty, ProbeRunning, WaitTimeout, Load,
     Resolve, Save, Write, Forget, SetLatest, SaveSummary, PokeHarvest, FailLine,
     FinalPersist
<1>2. CASE \/ \E r \in Requests : Create(r)
           \/ \E j \in Ids : TailOpen(j)
           \/ TailRead \/ IndexList \/ IndexInsert \/ Harvests \/ Crash
           \/ \E t \in Togglers : VisLoad(t) \/ VisWrite(t)
           \/ UNCHANGED vars
  BY <1>2 DEF Create, TailOpen, TailRead, IndexList, IndexInsert, Harvests,
     VisLoad, VisWrite, Crash, vars, jobVars
<1> QED
  BY <1>1, <1>2 DEF Next

StatusType == status \in [Ids -> Statuses]

\* A status is one of the three.
LEMMA StatusAlways == Spec => []StatusType
<1>1. Init => StatusType
  BY DEF Init, StatusType, Statuses
<1>2. StatusType /\ [Next]_vars => StatusType'
  BY WhoFinishes DEF StatusType, Statuses, Done, Failed
<1> QED
  BY <1>1, <1>2, PTL DEF Spec

\* A build that turns Done is the one the pack serves (run_build, spawn_build).
THEOREM DoneBuildsArePublished == Spec => DoneMeansPublished
<1>1. ASSUME PubInv, StatusType, [Next]_vars
      PROVE  \A j \in Ids :
               (status[j] = "running" /\ status'[j] = "done" /\ req[j].kind = "build") =>
                  /\ manifests[ver[j]] = [from |-> req[j].from, by |-> j]
                  /\ latest = ver[j]
                  /\ summary = ver[j] \/ j \in reverted
  <2> SUFFICES ASSUME NEW j \in Ids, status[j] = "running", status'[j] = "done",
                      req[j].kind = "build"
               PROVE  /\ manifests[ver[j]] = [from |-> req[j].from, by |-> j]
                      /\ latest = ver[j]
                      /\ summary = ver[j] \/ j \in reverted
    OBVIOUS
  <2>1. PICK k \in Ids : Done(k) \/ Failed(k)
    BY <1>1, WhoFinishes
  <2>2. Done(j)
    BY <1>1, <2>1 DEF Done, Failed, StatusType
  <2>3. pc[j] = "done"
    BY <2>2 DEF Done, At
  <2> QED
    BY <1>1, <2>3 DEF PubInv, JobPub
<1> QED
  BY <1>1, PubAlways, StatusAlways, PTL DEF Spec, DoneMeansPublished

-----------------------------------------------------------------------------
(* The settled registry *)

\* What the numbering of pokes means to the flags a build reads: a clear dirty
\* says the newest run claims every poke, and a run that is not under way has
\* covered what it claimed.  running is stored before dirty is cleared, so there
\* is no moment at which both are down and a poke is outstanding.
FlagInv ==
    /\ poked \in Nat /\ claimed \in Nat /\ covered \in Nat
    /\ running <=> (worker \in {"clear", "harvest"})
    /\ ~dirty => claimed = poked
    /\ worker # "harvest" => claimed = covered
    /\ covered <= claimed /\ claimed <= poked

\* The points of a job that has not yet found the harvester settled.
Early == {"unborn", "queued", "begin", "probe", "probe2"}

\* A job between its two loads saw every poke it waits for claimed, and a job
\* settles once: what it waits for is fixed from then on.
ProbeInv ==
    /\ base \in [Ids -> Nat] /\ pc \in [Ids -> Points] /\ next \in Nat
    /\ settled \subseteq Ids
    /\ \A j \in Ids : base[j] <= poked
    /\ \A j \in Ids : pc[j] = "probe2" => base[j] <= claimed
    /\ \A j \in Ids : pc[j] \in Early => j \notin settled
    /\ \A j \in Ids : j >= next => pc[j] = "unborn"

WaitInv == FlagInv /\ ProbeInv /\ SettledMeansHarvested

\* The initial state: the boot poke is pending and no job has begun.
LEMMA WaitInit == Init => WaitInv
BY DEF Init, HarvestInit, WaitInv, FlagInv, ProbeInv,
       SettledMeansHarvested, Points

\* A poke, whoever makes it, leaves a flag that says so.
LEMMA FlagPoke ==
    ASSUME FlagInv, Poke \/ ForceNow
    PROVE  FlagInv' /\ poked <= poked' /\ claimed' = claimed /\ covered' = covered
BY DEF FlagInv, Poke, ForceNow

\* The harvester's own steps keep the meaning of the flags, and never take back
\* a poke that was claimed or covered.
LEMMA FlagStep ==
    ASSUME FlagInv, HarvestNext
    PROVE  /\ FlagInv'
           /\ poked <= poked' /\ claimed <= claimed' /\ covered <= covered'
<1> USE DEF FlagInv
<1>1. CASE Request
  BY <1>1, FlagPoke DEF Request
<1>2. CASE Notify
  BY <1>2 DEF Notify
<1>3. CASE WorkerStep
  <2>1. CASE Wake
    BY <2>1 DEF Wake
  <2>2. CASE Quiet
    BY <2>2 DEF Quiet, flags
  <2>3. CASE MarkRunning
    BY <2>3 DEF MarkRunning
  <2>4. CASE ClearDirty
    BY <2>4 DEF ClearDirty
  <2>5. CASE HarvestEnds
    BY <2>5 DEF HarvestEnds
  <2> QED
    BY <1>3, <2>1, <2>2, <2>3, <2>4, <2>5 DEF WorkerStep
<1> QED
  BY <1>1, <1>2, <1>3 DEF HarvestNext

\* A job that moves to a point other than the second load, and neither begins
\* nor settles, leaves the invariant alone.
LEMMA OtherMove ==
    ASSUME WaitInv, NEW j \in Ids, NEW point \in Points \ {"probe2"},
           Goto(j, point), point \in Early => pc[j] \in Early,
           pc[j] # "unborn",
           UNCHANGED <<harvestVars, next, base, settled>>
    PROVE  WaitInv'
BY DEF WaitInv, FlagInv, ProbeInv, SettledMeansHarvested, Goto,
       harvestVars, Ids, Early

\* One case per action; only Begin, the two loads and the harvester touch it.
LEMMA WaitNext == ASSUME WaitInv, [Next]_vars PROVE WaitInv'
<1>1. CASE UNCHANGED vars
  BY <1>1 DEF vars, harvestVars, jobVars, WaitInv, FlagInv, ProbeInv, SettledMeansHarvested
<1>2. ASSUME NEW r \in Requests, Create(r) PROVE WaitInv'
  <2>1. next \in Ids /\ next' = next + 1 /\ UNCHANGED <<harvestVars, base, settled>>
    BY <1>2 DEF Create
  <2>2. PICK point \in {"queued", "begin"} : pc' = [pc EXCEPT ![next] = point]
    BY <1>2 DEF Create, Goto
  <2> QED
    BY <2>1, <2>2 DEF WaitInv, FlagInv, ProbeInv, Points,
       SettledMeansHarvested, harvestVars, Ids, Early
<1>3. ASSUME NEW j \in Ids, JobStep(j) PROVE WaitInv'
  <2>1. CASE Begin(j)
    <3>1. UNCHANGED <<harvestVars, next, settled>>
      BY <2>1 DEF Begin
    <3>2. base' = [base EXCEPT ![j] = poked]
      BY <2>1 DEF Begin
    <3>3. PICK point \in {"load", "probe"} : pc' = [pc EXCEPT ![j] = point]
      BY <2>1 DEF Begin, Goto
    <3>4. pc[j] = "begin" /\ j \notin settled
      BY <2>1 DEF Begin, At, WaitInv, ProbeInv, Early
    <3> QED
      BY <3>1, <3>2, <3>3, <3>4 DEF WaitInv, FlagInv, ProbeInv,
         Points, SettledMeansHarvested, harvestVars, Ids, Early
  <2>2. CASE ProbeDirty(j)
    <3>1. CASE dirty
      BY <2>2, <3>1 DEF ProbeDirty, WaitInv, FlagInv, ProbeInv,
         SettledMeansHarvested, harvestVars
    <3>2. CASE ~dirty
      <4>1. base[j] <= claimed
        BY <3>2 DEF WaitInv, FlagInv, ProbeInv
      <4>2. /\ pc[j] = "probe" /\ pc' = [pc EXCEPT ![j] = "probe2"]
            /\ UNCHANGED <<harvestVars, next, base, settled>>
        BY <2>2, <3>2 DEF ProbeDirty, Goto, At
      <4> QED
        BY <4>1, <4>2 DEF WaitInv, FlagInv, ProbeInv, Points,
           SettledMeansHarvested, harvestVars, Ids, Early
    <3> QED
      BY <3>1, <3>2
  <2>3. CASE ProbeRunning(j)
    <3>1. CASE running
      BY <2>3, <3>1, OtherMove DEF ProbeRunning, At, Points, Early
    <3>2. CASE ~running
      <4>1. pc[j] = "probe2" /\ base[j] <= claimed
        BY <2>3 DEF ProbeRunning, At, WaitInv, ProbeInv
      <4>2. claimed = covered
        BY <3>2 DEF WaitInv, FlagInv
      <4>3. /\ pc' = [pc EXCEPT ![j] = "load"]
            /\ settled' = settled \cup {j}
            /\ UNCHANGED <<harvestVars, next, base>>
        BY <2>3, <3>2 DEF ProbeRunning, Goto
      <4> QED
        BY <4>1, <4>2, <4>3 DEF WaitInv, FlagInv, ProbeInv,
           Points, SettledMeansHarvested, harvestVars, Ids, Early
    <3> QED
      BY <3>1, <3>2
  <2>4. CASE Lock(j) \/ WaitTimeout(j)
    BY <2>4, OtherMove DEF Lock, WaitTimeout, At, Points, Early
  <2>5. CASE Load(j) \/ Resolve(j) \/ Save(j) \/ Forget(j)
    BY <2>5, OtherMove DEF Load, Resolve, Save, Forget, At, Points, Early
  <2>6. CASE Write(j) \/ SetLatest(j) \/ SaveSummary(j)
    <3>1. /\ pc[j] \in {"write", "latest", "summary"}
          /\ \E point \in {"forget", "summary", "done", "failing"} : Goto(j, point)
          /\ UNCHANGED <<harvestVars, next, base, settled>>
      BY <2>6 DEF Write, SetLatest, SaveSummary, Writes, At
    <3> QED
      BY <3>1, OtherMove DEF Points, Early
  <2>7. CASE Done(j) \/ FailLine(j) \/ Failed(j) \/ FinalPersist(j)
    BY <2>7, OtherMove DEF Done, FailLine, Failed, FinalPersist, At, Points, Early
  <2>8. CASE PokeHarvest(j)
    <3>1. /\ pc[j] = "poke" /\ pc' = [pc EXCEPT ![j] = "persist"]
          /\ Poke /\ UNCHANGED <<next, base, settled>>
      BY <2>8 DEF PokeHarvest, Goto, At
    <3>2. FlagInv' /\ poked <= poked' /\ claimed' = claimed /\ covered' = covered
      BY <3>1, FlagPoke DEF WaitInv
    <3> QED
      BY <3>1, <3>2 DEF WaitInv, FlagInv, ProbeInv, Points,
         SettledMeansHarvested, Ids, Early
  <2> QED
    BY <1>3, <2>1, <2>2, <2>3, <2>4, <2>5, <2>6, <2>7, <2>8 DEF JobStep
<1>4. ASSUME \/ (\E j \in Ids : TailOpen(j)) \/ TailRead \/ IndexList \/ IndexInsert
             \/ \E t \in Togglers : VisLoad(t) \/ VisWrite(t)
      PROVE  WaitInv'
  <2>1. UNCHANGED <<harvestVars, jobVars>>
    BY <1>4 DEF TailOpen, TailRead, IndexList, IndexInsert, VisLoad, VisWrite
  <2> QED
    BY <2>1 DEF harvestVars, jobVars, WaitInv, FlagInv, ProbeInv,
       SettledMeansHarvested
<1>5. CASE Harvests
  <2>1. UNCHANGED <<next, pc, base, settled>>
    BY <1>5 DEF Harvests, jobVars
  <2>2. /\ FlagInv'
        /\ poked <= poked' /\ claimed <= claimed' /\ covered <= covered'
    BY <1>5, FlagStep DEF Harvests, WaitInv
  <2> QED
    BY <2>1, <2>2 DEF WaitInv, FlagInv, ProbeInv,
       SettledMeansHarvested
<1>6. CASE Crash
  <2>1. /\ UNCHANGED <<next, base, settled, covered>>
        /\ poked' = poked + 1 /\ claimed' = covered
        /\ pc' = [j \in Ids |-> IF pc[j] = "unborn" THEN "unborn" ELSE "end"]
    BY <1>6 DEF Crash, HarvestRestart, At
  <2>2. FlagInv'
    BY <1>6 DEF Crash, HarvestRestart, WaitInv, FlagInv
  <2> QED
    BY <2>1, <2>2 DEF WaitInv, FlagInv, ProbeInv, Points,
       SettledMeansHarvested, Early
<1> QED
  BY <1>1, <1>2, <1>3, <1>4, <1>5, <1>6 DEF Next

\* However pokes, builds and restarts interleave, a build told the harvester is
\* settled runs on a registry that every earlier poke has reached
\* (HarvestScheduler::await_settled).
THEOREM SettledBuildsAreHarvested == Spec => []SettledMeansHarvested
<1>1. WaitInv => SettledMeansHarvested
  BY DEF WaitInv
<1> QED
  BY <1>1, WaitInit, WaitNext, PTL DEF Spec

-----------------------------------------------------------------------------
(* Types and log tails *)

Listings == [Commits -> SUBSET Versions]
Tails == [job : Ids \cup {0}, sent : Nat, over : BOOLEAN]

\* What PubInv does not say of the jobs ...
JobType ==
    /\ next \in 1..(MaxJobs + 1)
    /\ status \in [Ids -> Statuses] /\ log \in [Ids -> Nat]
    /\ base \in [Ids -> Nat] /\ settled \subseteq Ids /\ mem \subseteq Ids
    /\ snap \in [Ids -> Statuses \cup {None}]
    /\ buildLock \in Ids \cup {None}

\* ... and of what their readers and writes leave.
PublicType ==
    /\ summary \in Versions \cup {None}
    /\ index \in Listings \cup {None} /\ reader \in Listings \cup {None}
    /\ toggle \in [Togglers -> Versions \cup {None}]
    /\ lost \subseteq Ids /\ collided \subseteq Ids /\ reverted \subseteq Ids
    /\ faults \in 0..MaxFaults /\ crashes \in 0..MaxCrashes

\* A job whose status moved has written its last line, and a stream is over
\* only after that.
TailInv ==
    /\ tail \in Tails
    /\ \A j \in Ids : status[j] # "running" => pc[j] \in {"poke", "persist", "end"}
    /\ tail.over => tail.job \in Ids /\ status[tail.job] # "running"
    /\ TailComplete

BuildInv == PubInv /\ HarvestTypeOK /\ JobType /\ PublicType /\ TailInv

----------------------------------------------------------------------------

\* The initial state: no job, no stream, a harvest on boot.
LEMMA BuildInit == Init => BuildInv
<1> SUFFICES ASSUME Init PROVE BuildInv
  OBVIOUS
<1>1. PubInv
  BY PubInit
<1>2. HarvestTypeOK
  BY DEF Init, HarvestInit, HarvestTypeOK
<1>3. JobType
  BY JobConstantsOK DEF Init, JobType, Statuses
<1>4. PublicType
  BY JobConstantsOK DEF Init, PublicType
<1>5. TailInv
  BY DEF Init, TailInv, TailComplete, Tails, NoTail
<1> QED
  BY <1>1, <1>2, <1>3, <1>4, <1>5 DEF BuildInv

\* The worker, a poke and a restart keep flags and counters what they are.
LEMMA HarvestTypeNext == ASSUME HarvestTypeOK, [Next]_vars PROVE HarvestTypeOK'
<1> DEFINE Flags == /\ worker \in {"wait", "settle", "mark", "clear", "harvest"}
                    /\ permit \in BOOLEAN /\ forceNow \in BOOLEAN
                    /\ dirty \in BOOLEAN /\ running \in BOOLEAN
<1> DEFINE Counts == owed \in Nat /\ poked \in Nat /\ claimed \in Nat /\ covered \in Nat
<1>1. Flags /\ Counts
  BY DEF HarvestTypeOK
<1>2. CASE UNCHANGED harvestVars
  BY <1>1, <1>2 DEF harvestVars, HarvestTypeOK
<1>3. CASE Poke \/ ForceNow
  <2>1. Flags'
    BY <1>1, <1>3, Zenon DEF Poke, ForceNow
  <2>2. Counts'
    BY <1>1, <1>3 DEF Poke, ForceNow
  <2> QED
    BY <2>1, <2>2 DEF HarvestTypeOK
<1>4. CASE Notify
  <2>1. Flags'
    BY <1>1, <1>4, Zenon DEF Notify
  <2>2. Counts'
    BY <1>1, <1>4 DEF Notify
  <2> QED
    BY <2>1, <2>2 DEF HarvestTypeOK
<1>5. CASE WorkerStep
  <2>1. CASE Wake
    BY <1>1, <2>1, Zenon DEF Wake, HarvestTypeOK
  <2>2. CASE Quiet \/ MarkRunning
    BY <1>1, <2>2, Zenon DEF Quiet, MarkRunning, flags, HarvestTypeOK
  <2>3. CASE ClearDirty \/ HarvestEnds
    BY <1>1, <2>3, Zenon DEF ClearDirty, HarvestEnds, HarvestTypeOK
  <2> QED
    BY <1>5, <2>1, <2>2, <2>3 DEF WorkerStep
<1>6. CASE HarvestRestart
  <2>1. Flags'
    BY <1>6, Zenon DEF HarvestRestart
  <2>2. Counts'
    BY <1>1, <1>6 DEF HarvestRestart
  <2> QED
    BY <2>1, <2>2 DEF HarvestTypeOK
<1>7. ASSUME NEW j \in Ids, JobStep(j) PROVE UNCHANGED harvestVars \/ Poke
  BY <1>7 DEF JobStep, Lock, Begin, ProbeDirty, ProbeRunning, WaitTimeout, Load, Resolve, Save, Write,
     Forget, SetLatest, SaveSummary, Done, PokeHarvest, FailLine, Failed, FinalPersist
<1> HIDE DEF Flags, Counts
<1> QED
  BY <1>2, <1>3, <1>4, <1>5, <1>6, <1>7 DEF Next, Create, TailOpen, TailRead, IndexList, IndexInsert,
     VisLoad, VisWrite, Harvests, HarvestNext, Request, Crash, vars

----------------------------------------------------------------------------

\* One job's own step.
LEMMA JobTypeStep == ASSUME BuildInv, NEW j \in Ids, JobStep(j) PROVE JobType'
<1>t. JobType /\ poked \in Nat
  BY DEF BuildInv, HarvestTypeOK
<1>1. UNCHANGED <<next, mem>>
  BY DEF JobStep, Lock, Begin, ProbeDirty, ProbeRunning, WaitTimeout, Load, Resolve, Save, Write, Forget,
     SetLatest, SaveSummary, Done, PokeHarvest, FailLine, Failed, FinalPersist
<1>2. status' \in [Ids -> Statuses]
  BY <1>t DEF JobType, Statuses, JobStep, Lock, Begin, ProbeDirty, ProbeRunning, WaitTimeout, Load, Resolve,
     Save, Write, Forget, SetLatest, SaveSummary, Done, PokeHarvest, FailLine, Failed, FinalPersist
<1>3. log' \in [Ids -> Nat]
  <2>1. log' = log \/ Line(j) \/ Waits(j)
    BY DEF JobStep, Lock, Begin, ProbeDirty, ProbeRunning, WaitTimeout, Load, Resolve, Save, Write, Forget,
       SetLatest, SaveSummary, Done, PokeHarvest, FailLine, Failed, FinalPersist
  <2> QED
    BY <1>t, <2>1 DEF JobType, Line, Waits
<1>4. base' \in [Ids -> Nat] /\ settled' \subseteq Ids
  BY <1>t DEF JobType, JobStep, Lock, Begin, ProbeDirty, ProbeRunning, WaitTimeout, Load, Resolve,
     Save, Write, Forget, SetLatest, SaveSummary, Done, PokeHarvest, FailLine, Failed, FinalPersist
<1>5. snap' \in [Ids -> Statuses \cup {None}]
  <2>1. snap' = snap \/ Persist(j)
    BY DEF JobStep, Lock, Begin, ProbeDirty, ProbeRunning, WaitTimeout, Load, Resolve, Save, Write, Forget,
       SetLatest, SaveSummary, Done, PokeHarvest, FailLine, Failed, FinalPersist
  <2> QED
    BY <1>t, <2>1 DEF JobType, Persist
<1>6. buildLock' \in Ids \cup {None}
  BY <1>t DEF JobType, JobStep, Lock, Begin, ProbeDirty, ProbeRunning, WaitTimeout, Load, Resolve,
     Save, Write, Forget, SetLatest, SaveSummary, Done, PokeHarvest, FailLine, Failed, FinalPersist
<1> QED
  BY <1>t, <1>1, <1>2, <1>3, <1>4, <1>5, <1>6 DEF JobType

\* Creation, readers, the harvester and a restart.
LEMMA JobTypeNext == ASSUME BuildInv, [Next]_vars PROVE JobType'
<1>t. JobType /\ PubType
  BY DEF BuildInv, PubInv
<1>1. CASE UNCHANGED <<jobVars, buildLock>>
  BY <1>t, <1>1 DEF JobType, jobVars
<1>2. ASSUME NEW r \in Requests, Create(r) PROVE JobType'
  <2>1. next \in Ids /\ next' = next + 1 /\ mem' \subseteq mem \cup {next}
        /\ UNCHANGED <<status, log, base, settled, snap, buildLock>>
    BY <1>2 DEF Create
  <2> QED
    BY <1>t, <2>1, JobConstantsOK DEF JobType, Ids
<1>3. CASE Crash
  <2>1. snap' \in [Ids -> Statuses \cup {None}]
    <3>1. snap' = Swept
      BY <1>3 DEF Crash
    <3>2. \A j \in Ids : snap[j] \in Statuses \cup {None}
      BY <1>t DEF JobType
    <3> QED
      BY <3>1, <3>2 DEF Swept, Statuses
  <2> QED
    BY <1>t, <1>3, <2>1 DEF Crash, JobType
<1> QED
  BY <1>1, <1>2, <1>3, JobTypeStep DEF Next, TailOpen, TailRead, IndexList, IndexInsert,
     VisLoad, VisWrite, Harvests, vars, rest, card

----------------------------------------------------------------------------

\* A failed write is counted, and counted at most to the bound.
LEMMA FaultCounts == ASSUME faults \in 0..MaxFaults, Fault PROVE faults' \in 0..MaxFaults
BY JobConstantsOK DEF Fault

\* The published listing is one of versions, whoever asks for it.
LEMMA ListingType == BuildsByCommit \in Listings
BY DEF BuildsByCommit, Listings, Published

\* One job's own step: what it writes of the card is the version it resolved.
LEMMA PublicTypeStep == ASSUME BuildInv, NEW j \in Ids, JobStep(j) PROVE PublicType'
<1>t. PublicType /\ PubType
  BY DEF BuildInv, PubInv
<1>1. summary' \in Versions \cup {None}
  <2>1. summary' = summary \/ summary' = ver[j]
    BY DEF JobStep, Lock, Begin, ProbeDirty, ProbeRunning, WaitTimeout, Load, Resolve, Save, Write, Forget,
       SetLatest, SaveSummary, Done, PokeHarvest, FailLine, Failed, FinalPersist, Writes, public
  <2> QED
    BY <1>t, <2>1 DEF PublicType, PubType
<1>2. index' \in {index, None} /\ UNCHANGED <<reader, toggle, reverted, crashes>>
  BY DEF JobStep, Lock, Begin, ProbeDirty, ProbeRunning, WaitTimeout, Load, Resolve, Save, Write, Forget,
     SetLatest, SaveSummary, Done, PokeHarvest, FailLine, Failed, FinalPersist, Writes, rest, card
<1>3. collided' \subseteq collided \cup {j}
  BY DEF JobStep, Lock, Begin, ProbeDirty, ProbeRunning, WaitTimeout, Load, Resolve, Save, Write, Forget,
     SetLatest, SaveSummary, Done, PokeHarvest, FailLine, Failed, FinalPersist, Writes, rest, card
<1>4. lost' \subseteq lost \cup {j} /\ (faults' = faults \/ Fault)
  BY DEF JobStep, Lock, Begin, ProbeDirty, ProbeRunning, WaitTimeout, Load, Resolve, Save, Write, Forget,
     SetLatest, SaveSummary, Done, PokeHarvest, FailLine, Failed, FinalPersist, Writes, Persist, rest, card
<1> QED
  BY <1>t, <1>1, <1>2, <1>3, <1>4, FaultCounts DEF PublicType

\* The other steps.
LEMMA PublicTypeNext == ASSUME BuildInv, [Next]_vars PROVE PublicType'
<1>t. PublicType
  BY DEF BuildInv
<1>1. CASE UNCHANGED <<public, index, reader, card, lost, collided, faults, crashes>>
  BY <1>t, <1>1 DEF PublicType, public, card
<1>2. CASE IndexList \/ IndexInsert
  BY <1>t, <1>2, ListingType DEF IndexList, IndexInsert, PublicType, public, card
<1>3. CASE Crash
  BY <1>t, <1>3, JobConstantsOK DEF Crash, PublicType, public
<1>4. ASSUME NEW t \in Togglers, VisLoad(t) \/ VisWrite(t) PROVE PublicType'
  <2>1. /\ summary' \in {summary, toggle[t]} /\ reverted' \subseteq reverted \cup Ids
        /\ faults' = faults \/ Fault
    BY <1>4 DEF VisLoad, VisWrite, public
  <2>2. \E v \in Versions \cup {None} : toggle' = [toggle EXCEPT ![t] = v]
    BY <1>t, <1>4 DEF VisLoad, VisWrite, PublicType
  <2>3. UNCHANGED <<index, reader, lost, collided, crashes>>
    BY <1>4 DEF VisLoad, VisWrite
  <2> QED
    BY <1>t, <2>1, <2>2, <2>3, FaultCounts DEF PublicType
<1> QED
  BY <1>1, <1>2, <1>3, <1>4, PublicTypeStep DEF Next, Create, TailOpen, TailRead, Harvests, vars, rest, card

----------------------------------------------------------------------------

\* A job's own step writes a line only while it has not told its end.
LEMMA TailStep == ASSUME BuildInv, NEW j \in Ids, JobStep(j) PROVE TailInv'
<1>t. TailInv /\ JobType /\ PubType
  BY DEF BuildInv, PubInv
<1>1. tail' = tail
  BY DEF JobStep, Lock, Begin, ProbeDirty, ProbeRunning, WaitTimeout, Load, Resolve, Save, Write, Forget,
     SetLatest, SaveSummary, Done, PokeHarvest, FailLine, Failed, FinalPersist, rest, card
<1>2. \A k \in Ids \ {j} : status'[k] = status[k] /\ log'[k] = log[k] /\ pc'[k] = pc[k]
  <2>1. pc' = pc \/ \E p \in Points : Goto(j, p)
    BY DEF JobStep, Lock, Begin, ProbeDirty, ProbeRunning, WaitTimeout, Load, Resolve, Save, Write, Forget,
       SetLatest, SaveSummary, Done, PokeHarvest, FailLine, Failed, FinalPersist, Writes, Points
  <2>2. log' = log \/ Line(j) \/ Waits(j)
    BY DEF JobStep, Lock, Begin, ProbeDirty, ProbeRunning, WaitTimeout, Load, Resolve, Save, Write, Forget,
       SetLatest, SaveSummary, Done, PokeHarvest, FailLine, Failed, FinalPersist
  <2>3. status' = status \/ \E x \in Statuses : status' = [status EXCEPT ![j] = x]
    BY DEF JobStep, Lock, Begin, ProbeDirty, ProbeRunning, WaitTimeout, Load, Resolve, Save, Write, Forget,
       SetLatest, SaveSummary, Done, PokeHarvest, FailLine, Failed, FinalPersist, Statuses
  <2> QED
    BY <1>t, <2>1, <2>2, <2>3 DEF Goto, Line, Waits, JobType, PubType
<1>3. status'[j] # "running" => pc'[j] \in {"poke", "persist", "end"}
  BY <1>t DEF TailInv, JobType, PubType, At, Goto, JobStep, Lock, Begin, ProbeDirty, ProbeRunning,
     WaitTimeout, Load, Resolve, Save, Write, Forget, SetLatest, SaveSummary, Done, PokeHarvest, FailLine,
     Failed, FinalPersist, Writes
<1>4. status[j] # "running" => status'[j] = status[j] /\ log' = log
  BY <1>t DEF TailInv, At, JobStep, Lock, Begin, ProbeDirty, ProbeRunning, WaitTimeout, Load, Resolve, Save,
     Write, Forget, SetLatest, SaveSummary, Done, PokeHarvest, FailLine, Failed, FinalPersist
<1>5. ASSUME tail.over
      PROVE  /\ tail.job \in Ids /\ status'[tail.job] # "running"
             /\ tail.sent = log'[tail.job]
  BY <1>t, <1>2, <1>4, <1>5 DEF TailInv, TailComplete
<1> QED
  BY <1>t, <1>1, <1>2, <1>3, <1>5 DEF TailInv, TailComplete

\* A read takes the lines and the status together; a restart ends every stream.
LEMMA TailNext == ASSUME BuildInv, [Next]_vars PROVE TailInv'
<1>t. TailInv /\ JobType /\ PubType /\ LockInv
  BY DEF BuildInv, PubInv
<1>1. CASE UNCHANGED <<jobVars, tail>>
  BY <1>t, <1>1 DEF TailInv, TailComplete, jobVars
<1>2. ASSUME NEW r \in Requests, Create(r) PROVE TailInv'
  <2>1. next \in Ids /\ UNCHANGED <<status, log, tail>> /\ \A j \in Ids \ {next} : pc'[j] = pc[j]
    BY <1>2, <1>t DEF Create, Goto, rest, card, PubType
  <2>2. status[next] = "running"
    BY <1>t, <2>1 DEF TailInv, LockInv, PubType, JobType
  <2> QED
    BY <1>t, <2>1, <2>2 DEF TailInv, TailComplete
<1>3. ASSUME NEW j \in Ids, TailOpen(j) PROVE TailInv'
  BY <1>t, <1>3 DEF TailOpen, TailInv, TailComplete, Tails, NoTail, jobVars
<1>4. CASE TailRead
  <2>1. tail.job \in Ids /\ tail' = [tail EXCEPT !.sent = log[tail.job], !.over = status[tail.job] # "running"]
        /\ UNCHANGED <<status, log, pc>>
    BY <1>t, <1>4 DEF TailRead, TailInv, Tails, jobVars
  <2>2. log[tail.job] \in Nat
    BY <1>t, <2>1 DEF JobType
  <2> QED
    BY <1>t, <2>1, <2>2 DEF TailInv, TailComplete, Tails
<1>5. CASE Crash
  <2>1. \A j \in Ids : pc'[j] = IF pc[j] = "unborn" THEN "unborn" ELSE "end"
    BY <1>5 DEF Crash, At
  <2>2. tail' = NoTail /\ UNCHANGED <<status, log>>
    BY <1>5 DEF Crash
  <2> QED
    BY <1>t, <2>1, <2>2 DEF TailInv, TailComplete, Tails, NoTail
<1> QED
  BY <1>1, <1>2, <1>3, <1>4, <1>5, TailStep DEF Next, IndexList, IndexInsert,
     VisLoad, VisWrite, Harvests, vars, rest, card

----------------------------------------------------------------------------
(* The theorems *)

\* BuildInv holds in every reachable state.
LEMMA BuildAlways == Spec => []BuildInv
<1>1. BuildInv /\ [Next]_vars => BuildInv'
  <2> SUFFICES ASSUME BuildInv, [Next]_vars PROVE BuildInv'
    OBVIOUS
  <2>1. PubInv' /\ HarvestTypeOK'
    BY PubNext, HarvestTypeNext DEF BuildInv
  <2> QED
    BY <2>1, JobTypeNext, PublicTypeNext, TailNext DEF BuildInv
<1> QED
  BY <1>1, BuildInit, PTL DEF Spec

\* No task, reader, failed write or restart leaves a variable outside its type:
\* a version that is served is a version, and what the lock, the registry and
\* the index name is a job or a listing (jobs.rs, storage.rs).
THEOREM BuildTypeCorrect == Spec => []TypeOK
<1>1. BuildInv => TypeOK
  BY DEF BuildInv, PubInv, PubType, JobType, PublicType, TailInv, TypeOK, Listings, Tails
<1> QED
  BY <1>1, BuildAlways, PTL

\* A stream that ended has sent the whole log, the reason of a failure included
\* (job_events, since): the reason is logged before the status moves.
THEOREM TailsAreComplete == Spec => []TailComplete
<1>1. BuildInv => TailComplete
  BY DEF BuildInv, TailInv
<1> QED
  BY <1>1, BuildAlways, PTL
==============================================================================
