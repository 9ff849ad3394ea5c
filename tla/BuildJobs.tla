----------------------------- MODULE BuildJobs -----------------------------
(***************************************************************************)
(* The jobs of one pack (src/jobs.rs, src/http/jobs.rs and the manifest    *)
(* and job-snapshot parts of src/storage.rs) beside the harvester they     *)
(* wait for: the job registry and its eviction, the per-pack build lock,   *)
(* the publication of a manifest, the job snapshots and the restart sweep, *)
(* the log tail, and the per-commit index of builds.                       *)
(*                                                                         *)
(* Jobs are numbered in the order their ids were minted.  A log is its     *)
(* length, a version its counter under the pack's base, a manifest the     *)
(* commit it was built from and the job that wrote it.                     *)
(***************************************************************************)
EXTENDS HarvestSched, FiniteSets, FiniteSetsExt

CONSTANTS
    MaxJobs,      \* bound: jobs over the run
    Capacity,     \* jobs the registry keeps before it evicts (50 in create)
    Keep,         \* snapshots the restart sweep keeps (200 in main)
    HasHarvester, \* BuildDeps.harvest: whether a harvester is running
    Kinds,        \* the kinds of job the clients of this instance start
    Readers,      \* the readers of this instance: log tails, the commit log
    Togglers,     \* requests of this instance that set the pack's visibility
    Commits,      \* commits of the pack a build may be made from
    Named,        \* the versions a curator asks for by hand
    MaxVersion,   \* bound: the highest version counter
    MaxFaults,    \* bound: disk writes that fail
    MaxCrashes,   \* bound: restarts
    AutoNumber,   \* no version was named
    None          \* absence: no file, no holder, no entry

Ids == 1..MaxJobs
Versions == 0..MaxVersion

ASSUME JobConstantsOK ==
    /\ MaxJobs \in Nat /\ Capacity \in Nat /\ Keep \in Nat
    /\ HasHarvester \in BOOLEAN
    /\ Kinds \subseteq {"build", "preview", "bootstrap"}
    /\ Readers \subseteq {"tail", "index"}
    /\ MaxVersion \in Nat /\ \A v \in Named : v \in Nat /\ v + MaxJobs <= MaxVersion
    /\ MaxFaults \in Nat /\ MaxCrashes \in Nat
    /\ AutoNumber \notin Versions /\ None \notin Versions \cup Ids \cup Commits
    /\ None \notin [from : Commits, by : Ids]

\* BuildRequest.  Only a build names a version, and only a named version can be
\* one that exists and is to be overwritten.
Requests ==
    {r \in [kind : Kinds, want : Named \cup {AutoNumber}, from : Commits,
            overwrite : BOOLEAN] :
        /\ r.kind # "build" => r.want = AutoNumber
        /\ r.overwrite => r.want # AutoNumber}
NoRequest == [kind |-> None, want |-> AutoNumber, from |-> None, overwrite |-> FALSE]
Manifests == [from : Commits, by : Ids]
Statuses == {"running", "done", "failed"}
NoTail == [job |-> 0, sent |-> 0, over |-> FALSE]

Points == {"unborn", "queued", "begin", "probe", "probe2", "load", "resolve",
           "save", "write", "forget", "latest", "summary", "done", "poke",
           "failing", "failed", "persist", "end"}

VARIABLES
    next,        \* the number the next job takes
    req,         \* what each job was asked to do
    pc,          \* where each job's task is
    status, log, \* Inner.status and the length of Inner.log
    ver,         \* the version a job resolved
    base,        \* pokes requested when a job began to wait for the harvester
    settled,     \* jobs that found the harvester settled
    mem,         \* JobRegistry.jobs
    snap,        \* the status in jobs/<id>.json
    buildLock,   \* the holder of the pack's build lock
    manifests,   \* manifests/<version>.json
    latest,      \* the version manifests/latest points at
    summary,     \* latest_pack_version in summary.json
    index,       \* Storage.builds_by_commit for the pack
    reader,      \* what a request rebuilding the index has listed
    tail,        \* an open event stream: its job and the lines it sent
    toggle,      \* latest_pack_version of the card each toggle has loaded
    reverted,    \* builds whose card a toggle put back before they were done
    lost,        \* jobs one of whose snapshot writes failed
    collided,    \* auto-numbered builds save_manifest refused
    faults, crashes

jobVars == <<next, req, pc, status, log, ver, base, settled, mem, snap>>
public == <<manifests, latest, summary>>
card == <<toggle, reverted>>
rest == <<index, reader, tail, card, lost, collided, faults, crashes>>
vars == <<harvestVars, jobVars, buildLock, public, rest>>

TypeOK ==
    /\ HarvestTypeOK
    /\ next \in 1..(MaxJobs + 1)
    /\ req \in [Ids -> Requests \cup {NoRequest}]
    /\ pc \in [Ids -> Points]
    /\ status \in [Ids -> Statuses]
    /\ log \in [Ids -> Nat]
    /\ ver \in [Ids -> Versions \cup {None}]
    /\ base \in [Ids -> Nat]
    /\ settled \subseteq Ids /\ mem \subseteq Ids
    /\ snap \in [Ids -> Statuses \cup {None}]
    /\ buildLock \in Ids \cup {None}
    /\ manifests \in [Versions -> Manifests \cup {None}]
    /\ {latest, summary} \subseteq Versions \cup {None}
    /\ {index, reader} \subseteq [Commits -> SUBSET Versions] \cup {None}
    /\ tail \in [job : Ids \cup {0}, sent : Nat, over : BOOLEAN]
    /\ toggle \in [Togglers -> Versions \cup {None}]
    /\ lost \subseteq Ids /\ collided \subseteq Ids /\ reverted \subseteq Ids
    /\ faults \in 0..MaxFaults /\ crashes \in 0..MaxCrashes

Init ==
    /\ HarvestInit
    /\ next = 1
    /\ req = [j \in Ids |-> NoRequest]
    /\ pc = [j \in Ids |-> "unborn"]
    /\ status = [j \in Ids |-> "running"]
    /\ log = [j \in Ids |-> 0]
    /\ ver = [j \in Ids |-> None]
    /\ base = [j \in Ids |-> 0]
    /\ settled = {}
    /\ mem = {}
    /\ snap = [j \in Ids |-> None]
    /\ buildLock = None
    /\ manifests = [v \in Versions |-> None]
    /\ latest = None /\ summary = None
    /\ index = None /\ reader = None
    /\ tail = NoTail
    /\ toggle = [t \in Togglers |-> None]
    /\ lost = {} /\ collided = {} /\ reverted = {}
    /\ faults = 0 /\ crashes = 0

----------------------------------------------------------------------------
(* The registry: creation, eviction, the build lock *)

At(j, point) == pc[j] = point
Goto(j, point) == pc' = [pc EXCEPT ![j] = point]
Line(j) == log' = [log EXCEPT ![j] = @ + 1]

\* Over capacity the oldest finished job is dropped, and no running one.
Evicted(jobs) ==
    LET finished == {j \in jobs : status[j] # "running"}
    IN  IF Cardinality(jobs) > Capacity /\ finished # {} THEN {Min(finished)} ELSE {}

\* create and the head of spawn_build and spawn_bootstrap.
Create(r) ==
    /\ next \in Ids
    /\ next' = next + 1
    /\ req' = [req EXCEPT ![next] = r]
    /\ LET jobs == mem \cup {next} IN mem' = jobs \ Evicted(jobs)
    /\ Goto(next, IF r.kind = "build" THEN "queued" ELSE "begin")
    /\ UNCHANGED <<harvestVars, status, log, ver, base, settled, snap,
                   buildLock, public, rest>>

\* Mutant: a build takes the pack's lock without waiting for its holder.
LockUnshared(j) ==
    /\ At(j, "queued")
    /\ buildLock' = j
    /\ Goto(j, "begin")
    /\ UNCHANGED <<harvestVars, next, req, status, log, ver, base, settled, mem,
                   snap, public, rest>>

\* Real builds of the pack are serialized.
Lock(j) ==
    /\ At(j, "queued")
    /\ buildLock = None
    /\ buildLock' = j
    /\ Goto(j, "begin")
    /\ UNCHANGED <<harvestVars, next, req, status, log, ver, base, settled, mem,
                   snap, public, rest>>

----------------------------------------------------------------------------
(* Disk writes, which may fail, and snapshots *)

Fault == faults < MaxFaults /\ faults' = faults + 1

\* persist: best effort, a failed write is only logged.
Persist(j) ==
    \/ /\ snap' = [snap EXCEPT ![j] = status[j]]
       /\ UNCHANGED <<lost, faults>>
    \/ /\ Fault
       /\ lost' = lost \cup {j}
       /\ UNCHANGED snap

\* The running snapshot is written before any work.
Begin(j) ==
    /\ At(j, "begin")
    /\ Persist(j)
    /\ Goto(j, IF HasHarvester /\ req[j].kind # "bootstrap" THEN "probe" ELSE "load")
    /\ base' = [base EXCEPT ![j] = poked]
    /\ UNCHANGED <<harvestVars, next, req, status, log, ver, settled, mem,
                   buildLock, public, index, reader, tail, card, collided, crashes>>

----------------------------------------------------------------------------
(* Waiting out the harvester: is_unsettled loads dirty, then running *)

Waits(j) == log' = [log EXCEPT ![j] = 1]

ProbeDirty(j) ==
    /\ At(j, "probe")
    /\ IF dirty THEN Waits(j) /\ UNCHANGED pc
                ELSE Goto(j, "probe2") /\ UNCHANGED log
    /\ UNCHANGED <<harvestVars, next, req, status, ver, base, settled, mem, snap,
                   buildLock, public, rest>>

ProbeRunning(j) ==
    /\ At(j, "probe2")
    /\ IF running THEN Waits(j) /\ Goto(j, "probe") /\ UNCHANGED settled
                  ELSE /\ Goto(j, "load")
                       /\ settled' = settled \cup {j}
                       /\ UNCHANGED log
    /\ UNCHANGED <<harvestVars, next, req, status, ver, base, mem, snap,
                   buildLock, public, rest>>

\* Five minutes passed: the build goes on against the registry as it is.
WaitTimeout(j) ==
    /\ At(j, "probe")
    /\ log[j] > 0
    /\ Line(j)
    /\ Goto(j, "load")
    /\ UNCHANGED <<harvestVars, next, req, status, ver, base, settled, mem, snap,
                   buildLock, public, rest>>

----------------------------------------------------------------------------
(* run_build and run_bootstrap *)

\* Load, enrich, classify, judge: any of them may fail the job, the gate of a
\* build that was not asked to publish over it included.
Load(j) ==
    /\ At(j, "load")
    /\ Line(j)
    /\ \/ Goto(j, IF req[j].kind = "bootstrap" THEN "done" ELSE "resolve")
       \/ Goto(j, "failing")
    /\ UNCHANGED <<harvestVars, next, req, status, ver, base, settled, mem, snap,
                   buildLock, public, rest>>

Published == {v \in Versions : manifests[v] # None}

\* Mutant: the highest published counter is taken again.
NextAutoHighest == IF Published = {} THEN 0 ELSE Max(Published)

\* next_auto_version: one past the highest published, from zero.
NextAutoVersion == IF Published = {} THEN 0 ELSE Max(Published) + 1

\* Mutant: the version is taken as asked for, auto-numbering left out.
ResolveVerbatim(j) ==
    /\ At(j, "resolve")
    /\ ver' = [ver EXCEPT ![j] = req[j].want]
    /\ Goto(j, IF req[j].kind = "build" THEN "save" ELSE "done")
    /\ UNCHANGED <<harvestVars, next, req, status, log, base, settled, mem, snap,
                   buildLock, public, rest>>

\* build_manifest: the version is settled, then every source is resolved.
Resolve(j) ==
    /\ At(j, "resolve")
    /\ \/ /\ NextAutoVersion \in Versions
          /\ ver' = [ver EXCEPT ![j] = IF req[j].want = AutoNumber THEN NextAutoVersion
                                       ELSE req[j].want]
          /\ Goto(j, IF req[j].kind = "build" THEN "save" ELSE "done")
       \/ Goto(j, "failing") /\ UNCHANGED ver
    /\ UNCHANGED <<harvestVars, next, req, status, log, base, settled, mem, snap,
                   buildLock, public, rest>>

\* Mutant: the check for a published version is dropped.
SaveUnchecked(j) ==
    /\ At(j, "save")
    /\ Line(j)
    /\ Goto(j, "write")
    /\ UNCHANGED <<harvestVars, next, req, status, ver, base, settled, mem, snap,
                   buildLock, public, rest>>

\* save_manifest refuses a version already published, unless asked to overwrite.
Save(j) ==
    /\ At(j, "save")
    /\ Line(j)
    /\ IF ver[j] \in Published /\ ~req[j].overwrite
       THEN /\ Goto(j, "failing")
            /\ collided' = IF req[j].want = AutoNumber THEN collided \cup {j} ELSE collided
       ELSE Goto(j, "write") /\ UNCHANGED collided
    /\ UNCHANGED <<harvestVars, next, req, status, ver, base, settled, mem, snap,
                   buildLock, public, index, reader, tail, card, lost, faults, crashes>>

\* A disk write of job j: on success the effect and the next point, or a failure.
Writes(j, point, effect) ==
    \/ effect /\ Goto(j, point) /\ UNCHANGED faults
    \/ Fault /\ Goto(j, "failing") /\ UNCHANGED public

\* Mutant: the pointer is moved before the manifest it points at is written.
WriteLatestFirst(j) ==
    /\ At(j, "write")
    /\ \/ /\ latest' = ver[j]
          /\ Goto(j, "forget")
          /\ UNCHANGED <<manifests, summary, faults>>
       \/ Fault /\ Goto(j, "failing") /\ UNCHANGED public
    /\ UNCHANGED <<harvestVars, next, req, status, log, ver, base, settled, mem,
                   snap, buildLock, index, reader, tail, card, lost, collided, crashes>>

Write(j) ==
    /\ At(j, "write")
    /\ Writes(j, "forget",
              /\ manifests' = [manifests EXCEPT ![ver[j]] = [from |-> req[j].from,
                                                              by |-> j]]
              /\ UNCHANGED <<latest, summary>>)
    /\ UNCHANGED <<harvestVars, next, req, status, log, ver, base, settled, mem,
                   snap, buildLock, index, reader, tail, card, lost, collided, crashes>>

\* forget_builds_by_commit
Forget(j) ==
    /\ At(j, "forget")
    /\ index' = None
    /\ Goto(j, "latest")
    /\ UNCHANGED <<harvestVars, next, req, status, log, ver, base, settled, mem,
                   snap, buildLock, public, reader, tail, card, lost, collided, faults,
                   crashes>>

SetLatest(j) ==
    /\ At(j, "latest")
    /\ Writes(j, "summary", latest' = ver[j] /\ UNCHANGED <<manifests, summary>>)
    /\ UNCHANGED <<harvestVars, next, req, status, log, ver, base, settled, mem,
                   snap, buildLock, index, reader, tail, card, lost, collided, crashes>>

SaveSummary(j) ==
    /\ At(j, "summary")
    /\ Writes(j, "done", summary' = ver[j] /\ UNCHANGED <<manifests, latest>>)
    /\ UNCHANGED <<harvestVars, next, req, status, log, ver, base, settled, mem,
                   snap, buildLock, index, reader, tail, card, lost, collided, crashes>>

----------------------------------------------------------------------------
(* Finishing *)

Done(j) ==
    /\ At(j, "done")
    /\ status' = [status EXCEPT ![j] = "done"]
    /\ Goto(j, IF HasHarvester /\ req[j].kind = "build" THEN "poke" ELSE "persist")
    /\ UNCHANGED <<harvestVars, next, req, log, ver, base, settled, mem, snap,
                   buildLock, public, rest>>

\* A published build added mods to harvest.
PokeHarvest(j) ==
    /\ At(j, "poke")
    /\ Poke
    /\ Goto(j, "persist")
    /\ UNCHANGED <<next, req, status, log, ver, base, settled, mem, snap,
                   buildLock, public, rest>>

\* Mutant: the job is failed first and its reason logged after.
FailLineLate(j) ==
    /\ At(j, "failing")
    /\ IF status[j] = "running"
       THEN status' = [status EXCEPT ![j] = "failed"] /\ UNCHANGED <<log, pc>>
       ELSE Line(j) /\ Goto(j, "failed") /\ UNCHANGED status
    /\ UNCHANGED <<harvestVars, next, req, ver, base, settled, mem, snap,
                   buildLock, public, rest>>

\* The reason is the last line of the log ...
FailLine(j) ==
    /\ At(j, "failing")
    /\ Line(j)
    /\ Goto(j, "failed")
    /\ UNCHANGED <<harvestVars, next, req, status, ver, base, settled, mem, snap,
                   buildLock, public, rest>>

\* ... and is there before the status moves.
Failed(j) ==
    /\ At(j, "failed")
    /\ status' = [status EXCEPT ![j] = "failed"]
    /\ Goto(j, "persist")
    /\ UNCHANGED <<harvestVars, next, req, log, ver, base, settled, mem, snap,
                   buildLock, public, rest>>

\* Mutant: nothing is persisted at finish.
FinalPersistDropped(j) ==
    /\ At(j, "persist")
    /\ Goto(j, "end")
    /\ buildLock' = IF buildLock = j THEN None ELSE buildLock
    /\ UNCHANGED <<harvestVars, next, req, status, log, ver, base, settled, mem,
                   snap, public, rest>>

\* The last write of the task, which then drops the build lock.
FinalPersist(j) ==
    /\ At(j, "persist")
    /\ Persist(j)
    /\ Goto(j, "end")
    /\ buildLock' = IF buildLock = j THEN None ELSE buildLock
    /\ UNCHANGED <<harvestVars, next, req, status, log, ver, base, settled, mem,
                   public, index, reader, tail, card, collided, crashes>>

JobStep(j) ==
    \/ Lock(j) \/ Begin(j)
    \/ ProbeDirty(j) \/ ProbeRunning(j) \/ WaitTimeout(j)
    \/ Load(j) \/ Resolve(j) \/ Save(j) \/ Write(j) \/ Forget(j)
    \/ SetLatest(j) \/ SaveSummary(j)
    \/ Done(j) \/ PokeHarvest(j) \/ FailLine(j) \/ Failed(j) \/ FinalPersist(j)

----------------------------------------------------------------------------
(* Readers: the log tail and the index of builds per commit *)

TailOpen(j) ==
    /\ "tail" \in Readers
    /\ j \in mem
    /\ tail.job = 0
    /\ tail' = [NoTail EXCEPT !.job = j]
    /\ UNCHANGED <<harvestVars, jobVars, buildLock, public, index, reader, card, lost,
                   collided, faults, crashes>>

\* One round of job_events: since reads the lines and the status together.
TailRead ==
    /\ tail.job # 0 /\ ~tail.over
    /\ tail' = [tail EXCEPT !.sent = log[tail.job],
                            !.over = status[tail.job] # "running"]
    /\ UNCHANGED <<harvestVars, jobVars, buildLock, public, index, reader, card, lost,
                   collided, faults, crashes>>

\* list_manifest_builds, grouped by the commit each was built from.
BuildsByCommit ==
    [c \in Commits |-> {v \in Published : manifests[v].from = c}]

\* builds_by_commit misses and lists; the listing is inserted after an await.
IndexList ==
    /\ "index" \in Readers
    /\ index = None /\ reader = None
    /\ reader' = BuildsByCommit
    /\ UNCHANGED <<harvestVars, jobVars, buildLock, public, index, tail, card, lost,
                   collided, faults, crashes>>

IndexInsert ==
    /\ reader # None
    /\ index' = reader
    /\ reader' = None
    /\ UNCHANGED <<harvestVars, jobVars, buildLock, public, tail, card, lost, collided,
                   faults, crashes>>

----------------------------------------------------------------------------
(* The other writer of the card: set_pack_visibility, without the build lock *)

\* The card is loaded whole, its version with it, if there is one ...
VisLoad(t) ==
    /\ toggle[t] = None
    /\ summary # None
    /\ toggle' = [toggle EXCEPT ![t] = summary]
    /\ UNCHANGED <<harvestVars, jobVars, buildLock, public, index, reader, tail,
                   reverted, lost, collided, faults, crashes>>

\* ... and written back an await later, over whatever is there by then.
VisWrite(t) ==
    /\ toggle[t] # None
    /\ \/ /\ summary' = toggle[t]
          /\ reverted' = reverted \cup {j \in Ids : At(j, "done") /\ summary # toggle[t]}
          /\ UNCHANGED <<manifests, latest, faults>>
       \/ Fault /\ UNCHANGED <<public, reverted>>
    /\ toggle' = [toggle EXCEPT ![t] = None]
    /\ UNCHANGED <<harvestVars, jobVars, buildLock, index, reader, tail, lost,
                   collided, crashes>>

----------------------------------------------------------------------------
(* A restart *)

\* sweep_job_snapshots: orphans are marked failed, then the oldest are pruned.
Swept ==
    LET kept(j) == Cardinality({k \in Ids : k > j /\ snap[k] # None}) < Keep
    IN  [j \in Ids |-> CASE ~kept(j) -> None
                         [] snap[j] = "running" -> "failed"
                         [] OTHER -> snap[j]]

Crash ==
    /\ crashes < MaxCrashes
    /\ crashes' = crashes + 1
    /\ HarvestRestart
    /\ pc' = [j \in Ids |-> IF At(j, "unborn") THEN "unborn" ELSE "end"]
    /\ mem' = {}
    /\ snap' = Swept
    /\ buildLock' = None
    /\ index' = None /\ reader' = None
    /\ tail' = NoTail
    /\ toggle' = [t \in Togglers |-> None]
    /\ UNCHANGED <<next, req, status, log, ver, base, settled, public, reverted,
                   lost, collided, faults>>

Harvests ==
    /\ HasHarvester
    /\ HarvestNext
    /\ UNCHANGED <<jobVars, buildLock, public, rest>>

Next ==
    \/ \E r \in Requests : Create(r)
    \/ \E j \in Ids : JobStep(j) \/ TailOpen(j)
    \/ TailRead \/ IndexList \/ IndexInsert
    \/ \E t \in Togglers : VisLoad(t) \/ VisWrite(t)
    \/ Harvests
    \/ Crash

Spec == Init /\ [][Next]_vars

\* Job tasks, the harvester and an open stream run until they end; nobody has
\* to ask for a job, a harvest or a stream.
FairSpec ==
    /\ Spec
    /\ \A j \in Ids : WF_vars(JobStep(j))
    /\ WF_vars(TailRead)
    /\ WF_vars(Harvests /\ (Notify \/ WorkerStep))

----------------------------------------------------------------------------
(* Properties *)

\* A reader never follows manifests/latest to a file that is not there, at any
\* point of a publication, a failed write or a restart (set_latest_manifest).
LatestResolves == latest # None => manifests[latest] # None

\* What people downloaded under a version stays what it was, unless the job that
\* rewrote it was asked to (save_manifest checks and writes in two steps).
PublishedImmutable ==
    [][\A v \in Published :
         manifests'[v] # manifests[v] => req[manifests'[v].by].overwrite]_vars

\* Auto-numbering never collides (save_manifest): two builds asked for at once
\* take different numbers, and neither is refused.
AutoNeverCollides == collided = {}

\* When a build turns Done the pack is what it built: manifest and pointer name
\* its version, and so does the card unless a toggle of the visibility that had
\* loaded the card before put it back; no other build is mixed in (run_build).
DoneMeansPublished ==
    [][\A j \in Ids :
         (status[j] = "running" /\ status'[j] = "done" /\ req[j].kind = "build") =>
            /\ manifests[ver[j]] = [from |-> req[j].from, by |-> j]
            /\ latest = ver[j]
            /\ summary = ver[j] \/ j \in reverted]_vars

\* "latest_pack_version on each summary is the current pointer" (docs/api.md:37):
\* with nobody publishing, the card names the build that latest serves.
CardNamesLatest == buildLock = None => summary = latest

\* A build that found the harvester settled classifies against a registry on
\* which every poke made before it began to wait has been run (await_settled).
SettledMeansHarvested == \A j \in settled : base[j] <= covered

\* A stream that ended has sent the whole log, the reason of a failure included
\* (job_events, since).
TailComplete == tail.over => tail.sent = log[tail.job]

\* GET /v1/jobs/<id> as a client sees it: memory, else the snapshot, else 404.
Answer(j) == IF j \in mem THEN status[j] ELSE snap[j]

\* Whoever polls a job stops reading "running", across eviction from the
\* registry and restarts, unless a snapshot of the job failed to be written.
PollersLearn ==
    \A j \in Ids : (pc[j] # "unborn") ~> (Answer(j) # "running" \/ j \in lost)

\* The index of builds per commit is behind only while a publication is under
\* way: what is remembered is what the manifests say.
IndexCurrent ==
    (index # None /\ \A j \in Ids : ~At(j, "forget")) => index = BuildsByCommit
============================================================================
