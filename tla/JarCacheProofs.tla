--------------------------- MODULE JarCacheProofs ---------------------------
(***************************************************************************)
(* The cache keeps the promise of a takedown, for any number of jars and   *)
(* of requests in flight: JarCache implements Takedowns.  What it takes    *)
(* is that whoever writes removed.txt back holds removed_lock and, unless  *)
(* it could not read the file, still carries the list as it is on disk     *)
(* (LockInv), and that a request past its look at the list is a download   *)
(* or a write of a jar (RequestInv). Then what people see of the cache,    *)
(* for any number of listeners and events: the views of a page that hears  *)
(* the mirror's events, and the inventory read page by page.               *)
(***************************************************************************)
EXTENDS JarCache, SequenceTheorems, FiniteSetTheorems, WellFoundedInduction, TLAPS

Points == {"idle", "start", "lock", "read", "record", "icon", "write", "serve", "store", "stage",
           "enqueue", "moderation", "check", "unstage", "status", "catalog"}

Requests == [op : Operations \cup {"idle"}, pc : Points, sha : Shas \cup {None}, row : Nat,
             seen : SUBSET Shas, what : Arguments]

UploadRows == [sha : Shas, status : {"pending", "approved", "rejected"}]

TypeInv ==
    /\ disk \subseteq Shas /\ removed \subseteq Shas
    /\ lock \in Slots \cup {None}
    /\ given \in [Slots -> Shas \cup {None}]
    /\ uploads \in Seq(UploadRows)
    /\ reqs \in [Slots -> Requests]

\* What a request may be carrying at each point.
RequestOK(q) ==
    /\ q.op \in JarOps \cup {"upload"} \/ q.pc \in {"check", "write"} => q.sha \in Shas
    /\ q.op \in {"approve", "reject"} => q.row \in DOMAIN uploads
    /\ q.pc = "serve" => q.op = "get"
    /\ q.pc = "write" => q.op \in {"put", "ingest", "approve"}

RequestInv == \A s \in Slots : RequestOK(reqs[s])

\* Inside the lock a request is its holder, and at the write what it read of
\* the list is the list, unless it could not read it.
LockInv ==
    \A s \in Slots : reqs[s].op \in {"takedown", "restore"} /\ reqs[s].pc \in {"read", "record"} =>
        /\ lock = s
        /\ reqs[s].pc = "record" /\ s \notin Misreads => reqs[s].seen = removed

CacheInv == TypeInv /\ RequestInv /\ LockInv

-----------------------------------------------------------------------------

\* A request that moves leaves the others as they were.
LEMMA Moves ==
    ASSUME CacheInv, NEW s \in Slots, NEW q \in Requests, reqs' = [reqs EXCEPT ![s] = q],
           RequestOK(q), DOMAIN uploads \subseteq DOMAIN uploads'
    PROVE  reqs' \in [Slots -> Requests] /\ RequestInv'
BY DEF CacheInv, TypeInv, RequestInv, RequestOK

\* A mirror just started: nothing in flight, the lock free, the list empty.
THEOREM InitInv == Init => CacheInv
<1> SUFFICES ASSUME Init PROVE CacheInv
  OBVIOUS
<1>1. Idle \in Requests
  BY DEF Idle, Requests, Points, Arguments
<1>2. TypeInv
  BY <1>1, ShelfHoldsJars DEF Init, TypeInv
<1>3. RequestInv
  BY DEF Init, RequestInv, RequestOK, Idle, JarOps
<1>4. LockInv
  BY DEF Init, LockInv, Idle
<1> QED
  BY <1>2, <1>3, <1>4 DEF CacheInv

\* Every step but that of the two that write the list back leaves it alone.
LEMMA LockKept ==
    ASSUME CacheInv, NEW s \in Slots, NEW q \in Requests, reqs' = [reqs EXCEPT ![s] = q],
           lock' = lock, removed' = removed, ~(q.op \in {"takedown", "restore"} /\ q.pc \in {"read", "record"})
    PROVE  LockInv'
BY DEF CacheInv, TypeInv, LockInv

\* A request that answers, or goes on to a point outside the lock.
LEMMA Proceeds ==
    ASSUME CacheInv, NEW s \in Slots, NEW q \in Requests, reqs' = [reqs EXCEPT ![s] = q],
           UNCHANGED <<removed, lock>>, disk' \subseteq Shas, given' \in [Slots -> Shas \cup {None}],
           uploads' \in Seq(UploadRows), DOMAIN uploads \subseteq DOMAIN uploads',
           RequestOK(q), ~(q.op \in {"takedown", "restore"} /\ q.pc \in {"read", "record"})
    PROVE  CacheInv'
<1>2. reqs' \in [Slots -> Requests] /\ RequestInv'
  BY Moves
<1>3. LockInv'
  BY LockKept
<1> QED
  BY <1>2, <1>3 DEF CacheInv, TypeInv

\* A handler that returns its answer.
LEMMA Answers ==
    ASSUME CacheInv, NEW s \in Slots, Answer(s),
           UNCHANGED <<removed, lock, uploads>>, disk' \subseteq Shas, given' \in [Slots -> Shas \cup {None}]
    PROVE  CacheInv'
<1>1. Idle \in Requests /\ RequestOK(Idle)
  BY DEF Idle, Requests, Points, Arguments, RequestOK, JarOps
<1>2. ~(Idle.op \in {"takedown", "restore"} /\ Idle.pc \in {"read", "record"})
  BY DEF Idle
<1>3. reqs' = [reqs EXCEPT ![s] = Idle]
  BY DEF Answer
<1>4. uploads' \in Seq(UploadRows) /\ DOMAIN uploads \subseteq DOMAIN uploads'
  BY DEF CacheInv, TypeInv
<1> QED
  BY <1>1, <1>2, <1>3, <1>4, Proceeds

\* A handler that goes on to its next await outside the lock.
LEMMA GoesOn ==
    ASSUME CacheInv, NEW s \in Slots, NEW pc \in Points \ {"read", "record"}, Onward(s, pc),
           UNCHANGED <<removed, lock>>, disk' \subseteq Shas, given' \in [Slots -> Shas \cup {None}],
           uploads' \in Seq(UploadRows), DOMAIN uploads \subseteq DOMAIN uploads',
           pc \in {"check", "write"} => reqs[s].sha \in Shas,
           pc = "serve" => reqs[s].op = "get",
           pc = "write" => reqs[s].op \in {"put", "ingest", "approve"}
    PROVE  CacheInv'
<1> DEFINE q == [reqs[s] EXCEPT !.pc = pc]
<1>1. reqs[s] \in Requests /\ RequestOK(reqs[s])
  BY DEF CacheInv, TypeInv, RequestInv
<1>2. q \in Requests
  BY <1>1 DEF Requests
<1>3. q.op = reqs[s].op /\ q.sha = reqs[s].sha /\ q.row = reqs[s].row /\ q.pc = pc
  BY <1>1 DEF Requests
<1>4. reqs' = [reqs EXCEPT ![s] = q]
  BY DEF Onward
<1> HIDE DEF q
<1>5. RequestOK(q)
  BY <1>1, <1>3 DEF RequestOK
<1> QED
  BY <1>2, <1>3, <1>4, <1>5, Proceeds

\* save_cache_jar and write_to_cache, whoever called them.
LEMMA Saves ==
    ASSUME CacheInv, NEW s \in Slots, NEW op \in {"put", "ingest", "approve"}, NEW at \in {"start", "check"},
           op = "approve" <=> at = "check",
           SaveCheck(s, op, at) \/ SaveWrite(s, op, Answer(s)) \/ SaveWrite(s, op, Onward(s, "unstage"))
    PROVE  CacheInv'
<1>1. reqs[s] \in Requests /\ RequestOK(reqs[s]) /\ disk \subseteq Shas /\ given \in [Slots -> Shas \cup {None}]
         /\ uploads \in Seq(UploadRows)
  BY DEF CacheInv, TypeInv, RequestInv
<1>2. CASE SaveCheck(s, op, at)
  <2>1. reqs[s].op = op /\ reqs[s].sha \in Shas
    BY <1>1, <1>2 DEF SaveCheck, At, RequestOK, JarOps
  <2>2. UNCHANGED <<removed, lock, disk, given, uploads>>
    BY <1>2 DEF SaveCheck, cacheVars
  <2>3. CASE Answer(s)
    BY <1>1, <2>2, <2>3, Answers
  <2>4. CASE Onward(s, "write")
    BY <1>1, <2>1, <2>2, <2>4, GoesOn DEF Points
  <2> QED
    BY <1>2, <2>3, <2>4 DEF SaveCheck
<1>3. ASSUME SaveWrite(s, op, Answer(s)) \/ SaveWrite(s, op, Onward(s, "unstage")) PROVE CacheInv'
  <2>1. UNCHANGED <<removed, lock, given, uploads>>
    BY <1>3 DEF SaveWrite
  <2>2. disk' \subseteq Shas
    BY <1>1, <1>3 DEF SaveWrite, At, RequestOK
  <2>3. CASE Answer(s)
    BY <1>1, <2>1, <2>2, <2>3, Answers
  <2>4. CASE Onward(s, "unstage")
    BY <1>1, <2>1, <2>2, <2>4, GoesOn DEF Points
  <2> QED
    BY <1>3, <2>3, <2>4 DEF SaveWrite
<1> QED
  BY <1>2, <1>3

\* No step of any handler breaks it: the list is read and written back only
\* between taking and dropping removed_lock (record_removed,
\* restore), and a request keeps its jar from its look at the list to its
\* write or its download.
THEOREM StepInv == CacheInv /\ [Next]_vars => CacheInv'
<1> SUFFICES ASSUME CacheInv, [Next]_vars PROVE CacheInv'
  OBVIOUS
<1>t. TypeInv /\ RequestInv /\ LockInv
  BY DEF CacheInv
<1>1. ASSUME NEW s \in Slots, Arrive(s) PROVE CacheInv'
  <2>1. PICK op \in Operations, sha \in Shas \cup {None}, row \in 0..Len(uploads), what \in Arguments :
          /\ Asks(op, sha, row, what)
          /\ reqs' = [reqs EXCEPT ![s] = [op |-> op, sha |-> sha, row |-> row, seen |-> {}, what |-> what,
                         pc |-> IF op = "restore" THEN "lock" ELSE "start"]]
    BY <1>1 DEF Arrive
  <2> DEFINE q == [op |-> op, sha |-> sha, row |-> row, seen |-> {}, what |-> what,
                   pc |-> IF op = "restore" THEN "lock" ELSE "start"]
  <2>2. UNCHANGED cacheVars
    BY <1>1 DEF Arrive
  <2>3. q \in Requests
    BY <2>1, <1>t DEF TypeInv, Requests, Points
  <2>4. RequestOK(q)
    <3>1. op \in JarOps \cup {"upload"} => sha \in Shas
      BY <2>1 DEF Asks
    <3>2. op \in {"approve", "reject"} => row \in DOMAIN uploads
      BY <2>1, <1>t DEF Asks, TypeInv
    <3> QED
      BY <3>1, <3>2 DEF RequestOK
  <2>5. reqs' \in [Slots -> Requests] /\ RequestInv'
    <3> HIDE DEF q
    <3> QED BY <2>1, <2>2, <2>3, <2>4, Moves DEF cacheVars, q
  <2>6. LockInv'
    BY <2>1, <2>2, <2>3, LockKept DEF cacheVars
  <2> QED
    BY <1>t, <2>2, <2>5, <2>6 DEF CacheInv, TypeInv, cacheVars
<1>2. ASSUME NEW s \in Slots, PutCacheJar(s) \/ WriteToCache(s) \/ PromoteSave(s) PROVE CacheInv'
  BY <1>2, Saves DEF PutCacheJar, WriteToCache, PromoteSave
<1>3. ASSUME NEW s \in Slots, DeleteCacheJar(s) PROVE CacheInv'
  BY <1>3, <1>t, Answers DEF DeleteCacheJar, DeleteJar, Dropped, TypeInv
<1>4. ASSUME NEW s \in Slots, TakedownBytes(s) \/ ForgetIcon(s) PROVE CacheInv'
  <2>1. disk' \subseteq Shas /\ UNCHANGED <<removed, lock, given, uploads>>
    BY <1>4, <1>t DEF TakedownBytes, ForgetIcon, Dropped, TypeInv
  <2>2. Onward(s, "icon") \/ Onward(s, "lock")
    BY <1>4 DEF TakedownBytes, ForgetIcon
  <2> QED
    BY <1>t, <2>1, <2>2, GoesOn DEF TypeInv, Points
<1>5. ASSUME NEW s \in Slots, RecordRemoved(s) \/ RestoreJar(s) PROVE CacheInv'
  <2>1. /\ reqs[s].op \in {"takedown", "restore"} /\ reqs[s].pc \in {"read", "record"} /\ reqs[s] \in Requests
        /\ RequestOK(reqs[s])
    BY <1>5, <1>t DEF RecordRemoved, RestoreJar, Restore, RestoreNothing, RestoreNothing, At, TypeInv, RequestInv
  <2>2. lock = s
    BY <1>t, <2>1 DEF LockInv
  <2>3. /\ UNCHANGED <<disk, given, uploads>> /\ lock' = None
        /\ reqs' = [reqs EXCEPT ![s] = Idle]
        /\ removed' \in {reqs[s].seen \cup {reqs[s].sha}, reqs[s].seen \ {reqs[s].sha}, removed}
    BY <1>5 DEF RecordRemoved, RestoreJar, Restore, RestoreNothing, RestoreNothing, WriteRemoved, Answer
  <2>4. removed' \subseteq Shas
    BY <1>t, <2>1, <2>3 DEF Requests, RequestOK, JarOps, TypeInv
  <2>5. Idle \in Requests /\ RequestOK(Idle)
    BY DEF Idle, Requests, Points, Arguments, RequestOK, JarOps
  <2>6. reqs' \in [Slots -> Requests] /\ RequestInv'
    BY <2>3, <2>5, Moves
  <2>7. LockInv'
    BY <1>t, <2>2, <2>3 DEF LockInv, TypeInv, Idle
  <2> QED
    BY <1>t, <2>3, <2>4, <2>6, <2>7 DEF CacheInv, TypeInv
<1>6. ASSUME NEW s \in Slots, LockRemoved(s) PROVE CacheInv'
  <2> DEFINE q == [reqs[s] EXCEPT !.pc = "read"]
  <2>1. /\ UNCHANGED <<disk, given, uploads, removed>> /\ lock' = s /\ lock = None
        /\ reqs' = [reqs EXCEPT ![s] = q]
    BY <1>6 DEF LockRemoved, Onward
  <2>2. reqs[s] \in Requests /\ RequestOK(reqs[s])
    BY <1>t DEF TypeInv, RequestInv
  <2>3. /\ q \in Requests
        /\ q.op = reqs[s].op /\ q.sha = reqs[s].sha /\ q.row = reqs[s].row /\ q.pc = "read"
    BY <2>2 DEF Requests, Points
  <2> HIDE DEF q
  <2>4. RequestOK(q)
    BY <2>1, <2>2, <2>3 DEF RequestOK
  <2>5. reqs' \in [Slots -> Requests] /\ RequestInv'
    BY <2>1, <2>3, <2>4, Moves
  <2>6. LockInv'
    BY <1>t, <2>1, <2>3, NoneIsNoSlot DEF LockInv, TypeInv
  <2> QED
    BY <1>t, <2>1, <2>5, <2>6 DEF CacheInv, TypeInv
<1>7. ASSUME NEW s \in Slots, ReadRemoved(s) PROVE CacheInv'
  <2>0. PICK list \in Readings(s) : reqs' = [reqs EXCEPT ![s].pc = "record", ![s].seen = list]
    BY <1>7 DEF ReadRemoved, Readings
  <2> DEFINE q == [reqs[s] EXCEPT !.pc = "record", !.seen = list]
  <2>1. /\ UNCHANGED <<disk, given, uploads, removed, lock>>
        /\ reqs[s].op \in {"takedown", "restore"} /\ reqs[s].pc = "read"
        /\ reqs' = [reqs EXCEPT ![s] = q]
    BY <1>7, <2>0 DEF ReadRemoved, cacheVars
  <2>2. reqs[s] \in Requests /\ RequestOK(reqs[s])
    BY <1>t DEF TypeInv, RequestInv
  <2>3. /\ q \in Requests /\ (s \notin Misreads => q.seen = removed)
        /\ q.op = reqs[s].op /\ q.sha = reqs[s].sha /\ q.row = reqs[s].row /\ q.pc = "record"
    BY <1>t, <2>2 DEF Requests, Points, TypeInv, Readings
  <2> HIDE DEF q
  <2>4. RequestOK(q)
    BY <2>1, <2>2, <2>3 DEF RequestOK
  <2>5. reqs' \in [Slots -> Requests] /\ RequestInv'
    BY <2>1, <2>3, <2>4, Moves
  <2>6. LockInv'
    BY <1>t, <2>1, <2>3 DEF LockInv, TypeInv
  <2> QED
    BY <1>t, <2>1, <2>5, <2>6 DEF CacheInv, TypeInv
<1>8. ASSUME NEW s \in Slots, GetCacheJar(s) PROVE CacheInv'
  <2>1. reqs[s] \in Requests /\ RequestOK(reqs[s])
    BY <1>t DEF TypeInv, RequestInv
  <2>2. UNCHANGED <<disk, uploads, removed, lock>>
    BY <1>8 DEF GetCacheJar, cacheVars
  <2>3. given' \in [Slots -> Shas \cup {None}]
    BY <1>8, <1>t, <2>1 DEF GetCacheJar, At, cacheVars, TypeInv, RequestOK, JarOps
  <2>4. Answer(s) \/ (Onward(s, "serve") /\ reqs[s].op = "get")
    BY <1>8 DEF GetCacheJar, At
  <2>5. disk' \subseteq Shas /\ uploads' \in Seq(UploadRows) /\ DOMAIN uploads \subseteq DOMAIN uploads'
    BY <1>t, <2>2 DEF TypeInv
  <2>6. CASE Answer(s)
    BY <2>2, <2>3, <2>5, <2>6, Answers
  <2>7. CASE Onward(s, "serve") /\ reqs[s].op = "get"
    BY <2>2, <2>3, <2>5, <2>7, GoesOn DEF Points
  <2> QED
    BY <2>4, <2>6, <2>7
<1>9. ASSUME NEW s \in Slots, GetCacheIcon(s) \/ GetProjectIcon(s) PROVE CacheInv'
  <2>1. UNCHANGED <<disk, given, uploads, removed, lock>>
    BY <1>9 DEF GetCacheIcon, GetProjectIcon, cacheVars
  <2>2. Answer(s) \/ Onward(s, "store")
    BY <1>9 DEF GetCacheIcon, GetProjectIcon
  <2> QED
    BY <1>t, <2>1, <2>2, Answers, GoesOn DEF TypeInv, Points
<1>10. ASSUME NEW s \in Slots, UploadGate(s) \/ StageUpload(s) \/ Unstage(s) PROVE CacheInv'
  <2>1. UNCHANGED <<disk, given, uploads, removed, lock>>
    BY <1>10 DEF UploadGate, StageUpload, Unstage, cacheVars
  <2>2. Answer(s) \/ Onward(s, "stage") \/ Onward(s, "enqueue") \/ Onward(s, "status")
    BY <1>10 DEF UploadGate, StageUpload, Unstage
  <2> QED
    BY <1>t, <2>1, <2>2, Answers, GoesOn DEF TypeInv, Points
<1>11. ASSUME NEW s \in Slots, EnqueueUpload(s) PROVE CacheInv'
  <2>1. /\ UNCHANGED <<disk, given, removed, lock>> /\ Onward(s, "moderation")
        /\ reqs[s].op = "upload"
        /\ uploads' = Append(uploads, [sha |-> reqs[s].sha, status |-> "pending"])
    BY <1>11 DEF EnqueueUpload, At
  <2>2. reqs[s].sha \in Shas
    BY <1>t, <2>1 DEF RequestInv, RequestOK
  <2>3. uploads' \in Seq(UploadRows) /\ DOMAIN uploads \subseteq DOMAIN uploads'
    BY <1>t, <2>1, <2>2 DEF TypeInv, UploadRows
  <2> QED
    BY <1>t, <2>1, <2>3, GoesOn DEF TypeInv, Points
<1>12. ASSUME NEW s \in Slots, PromoteUpload(s) PROVE CacheInv'
  <2>1. UNCHANGED <<disk, given, uploads, removed, lock>> /\ reqs[s].op = "approve"
    BY <1>12 DEF PromoteUpload, At, cacheVars
  <2>2. reqs[s] \in Requests /\ RequestOK(reqs[s])
    BY <1>t DEF TypeInv, RequestInv
  <2>3. CASE Answer(s)
    BY <1>t, <2>1, <2>3, Answers DEF TypeInv
  <2>4. CASE reqs' = [reqs EXCEPT ![s].pc = "check", ![s].sha = uploads[reqs[s].row].sha]
    <3> DEFINE q == [reqs[s] EXCEPT !.pc = "check", !.sha = uploads[reqs[s].row].sha]
    <3>1. uploads[reqs[s].row] \in UploadRows
      BY <1>t, <2>1, <2>2 DEF RequestOK, TypeInv
    <3>2. uploads[reqs[s].row].sha \in Shas
      BY <3>1 DEF UploadRows
    <3>3. q \in Requests /\ q.op = "approve" /\ q.pc = "check" /\ q.row = reqs[s].row /\ q.sha \in Shas
      BY <2>1, <2>2, <3>2 DEF Requests, Points
    <3>4. reqs' = [reqs EXCEPT ![s] = q]
      BY <2>4
    <3> HIDE DEF q
    <3>5. RequestOK(q)
      BY <2>1, <2>2, <3>3 DEF RequestOK
    <3> QED
      BY <1>t, <2>1, <3>3, <3>4, <3>5, Proceeds DEF TypeInv
  <2> QED
    BY <1>12, <2>3, <2>4 DEF PromoteUpload
<1>13. ASSUME NEW s \in Slots, DecideUpload(s) PROVE CacheInv'
  <2>1. UNCHANGED <<disk, given, removed, lock>> /\ Onward(s, "moderation")
    BY <1>13 DEF DecideUpload, SetUploadStatus
  <2>2. PICK st \in {"approved", "rejected"} : uploads' = [uploads EXCEPT ![reqs[s].row].status = st]
    BY <1>13 DEF DecideUpload, SetUploadStatus
  <2>3. uploads' \in Seq(UploadRows) /\ DOMAIN uploads \subseteq DOMAIN uploads'
    <3>1. uploads \in Seq(UploadRows)
      BY <1>t DEF TypeInv
    <3>2. CASE reqs[s].row \in DOMAIN uploads
      <4> DEFINE x == [uploads[reqs[s].row] EXCEPT !.status = st]
      <4>0. uploads[reqs[s].row] \in UploadRows
        BY <3>1, <3>2
      <4>1. x \in UploadRows
        BY <4>0 DEF UploadRows
      <4>2. uploads' = [uploads EXCEPT ![reqs[s].row] = x]
        BY <2>2
      <4> HIDE DEF x
      <4> QED
        BY <3>1, <3>2, <4>1, <4>2, ExceptSeq
    <3>3. CASE reqs[s].row \notin DOMAIN uploads
      <4>1. uploads' = uploads
        BY <2>2, <3>1, <3>3
      <4> QED
        BY <3>1, <4>1
    <3> QED
      BY <3>2, <3>3
  <2> QED
    BY <1>t, <2>1, <2>3, GoesOn DEF TypeInv, Points
<1>14. ASSUME NEW s \in Slots, Nudge(s) \/ \E x \in Servers : EditCatalog(s, x) PROVE CacheInv'
  <2>1. UNCHANGED <<disk, given, uploads, removed, lock>>
    BY <1>14 DEF Nudge, EditCatalog, cacheVars
  <2>2. Answer(s) \/ Onward(s, "catalog")
    BY <1>14 DEF Nudge, EditCatalog
  <2> QED
    BY <1>t, <2>1, <2>2, Answers, GoesOn DEF TypeInv, Points
<1>15. CASE UNCHANGED <<disk, removed, lock, given, uploads, reqs>>
  BY <1>t, <1>15 DEF CacheInv, TypeInv, RequestInv, RequestOK, LockInv
<1>16. CASE \/ \E p \in Projects : PictureAges(p)
            \/ \E size \in 0..2 : StartWalk(size)
            \/ InventoryDir
            \/ Pages /\ UNCHANGED <<cacheVars, reqs, menu>>
            \/ \E t \in Tabs : Enter(t)
  BY <1>15, <1>16 DEF PictureAges, StartWalk, InventoryDir, Enter, cacheVars
<1>17. ASSUME NEW s \in Slots, Handler(s) PROVE CacheInv'
  BY <1>17, <1>2, <1>3, <1>4, <1>5, <1>6, <1>7, <1>8, <1>9, <1>10, <1>11, <1>12, <1>13, <1>14
     DEF Handler, TakedownJar, ListOfRemoved, UploadJar, ApproveUpload
<1>18. CASE UNCHANGED vars
  BY <1>15, <1>18 DEF vars, cacheVars
<1>19. CASE Next
  <2>1. CASE \E s \in Slots : Arrive(s) \/ Handler(s)
    BY <1>1, <1>17, <2>1
  <2> QED
    BY <1>16, <1>19, <2>1 DEF Next
<1> QED
  BY <1>18, <1>19

-----------------------------------------------------------------------------
(* The refinement: every step is a step of the promise or changes nothing
   the promise speaks of. *)

Past == {"serve", "write"}

Mark(s, q) == <<s, IF q.op = "get" THEN "read" ELSE "write", q.sha>>

\* What a request that moves does to the set of those let through.
LEMMA Marks ==
    ASSUME CacheInv, NEW s \in Slots, NEW q \in Requests, reqs' = [reqs EXCEPT ![s] = q]
    PROVE  /\ reqs[s].pc \notin Past /\ q.pc \notin Past => Cleared(reqs') = Cleared(reqs)
           /\ reqs[s].pc \notin Past /\ q.pc \in Past =>
                 Cleared(reqs') = Cleared(reqs) \cup {Mark(s, q)}
           /\ reqs[s].pc \in Past /\ q.pc \notin Past =>
                 /\ Mark(s, reqs[s]) \in Cleared(reqs)
                 /\ Cleared(reqs') = Cleared(reqs) \ {Mark(s, reqs[s])}
<1>1. reqs \in [Slots -> Requests]
  BY DEF CacheInv, TypeInv
<1>2. reqs'[s] = q /\ \A r \in Slots \ {s} : reqs'[r] = reqs[r]
  BY <1>1
<1>3. ASSUME NEW x
      PROVE  x \in Cleared(reqs) <=> \E r \in Slots : reqs[r].pc \in Past /\ x = Mark(r, reqs[r])
  BY DEF Cleared, Past, Mark
<1>4. ASSUME NEW x
      PROVE  x \in Cleared(reqs') <=> \E r \in Slots : reqs'[r].pc \in Past /\ x = Mark(r, reqs'[r])
  BY DEF Cleared, Past, Mark
<1> DEFINE Others(x) == \E r \in Slots \ {s} : reqs[r].pc \in Past /\ x = Mark(r, reqs[r])
<1>5. ASSUME NEW x
      PROVE  x \in Cleared(reqs) <=> Others(x) \/ (reqs[s].pc \in Past /\ x = Mark(s, reqs[s]))
  BY <1>3
<1>6. ASSUME NEW x
      PROVE  x \in Cleared(reqs') <=> Others(x) \/ (q.pc \in Past /\ x = Mark(s, q))
  <2>1. Others(x) <=> \E r \in Slots \ {s} : reqs'[r].pc \in Past /\ x = Mark(r, reqs'[r])
    BY <1>2, Zenon
  <2>2. (\E r \in Slots : reqs'[r].pc \in Past /\ x = Mark(r, reqs'[r]))
          <=> \/ \E r \in Slots \ {s} : reqs'[r].pc \in Past /\ x = Mark(r, reqs'[r])
              \/ reqs'[s].pc \in Past /\ x = Mark(s, reqs'[s])
    OBVIOUS
  <2> HIDE DEF Others
  <2> QED
    BY <1>2, <1>4, <2>1, <2>2
<1>7. ~Others(Mark(s, reqs[s]))
  BY DEF Mark
<1> HIDE DEF Others
<1>8. ASSUME reqs[s].pc \notin Past, q.pc \notin Past PROVE Cleared(reqs') = Cleared(reqs)
  <2>1. ASSUME NEW x PROVE x \in Cleared(reqs') <=> x \in Cleared(reqs)
    BY <1>5, <1>6, <1>8
  <2> QED
    BY <2>1
<1>9. ASSUME reqs[s].pc \notin Past, q.pc \in Past PROVE Cleared(reqs') = Cleared(reqs) \cup {Mark(s, q)}
  <2>1. ASSUME NEW x PROVE x \in Cleared(reqs') <=> x \in Cleared(reqs) \cup {Mark(s, q)}
    BY <1>5, <1>6, <1>9
  <2> QED
    BY <2>1
<1>10. ASSUME reqs[s].pc \in Past, q.pc \notin Past
       PROVE  /\ Mark(s, reqs[s]) \in Cleared(reqs)
              /\ Cleared(reqs') = Cleared(reqs) \ {Mark(s, reqs[s])}
  <2>1. Mark(s, reqs[s]) \in Cleared(reqs)
    BY <1>5, <1>10
  <2>2. ASSUME NEW x PROVE x \in Cleared(reqs') <=> x \in Cleared(reqs) \ {Mark(s, reqs[s])}
    BY <1>5, <1>6, <1>7, <1>10
  <2> QED
    BY <2>1, <2>2
<1> QED
  BY <1>8, <1>9, <1>10

\* A request that is not past its look at the list, and does not get past it.
LEMMA Stays ==
    ASSUME CacheInv, NEW s \in Slots, reqs[s].pc \notin Past,
           Answer(s) \/ \E pc \in Points \ Past : Onward(s, pc)
    PROVE  Cleared(reqs') = Cleared(reqs)
<1>1. reqs[s] \in Requests
  BY DEF CacheInv, TypeInv
<1>2. CASE Answer(s)
  <2>1. Idle \in Requests /\ Idle.pc \notin Past
    BY DEF Idle, Requests, Points, Arguments, Past
  <2> QED
    BY <1>2, <2>1, Marks DEF Answer
<1>3. ASSUME NEW pc \in Points \ Past, Onward(s, pc) PROVE Cleared(reqs') = Cleared(reqs)
  <2> DEFINE q == [reqs[s] EXCEPT !.pc = pc]
  <2>1. q \in Requests /\ q.pc = pc
    BY <1>1 DEF Requests
  <2>2. reqs' = [reqs EXCEPT ![s] = q]
    BY <1>3 DEF Onward
  <2> HIDE DEF q
  <2> QED
    BY <2>1, <2>2, Marks
<1> QED
  BY <1>2, <1>3

\* save_cache_jar, of a request that can read the list: the look is the promise's
\* Clear, the write its Land.
LEMMA SavesKeep ==
    ASSUME CacheInv, NEW s \in Slots, s \notin Misreads, NEW op \in {"put", "ingest", "approve"}, NEW at \in {"start", "check"},
           op = "approve" <=> at = "check",
           SaveCheck(s, op, at) \/ SaveWrite(s, op, Answer(s)) \/ SaveWrite(s, op, Onward(s, "unstage"))
    PROVE  [Promise!Next]_(Promise!promiseVars)
<1>1. reqs[s] \in Requests /\ RequestOK(reqs[s])
  BY DEF CacheInv, TypeInv, RequestInv
<1>2. CASE SaveCheck(s, op, at)
  <2>1. /\ reqs[s].op = op /\ reqs[s].pc = at /\ reqs[s].pc \notin Past /\ reqs[s].sha \in Shas
        /\ UNCHANGED <<removed, disk, given>>
    BY <1>1, <1>2 DEF SaveCheck, At, RequestOK, JarOps, cacheVars, Past
  <2>2. CASE Answer(s)
    BY <2>1, <2>2, Stays DEF Promise!promiseVars
  <2>3. CASE Onward(s, "write") /\ reqs[s].sha \notin removed
    <3> DEFINE q == [reqs[s] EXCEPT !.pc = "write"]
    <3>1. q \in Requests /\ q.pc \in Past /\ Mark(s, q) = <<s, "write", reqs[s].sha>>
      BY <1>1, <2>1 DEF Requests, Points, Past, Mark
    <3>2. reqs' = [reqs EXCEPT ![s] = q]
      BY <2>3 DEF Onward
    <3> HIDE DEF q
    <3>3. Cleared(reqs') = Cleared(reqs) \cup {<<s, "write", reqs[s].sha>>}
      BY <2>1, <3>1, <3>2, Marks
    <3>4. Promise!Clear(s, "write", reqs[s].sha)
      BY <2>1, <2>3, <3>3 DEF Promise!Clear
    <3> QED
      BY <2>1, <3>4 DEF Promise!Next
  <2> QED
    BY <1>2, <2>2, <2>3 DEF SaveCheck, IsSha1Removed, Readings
<1>3. ASSUME SaveWrite(s, op, Answer(s)) \/ SaveWrite(s, op, Onward(s, "unstage"))
      PROVE  [Promise!Next]_(Promise!promiseVars)
  <2>1. /\ reqs[s].op = op /\ reqs[s].pc \in Past /\ reqs[s].sha \in Shas /\ reqs[s].op # "get"
        /\ disk' = disk \cup {reqs[s].sha} /\ UNCHANGED <<removed, given>>
    BY <1>1, <1>3 DEF SaveWrite, At, RequestOK, Past
  <2>2. Mark(s, reqs[s]) = <<s, "write", reqs[s].sha>>
    BY <2>1 DEF Mark
  <2>3. PICK q \in Requests : reqs' = [reqs EXCEPT ![s] = q] /\ q.pc \notin Past
    <3>1. Idle \in Requests /\ Idle.pc \notin Past
      BY DEF Idle, Requests, Points, Arguments, Past
    <3>2. [reqs[s] EXCEPT !.pc = "unstage"] \in Requests /\ [reqs[s] EXCEPT !.pc = "unstage"].pc \notin Past
      BY <1>1 DEF Requests, Points, Past
    <3>3. \/ reqs' = [reqs EXCEPT ![s] = Idle]
          \/ reqs' = [reqs EXCEPT ![s] = [reqs[s] EXCEPT !.pc = "unstage"]]
      BY <1>3 DEF SaveWrite, Answer, Onward
    <3> QED
      BY <3>1, <3>2, <3>3
  <2>4. /\ <<s, "write", reqs[s].sha>> \in Cleared(reqs)
        /\ Cleared(reqs') = Cleared(reqs) \ {<<s, "write", reqs[s].sha>>}
    BY <2>1, <2>2, <2>3, Marks
  <2>5. Promise!Land(s, reqs[s].sha)
    BY <2>1, <2>4 DEF Promise!Land
  <2> QED
    BY <2>1, <2>5 DEF Promise!Next
<1> QED
  BY <1>2, <1>3

\* A request that moves without passing its look at the list, and touches
\* nothing the promise speaks of.
LEMMA Unseen ==
    ASSUME CacheInv, NEW s \in Slots, NEW q \in Requests, reqs' = [reqs EXCEPT ![s] = q],
           reqs[s].pc \notin Past, q.pc \notin Past, UNCHANGED <<disk, removed, given>>
    PROVE  UNCHANGED Promise!promiseVars
<1>1. Cleared(reqs') = Cleared(reqs)
  BY Marks
<1> QED
  BY <1>1 DEF Promise!promiseVars

\* Every await of get_cache_jar, save_cache_jar, write_to_cache, takedown and
\* restore is one step of the promise, unless the request could not read the
\* list; every other step of the mirror leaves what the promise speaks of as it
\* is.
THEOREM StepKeeps ==
    CacheInv /\ [Next]_vars =>
        [Promise!Next \/ \E s \in Misreads : Handler(s)]_(Promise!promiseVars)
<1> SUFFICES ASSUME CacheInv, [Next]_vars, \A s \in Misreads : ~Handler(s) PROVE [Promise!Next]_(Promise!promiseVars)
  OBVIOUS
<1>t. TypeInv /\ RequestInv /\ LockInv
  BY DEF CacheInv
<1>1. ASSUME NEW s \in Slots, Arrive(s) PROVE [Promise!Next]_(Promise!promiseVars)
  <2>1. PICK op \in Operations, sha \in Shas \cup {None}, row \in 0..Len(uploads), what \in Arguments :
          /\ Asks(op, sha, row, what)
          /\ reqs' = [reqs EXCEPT ![s] = [op |-> op, sha |-> sha, row |-> row, seen |-> {}, what |-> what,
                            pc |-> IF op = "restore" THEN "lock" ELSE "start"]]
    BY <1>1 DEF Arrive
  <2> DEFINE q == [op |-> op, sha |-> sha, row |-> row, seen |-> {}, what |-> what,
                   pc |-> IF op = "restore" THEN "lock" ELSE "start"]
  <2>2. UNCHANGED <<disk, removed, given>> /\ reqs[s].pc \notin Past
    BY <1>1 DEF Arrive, cacheVars, Idle, Past
  <2>3. q \in Requests /\ q.pc \notin Past
    BY <2>1, <1>t DEF TypeInv, Requests, Points, Past
  <2> HIDE DEF q
  <2> QED
    BY <2>1, <2>2, <2>3, Unseen DEF q
<1>2. ASSUME NEW s \in Slots, s \notin Misreads, PutCacheJar(s) \/ WriteToCache(s) \/ PromoteSave(s)
      PROVE  [Promise!Next]_(Promise!promiseVars)
  BY <1>2, SavesKeep DEF PutCacheJar, WriteToCache, PromoteSave
<1>3. ASSUME NEW s \in Slots, DeleteCacheJar(s) \/ TakedownBytes(s) PROVE [Promise!Next]_(Promise!promiseVars)
  <2>1. /\ disk' = disk \ {reqs[s].sha} /\ UNCHANGED <<removed, given>>
        /\ reqs[s].pc \notin Past /\ reqs[s].sha \in Shas
    BY <1>3, <1>t DEF DeleteCacheJar, DeleteJar, TakedownBytes, Dropped, At, Past, RequestInv, RequestOK, JarOps
  <2>2. Answer(s) \/ Onward(s, "icon")
    BY <1>3 DEF DeleteCacheJar, DeleteJar, TakedownBytes
  <2>3. Cleared(reqs') = Cleared(reqs)
    BY <2>1, <2>2, Stays DEF Points, Past
  <2>4. Promise!Drop(reqs[s].sha)
    BY <2>1, <2>3 DEF Promise!Drop
  <2> QED
    BY <2>1, <2>4 DEF Promise!Next
<1>4. ASSUME NEW s \in Slots, s \notin Misreads, RecordRemoved(s) \/ Restore(s) PROVE [Promise!Next]_(Promise!promiseVars)
  <2>1. /\ reqs[s].pc = "record" /\ reqs[s].sha \in Shas /\ reqs[s].seen = removed
        /\ UNCHANGED <<disk, given>> /\ Answer(s)
    BY <1>4, <1>t DEF RecordRemoved, Restore, WriteRemoved, At, RequestInv, RequestOK, JarOps, LockInv
  <2>2. Cleared(reqs') = Cleared(reqs)
    BY <2>1, Stays DEF Past
  <2>3. removed' = removed \cup {reqs[s].sha} \/ removed' = removed \ {reqs[s].sha}
    BY <1>4, <2>1 DEF RecordRemoved, Restore, WriteRemoved
  <2>4. Promise!Block(reqs[s].sha) \/ Promise!Lift(reqs[s].sha)
    BY <2>1, <2>2, <2>3 DEF Promise!Block, Promise!Lift
  <2> QED
    BY <2>1, <2>4 DEF Promise!Next
<1>5. ASSUME NEW s \in Slots, s \notin Misreads, GetCacheJar(s) PROVE [Promise!Next]_(Promise!promiseVars)
  <2>1. reqs[s] \in Requests /\ RequestOK(reqs[s]) /\ reqs[s].op = "get" /\ reqs[s].sha \in Shas
    BY <1>5, <1>t DEF GetCacheJar, At, TypeInv, RequestInv, RequestOK, JarOps
  <2>2. CASE At(s, "get", "start")
    <3>1. reqs[s].pc \notin Past /\ UNCHANGED <<disk, removed, given>>
      BY <1>5, <2>2 DEF GetCacheJar, At, Past, cacheVars
    <3>2. CASE Answer(s)
      BY <3>1, <3>2, Stays DEF Promise!promiseVars
    <3>3. CASE reqs[s].sha \notin removed /\ Onward(s, "serve")
      <4> DEFINE q == [reqs[s] EXCEPT !.pc = "serve"]
      <4>1. q \in Requests /\ q.pc \in Past /\ Mark(s, q) = <<s, "read", reqs[s].sha>>
        BY <2>1 DEF Requests, Points, Past, Mark
      <4>2. reqs' = [reqs EXCEPT ![s] = q]
        BY <3>3 DEF Onward
      <4> HIDE DEF q
      <4>3. Cleared(reqs') = Cleared(reqs) \cup {<<s, "read", reqs[s].sha>>}
        BY <3>1, <4>1, <4>2, Marks
      <4>4. Promise!Clear(s, "read", reqs[s].sha)
        BY <3>1, <3>3, <4>3 DEF Promise!Clear
      <4> QED
        BY <2>1, <4>4 DEF Promise!Next
    <3> QED
      BY <1>5, <2>2, <3>2, <3>3 DEF GetCacheJar, At, IsSha1Removed, Readings
  <2>3. CASE At(s, "get", "serve")
    <3>1. /\ reqs[s].pc \in Past /\ UNCHANGED <<disk, removed>> /\ Answer(s)
          /\ given' \in {given, [given EXCEPT ![s] = reqs[s].sha]}
      BY <1>5, <2>3 DEF GetCacheJar, At, Past
    <3>2. Mark(s, reqs[s]) = <<s, "read", reqs[s].sha>>
      BY <2>1 DEF Mark
    <3>3. Idle \in Requests /\ Idle.pc \notin Past
      BY DEF Idle, Requests, Points, Arguments, Past
    <3>4. /\ <<s, "read", reqs[s].sha>> \in Cleared(reqs)
          /\ Cleared(reqs') = Cleared(reqs) \ {<<s, "read", reqs[s].sha>>}
      BY <3>1, <3>2, <3>3, Marks DEF Answer
    <3>5. Promise!Give(s, reqs[s].sha)
      BY <3>1, <3>4 DEF Promise!Give
    <3> QED
      BY <2>1, <3>5 DEF Promise!Next
  <2> QED
    BY <1>5, <2>2, <2>3 DEF GetCacheJar
<1>6. ASSUME NEW s \in Slots, s \notin Misreads, ReadRemoved(s) \/ PromoteUpload(s) PROVE [Promise!Next]_(Promise!promiseVars)
  <2>1. /\ UNCHANGED <<disk, removed, given>> /\ reqs[s].pc \notin Past /\ reqs[s] \in Requests
        /\ RequestOK(reqs[s]) /\ removed \subseteq Shas /\ uploads \in Seq(UploadRows)
    BY <1>6, <1>t DEF ReadRemoved, PromoteUpload, At, cacheVars, Past, TypeInv, RequestInv
  <2>2. CASE Answer(s)
    BY <2>1, <2>2, Stays DEF Promise!promiseVars
  <2>3. CASE ReadRemoved(s)
    <3> DEFINE q == [reqs[s] EXCEPT !.pc = "record", !.seen = removed]
    <3>1. q \in Requests /\ q.pc \notin Past
      BY <2>1 DEF Requests, Points, Past
    <3>2. reqs' = [reqs EXCEPT ![s] = q]
      BY <1>6, <1>t, <2>3 DEF ReadRemoved, Readings, TypeInv
    <3> HIDE DEF q
    <3> QED
      BY <2>1, <3>1, <3>2, Unseen
  <2>4. CASE PromoteUpload(s) /\ ~Answer(s)
    <3> DEFINE q == [reqs[s] EXCEPT !.pc = "check", !.sha = uploads[reqs[s].row].sha]
    <3>1. reqs[s].row \in DOMAIN uploads
      BY <2>1, <2>4 DEF PromoteUpload, At, RequestOK
    <3>2. uploads[reqs[s].row].sha \in Shas
      <4>1. uploads[reqs[s].row] \in UploadRows
        BY <2>1, <3>1
      <4> QED
        BY <4>1 DEF UploadRows
    <3>3. q \in Requests /\ q.pc \notin Past
      BY <2>1, <3>2 DEF Requests, Points, Past
    <3>4. reqs' = [reqs EXCEPT ![s] = q]
      BY <1>t, <2>4 DEF PromoteUpload, TypeInv
    <3> HIDE DEF q
    <3> QED
      BY <2>1, <3>3, <3>4, Unseen
  <2> QED
    BY <1>6, <2>2, <2>3, <2>4
<1>7. ASSUME NEW s \in Slots,
             \/ ForgetIcon(s) \/ LockRemoved(s) \/ GetCacheIcon(s) \/ GetProjectIcon(s)
             \/ UploadJar(s) \/ Unstage(s) \/ SetUploadStatus(s)
             \/ (\E x \in Servers : EditCatalog(s, x)) \/ Nudge(s)
      PROVE  [Promise!Next]_(Promise!promiseVars)
  <2>1. UNCHANGED <<disk, removed, given>> /\ reqs[s].pc \notin Past
    BY <1>7 DEF ForgetIcon, LockRemoved, GetCacheIcon, GetProjectIcon, UploadJar, UploadGate, StageUpload,
                EnqueueUpload, Unstage, SetUploadStatus, EditCatalog, Nudge, At, Past, cacheVars, Events
  <2>2. Answer(s) \/ \E pc \in Points \ Past : Onward(s, pc)
    BY <1>7 DEF ForgetIcon, LockRemoved, GetCacheIcon, GetProjectIcon, UploadJar, UploadGate, StageUpload,
                EnqueueUpload, Unstage, SetUploadStatus, EditCatalog, Nudge, Points, Past
  <2> QED
    BY <2>1, <2>2, Stays DEF Promise!promiseVars
<1>8. CASE UNCHANGED <<disk, removed, given, reqs>>
  BY <1>8 DEF Promise!promiseVars, Cleared
<1>9. CASE \/ \E p \in Projects : PictureAges(p)
           \/ \E size \in 0..2 : StartWalk(size)
           \/ InventoryDir
           \/ Pages /\ UNCHANGED <<cacheVars, reqs, menu>>
           \/ \E t \in Tabs : Enter(t)
           \/ UNCHANGED vars
  BY <1>8, <1>9 DEF PictureAges, StartWalk, InventoryDir, Enter, vars, cacheVars
<1>10. ASSUME NEW s \in Slots, Handler(s) PROVE [Promise!Next]_(Promise!promiseVars)
  <2>1. s \notin Misreads /\ ~RestoreNothing(s)
    BY <1>10 DEF RestoreNothing
  <2> QED
    BY <1>10, <2>1, <1>2, <1>3, <1>4, <1>5, <1>6, <1>7
       DEF Handler, TakedownJar, RestoreJar, ListOfRemoved, ApproveUpload, DecideUpload
<1> QED
  BY <1>1, <1>9, <1>10 DEF Next

\* The empty list and the shelf are a beginning the promise allows.
THEOREM InitKeeps == Init => Promise!Init
<1> SUFFICES ASSUME Init PROVE Promise!Init
  OBVIOUS
<1>1. \A s \in Slots : reqs[s].pc = "idle"
  BY DEF Init, Idle
<1>2. Cleared(reqs) = {}
  BY <1>1 DEF Cleared
<1> QED
  BY <1>2, ShelfHoldsJars DEF Init, Promise!Init

-----------------------------------------------------------------------------

\* In every behaviour, whatever requests interleave: a lock is held by the one
\* request inside it, and what that request is about to write back of
\* removed.txt is the list as it stands but for its own jar.  storage.rs
\* record_removed and restore.
THEOREM CacheInvAlways == Spec => []CacheInv
<1> QED
  BY InitInv, StepInv, PTL DEF Spec

\* JarCache implements Takedowns, for any number of jars and of requests in
\* flight, but for what a request does that could not read the list: no
\* download, upload, promotion or write of the ingest is let through while its
\* jar is on the list, and takedowns and restores never lose one another.
THEOREM PromiseKept == Spec => KeepsPromise
<1> QED
  BY InitInv, StepInv, InitKeeps, StepKeeps, PTL DEF Spec, KeepsPromise

\* While removed.txt reads, docs/architecture.md is right: JarCache implements
\* Takedowns.
THEOREM ReadableKeeps == ASSUME Misreads = {} PROVE Spec => BlocksTakenDown
<1>1. CacheInv /\ [Next]_vars => [Promise!Next]_(Promise!promiseVars)
  BY StepKeeps
<1> QED
  BY <1>1, InitInv, StepInv, InitKeeps, PTL DEF Spec, BlocksTakenDown, Promise!Spec

-----------------------------------------------------------------------------
(* What people see of the cache: their views, and the inventory *)

Views == {None} \cup (SUBSET Nat) \cup [servers : SUBSET Servers, featured : SUBSET Servers]
Ears == [at : Nat, stale : SUBSET Events, missed : SUBSET Events, view : [Events -> Views]]

EarsType ==
    /\ sent \in Seq(Events)
    /\ ears \in [Listeners -> Ears \cup {None}]
    /\ \A l \in Listeners : ears[l] # None => ears[l].at \in 1..(Len(sent) + 1)
    /\ board \in [servers : SUBSET Servers, featured : SUBSET Servers]

\* An event of kind k the page has not read yet, kept or not.
Unread(l, k) == \E i \in ears[l].at..Len(sent) : sent[i] = k

\* A view that is not to be reread and missed nothing is right, or somebody is
\* about to say it is not, or has said so and was not heard yet.  A kind the
\* page may not hear shows nothing.
HearInv ==
    \A l \in Listeners, k \in Events :
        ears[l] # None /\ k \notin ears[l].stale \cup ears[l].missed =>
            \/ ears[l].view[k] = World(l, k)
            \/ /\ Reaches(k, ListenerRole[l])
               /\ (\E s \in Slots : reqs[s].pc = k) \/ Unread(l, k)

ViewInv == CacheInv /\ EarsType /\ HearInv

\* What is shown of a kind the page may not hear is nothing, whatever happens.
LEMMA Unheard ==
    ASSUME NEW l \in Listeners, NEW k \in Events, ~Reaches(k, ListenerRole[l])
    PROVE  World(l, k) = {}
BY DEF Reaches, World, Events

\* What a view shows is made of what is stored.
LEMMA WorldType == ASSUME CacheInv, EarsType, NEW l \in Listeners, NEW k \in Events PROVE World(l, k) \in Views
<1>1. Pending \subseteq Nat
  BY DEF Pending, CacheInv, TypeInv
<1> QED
  BY <1>1 DEF World, Views, EarsType, ListUploads, ListServers, GetFeatured

\* Every handler that changes the queue or the lists goes on to announce it, and
\* one that is about to announce does nothing else first.
LEMMA Announces ==
    ASSUME ViewInv, NEW s \in Slots, Handler(s), ~Nudge(s)
    PROVE  /\ UNCHANGED streamVars
           /\ reqs[s].pc \notin Events
           /\ \A r \in Slots \ {s} : reqs'[r] = reqs[r]
           /\ uploads' = uploads \/ reqs'[s].pc = "moderation"
           /\ board' = board \/ reqs'[s].pc = "catalog"
           /\ board' \in [servers : SUBSET Servers, featured : SUBSET Servers]
<1>t. reqs \in [Slots -> Requests] /\ board \in [servers : SUBSET Servers, featured : SUBSET Servers]
  BY DEF ViewInv, CacheInv, TypeInv, EarsType
<1>1. UNCHANGED streamVars
  BY DEF Handler, PutCacheJar, WriteToCache, DeleteCacheJar, DeleteJar, TakedownJar, TakedownBytes, ForgetIcon,
         RecordRemoved, RestoreJar, Restore, RestoreNothing, WriteRemoved, ListOfRemoved, LockRemoved, ReadRemoved, GetCacheJar,
         GetCacheIcon, GetProjectIcon, UploadJar, UploadGate, StageUpload, EnqueueUpload, ApproveUpload,
         PromoteUpload, PromoteSave, Unstage, DecideUpload, SetUploadStatus, EditCatalog, SaveCheck, SaveWrite
<1>2. reqs[s].pc \notin Events
  BY DEF Handler, PutCacheJar, WriteToCache, DeleteCacheJar, DeleteJar, TakedownJar, TakedownBytes, ForgetIcon,
         RecordRemoved, RestoreJar, Restore, RestoreNothing, ListOfRemoved, LockRemoved, ReadRemoved, GetCacheJar,
         GetCacheIcon, GetProjectIcon, UploadJar, UploadGate, StageUpload, EnqueueUpload, ApproveUpload,
         PromoteUpload, PromoteSave, Unstage, DecideUpload, SetUploadStatus, EditCatalog, SaveCheck, SaveWrite,
         At, Events
<1>3. \A r \in Slots \ {s} : reqs'[r] = reqs[r]
  BY <1>t DEF Handler, PutCacheJar, WriteToCache, DeleteCacheJar, DeleteJar, TakedownJar, TakedownBytes, ForgetIcon,
         RecordRemoved, RestoreJar, Restore, RestoreNothing, WriteRemoved, ListOfRemoved, LockRemoved, ReadRemoved, GetCacheJar,
         GetCacheIcon, GetProjectIcon, UploadJar, UploadGate, StageUpload, EnqueueUpload, ApproveUpload,
         PromoteUpload, PromoteSave, Unstage, DecideUpload, SetUploadStatus, EditCatalog, SaveCheck, SaveWrite,
         Answer, Onward
<1>4. uploads' = uploads \/ reqs'[s].pc = "moderation"
  BY <1>t DEF Handler, PutCacheJar, WriteToCache, DeleteCacheJar, DeleteJar, TakedownJar, TakedownBytes, ForgetIcon,
         RecordRemoved, RestoreJar, Restore, RestoreNothing, WriteRemoved, ListOfRemoved, LockRemoved, ReadRemoved, GetCacheJar,
         GetCacheIcon, GetProjectIcon, UploadJar, UploadGate, StageUpload, EnqueueUpload, ApproveUpload,
         PromoteUpload, PromoteSave, Unstage, DecideUpload, SetUploadStatus, EditCatalog, SaveCheck, SaveWrite,
         Onward, cacheVars, Requests
<1>5. board' = board \/ \E x \in Servers : EditCatalog(s, x)
  BY DEF Handler, PutCacheJar, WriteToCache, DeleteCacheJar, DeleteJar, TakedownJar, TakedownBytes, ForgetIcon,
         RecordRemoved, RestoreJar, Restore, RestoreNothing, WriteRemoved, ListOfRemoved, LockRemoved, ReadRemoved, GetCacheJar,
         GetCacheIcon, GetProjectIcon, UploadJar, UploadGate, StageUpload, EnqueueUpload, ApproveUpload,
         PromoteUpload, PromoteSave, Unstage, DecideUpload, SetUploadStatus, SaveCheck, SaveWrite, cacheVars
<1>6. ASSUME NEW x \in Servers, EditCatalog(s, x)
      PROVE  /\ board' \in [servers : SUBSET Servers, featured : SUBSET Servers]
             /\ board' = board \/ reqs'[s].pc = "catalog"
  <2>1. board' \in [servers : SUBSET Servers, featured : SUBSET Servers]
    BY <1>t, <1>6 DEF EditCatalog, SaveServer, DeleteServer, SaveFeatured
  <2>2. CASE Onward(s, "catalog")
    BY <1>t, <2>1, <2>2 DEF Onward, Requests
  <2>3. CASE reqs[s].what = "drop" /\ x \notin board.servers
    BY <1>t, <1>6, <2>1, <2>3 DEF EditCatalog, DeleteServer
  <2> QED
    BY <1>6, <2>1, <2>2, <2>3 DEF EditCatalog
<1> QED
  BY <1>t, <1>1, <1>2, <1>3, <1>4, <1>5, <1>6

\* A stored change is on its way to every page that may hear of it as long as
\* some request is about to announce it.
LEMMA Announcing ==
    ASSUME ViewInv, UNCHANGED streamVars,
           board' \in [servers : SUBSET Servers, featured : SUBSET Servers],
           \A r \in Slots : reqs[r].pc \in Events => reqs'[r].pc = reqs[r].pc,
           uploads' = uploads \/ \E r \in Slots : reqs'[r].pc = "moderation",
           board' = board \/ \E r \in Slots : reqs'[r].pc = "catalog"
    PROVE  EarsType' /\ HearInv'
<1>1. EarsType'
  BY DEF ViewInv, EarsType, streamVars
<1>2. ASSUME NEW l \in Listeners, NEW k \in Events, ears[l] # None, k \notin ears[l].stale \cup ears[l].missed
      PROVE  \/ ears[l].view[k] = World(l, k)'
             \/ Reaches(k, ListenerRole[l]) /\ ((\E s \in Slots : reqs'[s].pc = k) \/ Unread(l, k))
  <2>1. CASE ears[l].view[k] = World(l, k)
    <3>1. CASE ~Reaches(k, ListenerRole[l])
      BY <2>1, <3>1 DEF Reaches, World, Events
    <3>2. CASE Reaches(k, ListenerRole[l])
      BY <2>1, <3>2 DEF World, ListUploads, Pending, ListServers, GetFeatured, Events
    <3> QED
      BY <3>1, <3>2
  <2>2. CASE Reaches(k, ListenerRole[l]) /\ ((\E s \in Slots : reqs[s].pc = k) \/ Unread(l, k))
    BY <2>2
  <2> QED
    BY <1>2, <2>1, <2>2 DEF ViewInv, HearInv
<1>3. HearInv'
  BY <1>2 DEF HearInv, Unread, streamVars
<1> QED
  BY <1>1, <1>3

\* An announcement follows what was stored, and is kept for every page that
\* has not read it.
LEMMA NudgeKeeps ==
    ASSUME ViewInv, NEW s \in Slots, Nudge(s)
    PROVE  EarsType' /\ HearInv'
<1> DEFINE e == reqs[s].pc
<1>1. /\ e \in Events /\ sent' = Append(sent, e) /\ UNCHANGED <<uploads, board, ears>>
      /\ reqs \in [Slots -> Requests] /\ reqs' = [reqs EXCEPT ![s] = Idle]
  BY DEF Nudge, Publish, Answer, cacheVars, ViewInv, CacheInv, TypeInv
<1>2. sent \in Seq(Events) /\ sent' \in Seq(Events) /\ Len(sent') = Len(sent) + 1 /\ sent'[Len(sent) + 1] = e
      /\ \A i \in 1..Len(sent) : sent'[i] = sent[i]
  BY <1>1 DEF ViewInv, EarsType
<1>3. \A l \in Listeners : ears[l] # None => ears[l].at \in 1..(Len(sent) + 1)
  BY DEF ViewInv, EarsType
<1> HIDE DEF e
<1>4. EarsType'
  BY <1>1, <1>2, <1>3 DEF ViewInv, EarsType
<1>5. ASSUME NEW l \in Listeners, NEW k \in Events, ears[l] # None, k \notin ears[l].stale \cup ears[l].missed
      PROVE  \/ ears[l].view[k] = World(l, k)
             \/ Reaches(k, ListenerRole[l]) /\ ((\E r \in Slots : reqs'[r].pc = k) \/ Unread(l, k)')
  <2>1. ears[l].at \in 1..(Len(sent) + 1) /\ Len(sent) \in Nat
    BY <1>2, <1>3, <1>5
  <2>2. e = k => Unread(l, k)'
    <3>1. Len(sent) + 1 \in ears[l].at..(Len(sent) + 1)
      BY <2>1
    <3> QED
      BY <1>1, <1>2, <3>1 DEF Unread
  <2>3. ASSUME NEW r \in Slots, reqs[r].pc = k PROVE reqs'[r].pc = k \/ Unread(l, k)'
    BY <1>1, <2>2, <2>3 DEF e
  <2>4. Unread(l, k) => Unread(l, k)'
    <3> SUFFICES ASSUME NEW i \in ears[l].at..Len(sent), sent[i] = k PROVE Unread(l, k)'
      BY DEF Unread
    <3>1. i \in ears[l].at..(Len(sent) + 1) /\ i \in 1..Len(sent)
      BY <2>1
    <3> QED
      BY <1>1, <1>2, <3>1 DEF Unread
  <2> QED
    BY <1>5, <2>3, <2>4 DEF ViewInv, HearInv
<1>6. \A l \in Listeners, k \in Events : World(l, k)' = World(l, k)
  BY <1>1 DEF World, ListUploads, Pending, ListServers, GetFeatured
<1>7. HearInv'
  BY <1>1, <1>5, <1>6 DEF HearInv
<1> QED
  BY <1>4, <1>7

-----------------------------------------------------------------------------
(* The pages *)

\* What a page's own step must not disturb: the queue, the lists, the
\* requests and the other pages.
LEMMA PageKeeps ==
    ASSUME ViewInv, NEW l \in Listeners, NEW ear \in Ears, ears' = [ears EXCEPT ![l] = ear],
           UNCHANGED <<sent, uploads, board, reqs>>, ear.at \in 1..(Len(sent) + 1),
           \A k \in Events \ (ear.stale \cup ear.missed) :
               \/ ear.view[k] = World(l, k)
               \/ /\ Reaches(k, ListenerRole[l])
                  /\ (\E s \in Slots : reqs[s].pc = k) \/ \E i \in ear.at..Len(sent) : sent[i] = k
    PROVE  EarsType' /\ HearInv'
<1>1. ears \in [Listeners -> Ears \cup {None}]
  BY DEF ViewInv, EarsType
<1>2. EarsType'
  BY <1>1 DEF ViewInv, EarsType
<1>3. \A m \in Listeners, k \in Events : World(m, k)' = World(m, k)
  BY DEF World, ListUploads, Pending, ListServers, GetFeatured
<1>4. ears'[l] = ear /\ \A m \in Listeners \ {l} : ears'[m] = ears[m]
  BY <1>1
<1>5. HearInv'
  BY <1>3, <1>4 DEF ViewInv, HearInv, Unread
<1> QED
  BY <1>2, <1>5

\* A page that opens the stream has everything to reread.
LEMMA SubscribeKeeps ==
    ASSUME ViewInv, NEW l \in Listeners, Subscribe(l), UNCHANGED <<uploads, board, reqs>>
    PROVE  EarsType' /\ HearInv'
<1> DEFINE ear == [at |-> Len(sent) + 1, stale |-> Events, missed |-> {}, view |-> [k \in Events |-> None]]
<1>1. Len(sent) \in Nat
  BY DEF ViewInv, EarsType
<1>2. ear \in Ears /\ ear.at \in 1..(Len(sent) + 1) /\ ear.stale = Events
  BY <1>1 DEF Ears, Views
<1>3. ears' = [ears EXCEPT ![l] = ear] /\ UNCHANGED sent
  BY DEF Subscribe
<1> HIDE DEF ear
<1> QED
  BY <1>2, <1>3, PageKeeps

\* What a page steps over was kept for it, or is a kind it now knows to reread,
\* or was dropped before it came.
LEMMA HearKeeps ==
    ASSUME ViewInv, NEW l \in Listeners, Hear(l), UNCHANGED <<uploads, board, reqs>>
    PROVE  EarsType' /\ HearInv'
<1> DEFINE old == ears[l]
           at == Recv(old.at, sent)
           ear == [old EXCEPT !.at = at + 1, !.stale = @ \cup HeardIn(l, at, at),
                              !.missed = @ \cup HeardIn(l, old.at, at - 1)]
<1>1. /\ ears \in [Listeners -> Ears \cup {None}] /\ old # None /\ sent \in Seq(Events)
      /\ old.at \in 1..(Len(sent) + 1)
  BY DEF ViewInv, EarsType, Hear
<1>2. old \in Ears
  BY <1>1
<1>3. ears' = [ears EXCEPT ![l] = ear] /\ UNCHANGED sent
  BY DEF Hear
<1>4. at \in 1..Len(sent) /\ old.at <= at
  BY <1>1, BacklogAssumption DEF Hear, Behind, Recv
<1>5. HeardIn(l, at, at) \subseteq Events /\ HeardIn(l, old.at, at - 1) \subseteq Events
  BY DEF HeardIn
<1>6. /\ ear.at = at + 1 /\ ear.view = old.view /\ ear.stale = old.stale \cup HeardIn(l, at, at)
      /\ ear.missed = old.missed \cup HeardIn(l, old.at, at - 1)
  BY <1>2 DEF Ears
<1>7. ear \in Ears
  <2>1. at + 1 \in Nat
    BY <1>4
  <2> HIDE DEF at
  <2> QED
    BY <1>2, <1>5, <2>1 DEF Ears
<1>8. ear.at \in 1..(Len(sent) + 1)
  BY <1>1, <1>4, <1>6
<1> HIDE DEF ear, at
<1>9. ASSUME NEW k \in Events \ (ear.stale \cup ear.missed)
      PROVE  \/ ear.view[k] = World(l, k)
             \/ /\ Reaches(k, ListenerRole[l])
                /\ (\E s \in Slots : reqs[s].pc = k) \/ \E i \in ear.at..Len(sent) : sent[i] = k
  <2>1. k \notin old.stale \cup old.missed /\ k \notin HeardIn(l, at, at) \cup HeardIn(l, old.at, at - 1)
    BY <1>6, <1>9
  <2>2. ASSUME Reaches(k, ListenerRole[l]), NEW i \in old.at..Len(sent), sent[i] = k
        PROVE  i \in ear.at..Len(sent)
    <3>1. i \notin at..at /\ i \notin old.at..(at - 1)
      BY <2>1, <2>2 DEF HeardIn
    <3> QED
      BY <1>1, <1>4, <1>6, <3>1
  <2>3. \/ old.view[k] = World(l, k)
        \/ /\ Reaches(k, ListenerRole[l])
           /\ (\E s \in Slots : reqs[s].pc = k) \/ \E i \in old.at..Len(sent) : sent[i] = k
    BY <1>1, <2>1 DEF ViewInv, HearInv, Unread
  <2> HIDE DEF old
  <2> QED
    BY <1>6, <2>2, <2>3
<1> QED
  BY <1>3, <1>7, <1>8, <1>9, PageKeeps

\* A view that is read again is right at that instant.
LEMMA RefetchKeeps ==
    ASSUME ViewInv, NEW l \in Listeners, NEW k \in Events, Refetch(l, k, World(l, k)),
           UNCHANGED <<uploads, board, reqs>>
    PROVE  EarsType' /\ HearInv'
<1> DEFINE old == ears[l]
           ear == [old EXCEPT !.stale = @ \ {k}, !.missed = @ \ {k}, !.view[k] = World(l, k)]
<1>1. /\ ears \in [Listeners -> Ears \cup {None}] /\ old # None /\ old.at \in 1..(Len(sent) + 1)
  BY DEF ViewInv, EarsType, Refetch
<1>2. old \in Ears /\ World(l, k) \in Views
  BY <1>1, WorldType DEF ViewInv
<1>3. ears' = [ears EXCEPT ![l] = ear] /\ UNCHANGED sent
  BY DEF Refetch
<1>4. /\ ear.at = old.at /\ ear.stale = old.stale \ {k} /\ ear.missed = old.missed \ {k}
      /\ ear.view = [old.view EXCEPT ![k] = World(l, k)] /\ ear \in Ears
  BY <1>2 DEF Ears
<1> HIDE DEF ear
<1>5. ear.view[k] = World(l, k) /\ \A j \in Events \ {k} : ear.view[j] = old.view[j]
  BY <1>2, <1>4 DEF Ears
<1>6. ASSUME NEW j \in Events \ (ear.stale \cup ear.missed)
      PROVE  \/ ear.view[j] = World(l, j)
             \/ /\ Reaches(j, ListenerRole[l])
                /\ (\E s \in Slots : reqs[s].pc = j) \/ \E i \in ear.at..Len(sent) : sent[i] = j
  <2>1. CASE j = k
    BY <1>5, <2>1
  <2>2. CASE j # k
    <3>1. j \notin old.stale \cup old.missed
      BY <1>4, <1>6, <2>2
    <3> QED
      BY <1>1, <1>4, <1>5, <2>2, <3>1 DEF ViewInv, HearInv, Unread
  <2> QED
    BY <2>1, <2>2
<1> QED
  BY <1>1, <1>3, <1>4, <1>6, PageKeeps

\* A pack's room is another channel.
LEMMA RoomKeeps ==
    ASSUME ViewInv, UNCHANGED <<sent, ears, uploads, board, reqs>>
    PROVE  EarsType' /\ HearInv'
<1>1. \A l \in Listeners, k \in Events : World(l, k)' = World(l, k)
  BY DEF World, ListUploads, Pending, ListServers, GetFeatured
<1>2. \A l \in Listeners, k \in Events : Unread(l, k)' = Unread(l, k)
  BY DEF Unread
<1>3. EarsType'
  BY DEF ViewInv, EarsType
<1>4. HearInv'
  BY <1>1, <1>2 DEF ViewInv, HearInv
<1> QED
  BY <1>3, <1>4

-----------------------------------------------------------------------------

\* A mirror just started has no page and no event.
LEMMA ViewInit == Init => ViewInv
<1> SUFFICES ASSUME Init PROVE ViewInv
  OBVIOUS
<1>1. CacheInv
  BY InitInv
<1>2. EarsType
  BY DEF Init, StreamsInit, EarsType
<1>3. HearInv
  BY DEF Init, StreamsInit, HearInv
<1> QED
  BY <1>1, <1>2, <1>3 DEF ViewInv

\* Every step of the mirror and of the pages keeps it: what is stored is
\* announced afterwards, and what was announced is kept, or known as stale, or
\* known as dropped.
LEMMA ViewStep == ViewInv /\ [Next]_vars => ViewInv'
<1> SUFFICES ASSUME ViewInv, [Next]_vars PROVE ViewInv'
  OBVIOUS
<1>1. CacheInv'
  BY StepInv DEF ViewInv
<1>t. /\ reqs \in [Slots -> Requests]
      /\ board \in [servers : SUBSET Servers, featured : SUBSET Servers]
  BY DEF ViewInv, CacheInv, TypeInv, EarsType
<1> SUFFICES EarsType' /\ HearInv'
  BY <1>1 DEF ViewInv
<1>2. CASE UNCHANGED <<uploads, board, reqs, streamVars>>
  BY <1>t, <1>2, Announcing
<1>3. ASSUME NEW s \in Slots, Arrive(s) PROVE EarsType' /\ HearInv'
  <2>1. reqs[s] = Idle /\ UNCHANGED <<uploads, board, streamVars>>
    BY <1>3 DEF Arrive, cacheVars
  <2>2. \A r \in Slots \ {s} : reqs'[r] = reqs[r]
    BY <1>t, <1>3 DEF Arrive
  <2>3. \A r \in Slots : reqs[r].pc \in Events => reqs'[r].pc = reqs[r].pc
    BY <2>1, <2>2 DEF Idle, Events
  <2> QED
    BY <1>t, <2>1, <2>3, Announcing
<1>4. ASSUME NEW s \in Slots, Handler(s) PROVE EarsType' /\ HearInv'
  <2>1. CASE Nudge(s)
    BY <2>1, NudgeKeeps
  <2>2. CASE ~Nudge(s)
    <3>1. /\ UNCHANGED streamVars
          /\ reqs[s].pc \notin Events
          /\ \A r \in Slots \ {s} : reqs'[r] = reqs[r]
          /\ uploads' = uploads \/ reqs'[s].pc = "moderation"
          /\ board' = board \/ reqs'[s].pc = "catalog"
          /\ board' \in [servers : SUBSET Servers, featured : SUBSET Servers]
      BY <1>4, <2>2, Announces
    <3> QED
      BY <3>1, Announcing
  <2> QED
    BY <2>1, <2>2
<1>5. CASE \E p \in Projects : PictureAges(p)
  BY <1>2, <1>5 DEF PictureAges
<1>6. CASE (\E size \in 0..2 : StartWalk(size)) \/ InventoryDir
  BY <1>2, <1>6 DEF StartWalk, InventoryDir
<1>7. CASE Pages /\ UNCHANGED <<cacheVars, reqs, menu>>
  <2>1. UNCHANGED <<uploads, board, reqs>>
    BY <1>7 DEF cacheVars
  <2>2. ASSUME NEW l \in Listeners, Subscribe(l) \/ Hear(l) \/ \E k \in Events : Refetch(l, k, World(l, k))
        PROVE  EarsType' /\ HearInv'
    BY <2>1, <2>2, SubscribeKeeps, HearKeeps, RefetchKeeps
  <2>3. ASSUME NEW t \in Tabs, Announce(t) \/ PackEvents(t) \/ Leave(t) PROVE EarsType' /\ HearInv'
    BY <2>1, <2>3, RoomKeeps DEF Announce, PackEvents, Leave
  <2> QED
    BY <1>7, <2>2, <2>3 DEF Pages
<1>8. ASSUME NEW t \in Tabs, Enter(t) PROVE EarsType' /\ HearInv'
  BY <1>8, RoomKeeps DEF Enter, Join, cacheVars
<1>9. CASE UNCHANGED vars
  BY <1>2, <1>9 DEF vars, cacheVars
<1> QED
  BY <1>3, <1>4, <1>5, <1>6, <1>7, <1>8, <1>9 DEF Next

\* A page that has read all it was sent has nothing of it left unread: the
\* channel keeps at least one event.
LEMMA CurrentFollows == ViewInv => CaughtUpIsCurrent
<1> SUFFICES ASSUME ViewInv, NEW l \in Listeners, NEW k \in Events,
                    ears[l] # None, k \notin ears[l].stale \cup ears[l].missed, ~Behind(ears[l].at, sent)
             PROVE  ears[l].view[k] = World(l, k) \/ \E s \in Slots : reqs[s].pc = k
  BY DEF CaughtUpIsCurrent
<1>1. ears[l].at \in 1..(Len(sent) + 1) /\ Len(sent) \in Nat
  BY DEF ViewInv, EarsType
<1>2. ears[l].at > Len(sent)
  BY <1>1, BacklogAssumption DEF Behind, Recv
<1>3. ~Unread(l, k)
  BY <1>1, <1>2 DEF Unread
<1> QED
  BY <1>3 DEF ViewInv, HearInv

\* A page that hears the mirror's events and rereads on them shows the queue of
\* uploads and the curated lists as they are, for any number of pages, requests
\* and events in between, as soon as every stored change has been announced --
\* unless an event of that very kind was dropped before the page came for it.
\* The handlers publish after they store (events.rs), and a page rereads
\* everything once its stream is open (mirror.svelte.ts, a reconnection).
THEOREM ViewsCatchUp == Spec => []CaughtUpIsCurrent
<1> QED
  BY ViewInit, ViewStep, CurrentFollows, PTL DEF Spec

-----------------------------------------------------------------------------
(* Numbers *)

\* A nonempty set of numbers has a least element, and Least is it.
LEMMA LeastIs ==
    ASSUME NEW S, S \subseteq Nat, S # {}
    PROVE  Least(S) \in S /\ \A x \in S : Least(S) <= x
<1> DEFINE R == OpToRel(<, Nat)
<1>1. IsWellFoundedOn(R, Nat)
  BY NatLessThanWellFounded
<1>2. PICK x \in S : \A y \in S : ~ (<<y, x>> \in R)
  <2> HIDE DEF R
  <2> QED
    BY <1>1, WFMin
<1>3. \A y \in S : x <= y
  <2> SUFFICES ASSUME NEW y \in S, ~(x <= y) PROVE FALSE
    OBVIOUS
  <2>1. x \in Nat /\ y \in Nat /\ y < x
    OBVIOUS
  <2>2. <<y, x>> \in R
    BY <2>1, Zenon DEF OpToRel
  <2> QED
    BY <1>2, <2>2
<1> QED
  BY <1>3 DEF Least

\* A finite nonempty set of numbers has a greatest element, and Greatest is it:
\* the one with the fewest elements above.
LEMMA GreatestIs ==
    ASSUME NEW S, S \subseteq Nat, S # {}, IsFiniteSet(S)
    PROVE  Greatest(S) \in S /\ \A x \in S : x <= Greatest(S)
<1> DEFINE Above(x) == {y \in S : y > x}
           T == {Cardinality(Above(x)) : x \in S}
<1>1. \A x \in S : IsFiniteSet(Above(x)) /\ Cardinality(Above(x)) \in Nat
  BY FS_Subset, FS_CardinalityType
<1>2. T \subseteq Nat /\ T # {}
  BY <1>1
<1>3. PICK m \in S : \A x \in S : Cardinality(Above(m)) <= Cardinality(Above(x))
  <2>1. Least(T) \in T /\ \A n \in T : Least(T) <= n
    <3> HIDE DEF T
    <3> QED
      BY <1>2, LeastIs
  <2> QED
    BY <2>1
<1>4. \A x \in S : x <= m
  <2> SUFFICES ASSUME NEW x \in S, ~(x <= m) PROVE FALSE
    OBVIOUS
  <2>1. x \in Nat /\ m \in Nat /\ x > m
    OBVIOUS
  <2>2. Above(x) \subseteq Above(m) /\ x \in Above(m) /\ x \notin Above(x)
    <3>1. \A y \in S : y \in Nat /\ (y > x => y > m)
      BY <2>1
    <3>2. x > m /\ ~(x > x)
      BY <2>1
    <3> QED
      BY <3>1, <3>2
  <2>3. Cardinality(Above(m)) = Cardinality(Above(x))
    <3>1. Cardinality(Above(x)) <= Cardinality(Above(m))
      BY <1>1, <2>2, FS_Subset
    <3>2. Cardinality(Above(m)) <= Cardinality(Above(x))
      BY <1>3
    <3> HIDE DEF Above
    <3> QED
      BY <1>1, <3>1, <3>2
  <2>4. Above(x) = Above(m)
    BY <1>1, <2>2, <2>3, FS_Subset
  <2> QED
    BY <2>2, <2>4
<1> QED
  BY <1>4 DEF Greatest

-----------------------------------------------------------------------------
(* A page of rows *)

\* The rows of a page are the first ones.
LEMMA FirstDown ==
    ASSUME NEW S, S \subseteq Nat, IsFiniteSet(S), NEW n \in Nat,
           NEW x \in FirstOf(S, n), NEW y \in S, y <= x
    PROVE  y \in FirstOf(S, n)
<1> DEFINE Under(z) == {w \in S : w < z}
<1>1. \A z \in S : IsFiniteSet(Under(z)) /\ Cardinality(Under(z)) \in Nat
  BY FS_Subset, FS_CardinalityType
<1>2. x \in S /\ Cardinality(Under(x)) < n
  BY DEF FirstOf
<1>3. Under(y) \subseteq Under(x)
  <2>1. x \in Nat /\ y \in Nat /\ \A w \in S : w \in Nat
    BY <1>2
  <2>2. \A w \in S : w < y => w < x
    BY <2>1
  <2> QED
    BY <2>2
<1>4. Cardinality(Under(y)) <= Cardinality(Under(x))
  BY <1>1, <1>2, <1>3, FS_Subset
<1>5. Cardinality(Under(y)) < n
  <2> HIDE DEF Under
  <2> QED
    BY <1>1, <1>2, <1>4
<1> QED
  BY <1>5 DEF FirstOf

\* A page that has room for every row holds every row.
LEMMA FirstAll ==
    ASSUME NEW S, S \subseteq Nat, IsFiniteSet(S), NEW n \in Nat, Cardinality(S) <= n
    PROVE  FirstOf(S, n) = S
<1>1. ASSUME NEW x \in S PROVE x \in FirstOf(S, n)
  <2> DEFINE U == {y \in S : y < x}
  <2>1. U \subseteq S \ {x}
    OBVIOUS
  <2>2. IsFiniteSet(S \ {x}) /\ Cardinality(S \ {x}) = Cardinality(S) - 1
    BY FS_RemoveElement
  <2>3. IsFiniteSet(U) /\ Cardinality(U) <= Cardinality(S \ {x})
    BY <2>1, <2>2, FS_Subset
  <2>4. Cardinality(U) \in Nat /\ Cardinality(S) \in Nat
    BY <2>3, FS_CardinalityType
  <2> HIDE DEF U
  <2>5. Cardinality(U) < n
    BY <2>2, <2>3, <2>4
  <2> QED
    BY <2>5 DEF U, FirstOf
<1> QED
  BY <1>1 DEF FirstOf

\* A page is full when there are rows enough.
LEMMA FirstEnough ==
    ASSUME NEW S, S \subseteq Nat, IsFiniteSet(S), NEW n \in Nat, Cardinality(S) >= n
    PROVE  Cardinality(FirstOf(S, n)) >= n
<1> DEFINE F == FirstOf(S, n)
<1>1. F \subseteq S /\ IsFiniteSet(F) /\ Cardinality(F) \in Nat
  BY FS_Subset, FS_CardinalityType DEF FirstOf
<1>2. CASE F = S
  BY <1>2
<1>3. CASE F # S
  <2> DEFINE m == Least(S \ F)
  <2>1. m \in S \ F /\ \A x \in S \ F : m <= x
    <3>1. S \ F \subseteq Nat /\ S \ F # {}
      BY <1>1, <1>3
    <3> HIDE DEF F
    <3> QED
      BY <3>1, LeastIs
  <2> DEFINE U == {y \in S : y < m}
  <2>2. U \subseteq F
    <3> HIDE DEF F, m
    <3>1. \A y \in S \ F : y \in Nat /\ m \in Nat /\ ~(y < m)
      BY <2>1
    <3> QED
      BY <3>1
  <2>3. ~(Cardinality(U) < n)
    <3> HIDE DEF m
    <3> QED
      BY <2>1 DEF FirstOf
  <2>4. Cardinality(U) <= Cardinality(F) /\ Cardinality(U) \in Nat
    BY <1>1, <2>2, FS_Subset, FS_CardinalityType
  <2>5. Cardinality(F) >= n
    <3> HIDE DEF U, F
    <3> QED
      BY <1>1, <2>3, <2>4
  <2> QED
    BY <2>5
<1> QED
  BY <1>2, <1>3

-----------------------------------------------------------------------------
(* Paging through the inventory *)

\* Past the cursor of the page asked for.
Beyond(x) == walk.after # None => x > walk.after

\* A page in the making: what was listed is up to the cursor, what was found is
\* past it, and a jar that was there from the first page on is listed, found, or
\* in a directory still to be opened -- and those come after all that was found.
PageOK ==
    /\ walk.pc = "dirs" => walk.here = {}
    /\ \A x \in walk.listed : ~Beyond(x)
    /\ \A x \in walk.out \cup walk.here : Beyond(x)
    /\ \A x \in walk.steady : Beyond(x) \/ x \in walk.listed
    /\ \A x \in walk.steady : Beyond(x) =>
          x \in walk.out \cup walk.here \/ Sha1Shard(x) \in walk.left
    /\ \A x \in walk.out \cup walk.here, d \in walk.left :
          (walk.after # None => d >= Sha1Shard(walk.after)) => Sha1Shard(x) < d

PageInv ==
    /\ dirs \subseteq Nat
    /\ walk \in Walks
    /\ \A x \in disk : Sha1Shard(x) \in dirs
    /\ walk.steady \subseteq disk
    /\ walk.twice = FALSE
    /\ walk.pc \in {"dirs", "stat"} => PageOK
    /\ walk.pc = "done" => walk.steady \subseteq walk.listed

\* The rows a page is cut from: found jars only, none skipped that was there
\* all along, and all of those when the page is the last.
RowsOK(rows) ==
    /\ rows \subseteq walk.out \cup walk.here
    /\ \A x \in walk.steady, r \in rows : Beyond(x) /\ x <= r => x \in rows
    /\ walk.size = 0 \/ Cardinality(rows) <= walk.size => {x \in walk.steady : Beyond(x)} \subseteq rows

\* A page that is answered leaves nothing behind and repeats nothing: its cursor
\* is its last row, and every row up to it is on it.
LEMMA SplitKeeps ==
    ASSUME PageInv, disk \subseteq Shas, walk.pc \in {"dirs", "stat"}, NEW rows, RowsOK(rows),
           walk' = Split(rows), UNCHANGED <<disk, dirs>>
    PROVE  PageInv'
<1> DEFINE page == IF walk.size = 0 THEN rows ELSE FirstOf(rows, walk.size)
           more == walk.size # 0 /\ Cardinality(rows) > walk.size
           g == Greatest(page)
<1>1. walk \in Walks /\ PageOK
  BY DEF PageInv
<1>2. /\ walk.size \in Nat /\ walk.after \in Shas \cup {None} /\ walk.listed \subseteq Shas
      /\ walk.out \cup walk.here \subseteq Shas /\ walk.steady \subseteq Shas
  BY <1>1 DEF Walks
<1>3. rows \subseteq Shas /\ rows \subseteq Nat /\ IsFiniteSet(rows) /\ Cardinality(rows) \in Nat
  BY <1>2, FinitelyManyJars, JarsAreNumbers, FS_Subset, FS_CardinalityType DEF RowsOK
<1>4. page \subseteq rows /\ IsFiniteSet(page)
  BY <1>3, FS_Subset DEF FirstOf
<1>5. more => page # {} /\ g \in page /\ \A x \in page : x <= g
  <2> SUFFICES ASSUME more PROVE page # {} /\ g \in page /\ \A x \in page : x <= g
    OBVIOUS
  <2>1. Cardinality(page) >= walk.size /\ walk.size > 0
    <3>1. Cardinality(rows) >= walk.size /\ walk.size > 0 /\ walk.size \in Nat
      BY <1>2, <1>3
    <3>2. Cardinality(FirstOf(rows, walk.size)) >= walk.size
      BY <1>3, <3>1, FirstEnough
    <3> QED
      BY <3>1, <3>2
  <2>2. page # {}
    <3> HIDE DEF page
    <3> QED BY <1>2, <2>1, FS_EmptySet
  <2>3. page \subseteq Nat
    <3> HIDE DEF page
    <3> QED BY <1>3, <1>4
  <2> HIDE DEF page
  <2> QED
    BY <1>4, <2>2, <2>3, GreatestIs
<1>6. \A x \in walk.steady : more /\ Beyond(x) /\ x <= g => x \in page
  <2> SUFFICES ASSUME NEW x \in walk.steady, more, Beyond(x), x <= g PROVE x \in page
    BY Zenon
  <2>1. g \in page /\ g \in rows
    BY <1>4, <1>5
  <2>2. x \in rows
    <3> HIDE DEF g, page
    <3> QED BY <2>1 DEF RowsOK
  <2>3. page = FirstOf(rows, walk.size)
    OBVIOUS
  <2> HIDE DEF page, g
  <2> QED
    BY <1>2, <1>3, <2>1, <2>2, <2>3, FirstDown
<1>7. ~more => page = rows
  <2>1. CASE walk.size = 0
    BY <2>1
  <2>2. CASE walk.size # 0 /\ ~(Cardinality(rows) > walk.size)
    <3>1. Cardinality(rows) <= walk.size /\ walk.size \in Nat
      BY <1>2, <1>3, <2>2
    <3>2. FirstOf(rows, walk.size) = rows
      BY <1>3, <3>1, FirstAll
    <3> QED
      BY <2>2, <3>2
  <2> QED
    BY <2>1, <2>2
<1>8. ~more => {x \in walk.steady : Beyond(x)} \subseteq page
  <2>1. ~more => walk.size = 0 \/ Cardinality(rows) <= walk.size
    BY <1>2, <1>3
  <2> HIDE DEF page, more
  <2> QED
    BY <1>7, <2>1 DEF RowsOK
<1>9. page \cap walk.listed = {} /\ \A x \in page : Beyond(x)
  <2> HIDE DEF page
  <2> QED
    BY <1>1, <1>4 DEF PageOK, RowsOK
<1>10. walk' = [walk EXCEPT !.pc = IF more THEN "dirs" ELSE "done", !.out = {}, !.here = {},
                     !.listed = @ \cup page, !.twice = @ \/ page \cap walk.listed # {},
                     !.after = IF more THEN g ELSE @, !.left = dirs]
  BY DEF Split
<1>11. page \subseteq Shas /\ g \in page => g \in Shas
  <2> HIDE DEF page, g
  <2> QED BY <1>3, <1>4
<1> HIDE DEF page, g, more
<1>12. /\ walk'.pc = IF more THEN "dirs" ELSE "done"
       /\ walk'.out = {} /\ walk'.here = {} /\ walk'.listed = walk.listed \cup page
       /\ walk'.after = (IF more THEN g ELSE walk.after) /\ walk'.left = dirs
       /\ walk'.size = walk.size /\ walk'.steady = walk.steady
  BY <1>1, <1>10 DEF Walks
<1>13. walk'.twice = (walk.twice \/ page \cap walk.listed # {})
  BY <1>1, <1>10 DEF Walks
<1>14. walk'.twice = FALSE
  BY <1>9, <1>13 DEF PageInv
<1>15. walk' \in Walks
  <2> DEFINE pc == IF more THEN "dirs" ELSE "done"
             after == IF more THEN g ELSE walk.after
             listed == walk.listed \cup page
  <2>1. page \subseteq Shas
    BY <1>3, <1>4
  <2>2. after \in Shas \cup {None} /\ listed \in SUBSET Shas
    BY <1>2, <1>5, <2>1
  <2>3. pc \in {"rest", "dirs", "stat", "done", "failed"}
    OBVIOUS
  <2>4. dirs \in SUBSET Nat
    BY DEF PageInv
  <2>5. walk' = [walk EXCEPT !.pc = pc, !.out = {}, !.here = {}, !.listed = listed, !.twice = FALSE,
                             !.after = after, !.left = dirs]
    BY <1>9, <1>10 DEF PageInv
  <2> HIDE DEF pc, after, listed
  <2> QED
    BY <1>1, <2>2, <2>3, <2>4, <2>5 DEF Walks
<1>16. walk'.pc \in {"dirs", "stat"} => PageOK'
  <2> SUFFICES ASSUME more PROVE PageOK'
    BY <1>12
  <2>1. g \in Shas /\ g \in Nat /\ Beyond(g) /\ g # None
    BY <1>5, <1>9, <1>3, <1>4, JarsAreNumbers
  <2>2. \A x \in Shas : x \in Nat
    BY JarsAreNumbers
  <2>3. \A x : Beyond(x)' <=> x > g
    BY <1>12, <2>1 DEF Beyond
  <2>4. \A x \in walk'.listed : ~Beyond(x)'
    <3>1. \A x \in page : ~(x > g)
      BY <1>3, <1>4, <1>5, <2>1, <2>2
    <3>2. ASSUME NEW x \in walk.listed PROVE ~(x > g)
      <4>1. walk.after # None /\ ~(x > walk.after) /\ g > walk.after
        BY <1>1, <2>1 DEF PageOK, Beyond
      <4>2. x \in Nat /\ walk.after \in Nat /\ g \in Nat
        BY <1>2, <2>1, <2>2, <4>1
      <4> QED
        BY <4>1, <4>2
    <3> QED
      BY <1>12, <2>3, <3>1, <3>2
  <2>5. \A x \in walk'.steady : Beyond(x)' \/ x \in walk'.listed
    <3> SUFFICES ASSUME NEW x \in walk.steady, ~(x > g) PROVE x \in walk.listed \cup page
      BY <1>12, <2>3
    <3>1. x \in Nat /\ g \in Nat
      BY <1>2, <2>1, <2>2
    <3>2. x <= g
      BY <3>1
    <3> QED
      BY <1>1, <1>6, <3>2 DEF PageOK
  <2>6. \A x \in walk'.steady : Sha1Shard(x) \in walk'.left
    BY <1>12 DEF PageInv
  <2> QED
    BY <1>12, <2>4, <2>5, <2>6 DEF PageOK, Sha1Shard
<1>17. walk'.pc = "done" => walk'.steady \subseteq walk'.listed
  <2> SUFFICES ASSUME ~more PROVE walk.steady \subseteq walk.listed \cup page
    BY <1>12
  <2> QED
    BY <1>1, <1>8 DEF PageOK
<1>18. walk'.steady \subseteq disk' /\ dirs' \subseteq Nat /\ \A x \in disk' : (Sha1Shard(x) \in dirs)'
  BY <1>12 DEF PageInv, Sha1Shard
<1> QED
  BY <1>14, <1>15, <1>16, <1>17, <1>18 DEF PageInv, Sha1Shard

\* The directories come in the order of the jars in them.
LEMMA ShardsFollow ==
    ASSUME NEW a \in Shas, NEW b \in Shas, b > a
    PROVE  Sha1Shard(a) \in Nat /\ Sha1Shard(b) \in Nat /\ Sha1Shard(b) >= Sha1Shard(a)
<1>1. a < b /\ Prefix[a] \in Nat /\ Prefix[b] \in Nat
  BY JarsAreNumbers, PrefixIsOrdered
<1>2. Prefix[a] <= Prefix[b]
  BY <1>1, PrefixIsOrdered
<1> QED
  BY <1>1, <1>2 DEF Sha1Shard

\* A jar past the cursor is in no directory that the page skips.
LEMMA NoneSkipped ==
    ASSUME walk \in Walks, NEW x \in Shas, Beyond(x), walk.after # None
    PROVE  Sha1Shard(x) >= Sha1Shard(walk.after)
<1>1. walk.after \in Shas /\ x > walk.after
  BY DEF Walks, Beyond
<1> QED
  BY <1>1, ShardsFollow

\* A step of a walk that only changes the walk, keeping what is said of the
\* whole of it.
LEMMA WalkKeeps ==
    ASSUME PageInv, NEW w \in Walks, walk' = w, UNCHANGED <<disk, dirs>>,
           w.steady = walk.steady, w.twice = FALSE, w.pc # "done",
           w.pc \in {"dirs", "stat"} => PageOK'
    PROVE  PageInv'
BY DEF PageInv, Sha1Shard

\* Opening the next directory: the jars found before are of earlier ones, and
\* those that were there all along in a later one are still to come.
LEMMA OpenKeeps ==
    ASSUME PageInv, disk \subseteq Shas, walk.pc = "dirs", UNCHANGED <<disk, dirs>>,
           NEW open, open = {d \in walk.left : walk.after # None => d >= Sha1Shard(walk.after)}, open # {},
           walk' = [walk EXCEPT !.pc = "stat", !.left = open \ {Least(open)},
                                !.here = {x \in disk : /\ Sha1Shard(x) = Least(open)
                                                       /\ walk.after # None => x > walk.after}]
    PROVE  PageInv'
<1> DEFINE d0 == Least(open)
           here == {x \in disk : Sha1Shard(x) = d0 /\ Beyond(x)}
<1>1. walk \in Walks /\ PageOK /\ walk.here = {} /\ walk.steady \subseteq disk
  BY DEF PageInv, PageOK
<1>2. /\ walk.after \in Shas \cup {None} /\ walk.out \subseteq Shas /\ walk.steady \subseteq Shas
      /\ walk.left \subseteq Nat
  BY <1>1 DEF Walks
<1>3. open \subseteq Nat /\ open \subseteq walk.left
  BY <1>2
<1>4. d0 \in open /\ \A d \in open : d0 <= d
  BY <1>3, LeastIs
<1>5. walk' = [walk EXCEPT !.pc = "stat", !.left = open \ {d0}, !.here = here]
  BY DEF Beyond
<1> HIDE DEF d0
<1>6. here \subseteq Shas /\ open \ {d0} \subseteq Nat
  BY <1>3
<1>h. here \subseteq disk /\ \A x \in here : Sha1Shard(x) = d0 /\ Beyond(x)
  OBVIOUS
<1>g. \A x \in disk : Sha1Shard(x) = d0 /\ Beyond(x) => x \in here
  OBVIOUS
<1> HIDE DEF here
<1>7. walk' \in Walks
  BY <1>1, <1>5, <1>6 DEF Walks
<1>8. /\ walk'.pc = "stat" /\ walk'.left = open \ {d0} /\ walk'.here = here /\ walk'.out = walk.out
      /\ walk'.after = walk.after /\ walk'.listed = walk.listed /\ walk'.steady = walk.steady
      /\ walk'.twice = walk.twice
  BY <1>1, <1>5 DEF Walks
<1>9. \A x : Beyond(x)' = Beyond(x)
  BY <1>8 DEF Beyond
<1>10. \A x \in Shas : Sha1Shard(x) \in Nat
  BY PrefixIsOrdered DEF Sha1Shard
<1>11. ASSUME NEW x \in walk.steady, Beyond(x), x \notin walk.out PROVE Sha1Shard(x) \in open
  <2>1. Sha1Shard(x) \in walk.left
    BY <1>1, <1>11 DEF PageOK
  <2>2. walk.after # None => Sha1Shard(x) >= Sha1Shard(walk.after)
    BY <1>1, <1>2, <1>11, NoneSkipped
  <2> QED
    BY <2>1, <2>2
<1>12. PageOK'
  <2>1. \A x \in walk'.steady : Beyond(x) =>
          x \in walk'.out \cup walk'.here \/ Sha1Shard(x) \in walk'.left
    BY <1>1, <1>8, <1>11, <1>g
  <2>2. ASSUME NEW x \in walk.out \cup here, NEW d \in open \ {d0} PROVE Sha1Shard(x) < d
    <3>1. CASE x \in walk.out
      BY <1>1, <2>2, <3>1 DEF PageOK
    <3>2. CASE x \in here
      <4>1. Sha1Shard(x) = d0 /\ d \in Nat /\ d0 \in Nat /\ d0 <= d /\ d # d0
        BY <1>3, <1>4, <1>h, <3>2
      <4> QED
        BY <4>1
    <3> QED
      BY <3>1, <3>2
  <2>3. \A x \in walk'.out \cup walk'.here : Beyond(x)
    BY <1>1, <1>8, <1>h DEF PageOK
  <2>4. \A x \in walk'.listed : ~Beyond(x)
    BY <1>1, <1>8 DEF PageOK
  <2>5. \A x \in walk'.steady : Beyond(x) \/ x \in walk'.listed
    BY <1>1, <1>8 DEF PageOK
  <2> QED
    BY <1>8, <1>9, <2>1, <2>2, <2>3, <2>4, <2>5 DEF PageOK, Sha1Shard
<1>13. walk'.twice = FALSE
  BY <1>8 DEF PageInv
<1> QED
  BY <1>7, <1>8, <1>12, <1>13, WalkKeeps

\* A directory is measured, and either fails the page, or joins what was found,
\* or fills the page: then every jar still to come is past its last row.
LEMMA StatKeeps ==
    ASSUME PageInv, disk \subseteq Shas, walk.pc = "stat", InventoryDir
    PROVE  PageInv'
<1> DEFINE out == walk.out \cup walk.here
           enough == walk.size # 0 /\ Cardinality(out) >= Probe(walk.size)
<1>1. walk \in Walks /\ PageOK
  BY DEF PageInv
<1>2. /\ walk.after \in Shas \cup {None} /\ out \subseteq Shas /\ walk.steady \subseteq Shas
      /\ walk.left \subseteq Nat /\ walk.size \in Nat
  BY <1>1 DEF Walks
<1>3. out \subseteq Nat /\ IsFiniteSet(out) /\ Cardinality(out) \in Nat
  BY <1>2, FinitelyManyJars, JarsAreNumbers, FS_Subset, FS_CardinalityType
<1>4. UNCHANGED <<disk, dirs>>
  BY DEF InventoryDir
<1>5. CASE walk' = [walk EXCEPT !.pc = "failed"]
  <2>1. walk' \in Walks /\ walk'.pc = "failed" /\ walk'.steady = walk.steady /\ walk'.twice = walk.twice
    BY <1>1, <1>5 DEF Walks
  <2>2. walk'.twice = FALSE
    BY <2>1 DEF PageInv
  <2> QED
    BY <1>4, <2>1, <2>2, WalkKeeps
<1>6. CASE ~enough /\ walk' = [walk EXCEPT !.pc = "dirs", !.out = out, !.here = {}]
  <2> HIDE DEF out, enough
  <2>1. walk' \in Walks
    BY <1>1, <1>2, <1>6 DEF Walks
  <2>2. /\ walk'.pc = "dirs" /\ walk'.here = {} /\ walk'.out = out /\ walk'.left = walk.left
        /\ walk'.after = walk.after /\ walk'.listed = walk.listed /\ walk'.steady = walk.steady
        /\ walk'.twice = walk.twice
    BY <1>1, <1>6 DEF Walks
  <2>3. \A x : Beyond(x)' = Beyond(x)
    BY <2>2 DEF Beyond
  <2>4. PageOK'
    BY <1>1, <2>2, <2>3 DEF PageOK, Sha1Shard, out
  <2>5. walk'.twice = FALSE
    BY <2>2 DEF PageInv
  <2> QED
    BY <1>4, <2>1, <2>2, <2>4, <2>5, WalkKeeps
<1>7. CASE enough /\ walk' = Split(FirstOf(out, Probe(walk.size)))
  <2> DEFINE rows == FirstOf(out, Probe(walk.size))
  <2>1. Probe(walk.size) \in Nat /\ Probe(walk.size) = walk.size + 1
    BY <1>2 DEF Probe
  <2>2. rows \subseteq out /\ IsFiniteSet(rows) /\ Cardinality(rows) \in Nat
    <3>1. rows \subseteq out
      BY DEF FirstOf
    <3> HIDE DEF rows, out
    <3> QED
      BY <1>3, <3>1, FS_Subset, FS_CardinalityType
  <2>3. Cardinality(rows) >= Probe(walk.size) /\ walk.size # 0
    BY <1>3, <1>7, <2>1, FirstEnough
  <2>4. ASSUME NEW x \in walk.steady, NEW r \in rows, Beyond(x), x <= r PROVE x \in rows
    <3>1. x \in out
      <4> SUFFICES ASSUME x \notin out PROVE FALSE
        OBVIOUS
      <4> HIDE DEF rows
      <4>1. Sha1Shard(x) \in walk.left
        BY <1>1, <2>4 DEF PageOK
      <4>2. x \in Shas /\ r \in Shas /\ x \in Nat /\ r \in Nat /\ r \in out /\ x # r
        BY <1>2, <2>2, JarsAreNumbers
      <4>3. Sha1Shard(x) \in Nat /\ Sha1Shard(r) \in Nat /\ Sha1Shard(r) >= Sha1Shard(x)
        <5>1. r > x
          BY <2>4, <4>2
        <5> QED
          BY <4>2, <5>1, ShardsFollow
      <4>4. walk.after # None => Sha1Shard(x) >= Sha1Shard(walk.after)
        BY <1>1, <2>4, <4>2, NoneSkipped
      <4>5. Sha1Shard(r) < Sha1Shard(x)
        BY <1>1, <4>1, <4>2, <4>4 DEF PageOK
      <4> QED
        BY <4>3, <4>5
    <3> QED
      BY <1>3, <2>1, <2>4, <3>1, FirstDown
  <2>5. RowsOK(rows)
    <3> HIDE DEF rows
    <3>1. ~(walk.size = 0 \/ Cardinality(rows) <= walk.size)
      BY <1>2, <2>1, <2>2, <2>3
    <3> QED
      BY <2>2, <2>4, <3>1 DEF RowsOK
  <2> QED
    BY <1>4, <1>7, <2>5, SplitKeeps
<1> QED
  BY <1>5, <1>6, <1>7 DEF InventoryDir

\* Every step of a page.
LEMMA InventoryKeeps ==
    ASSUME PageInv, disk \subseteq Shas, InventoryDir
    PROVE  PageInv'
<1> DEFINE open == {d \in walk.left : walk.after # None => d >= Sha1Shard(walk.after)}
<1>1. UNCHANGED <<disk, dirs>>
  BY DEF InventoryDir
<1>2. CASE walk.pc = "dirs" /\ open # {}
  <2>1. walk' = [walk EXCEPT !.pc = "stat", !.left = open \ {Least(open)},
                                !.here = {x \in disk : /\ Sha1Shard(x) = Least(open)
                                                       /\ walk.after # None => x > walk.after}]
    BY <1>2 DEF InventoryDir
  <2> HIDE DEF open
  <2> QED
    BY <1>1, <1>2, <2>1, OpenKeeps DEF open
<1>3. CASE walk.pc = "dirs" /\ open = {}
  <2>1. walk' = Split(walk.out) /\ PageOK
    BY <1>3 DEF InventoryDir, PageInv
  <2>2. walk \in Walks
    BY DEF PageInv
  <2>3. /\ walk.after \in Shas \cup {None} /\ walk.steady \subseteq Shas /\ walk.here = {}
        /\ walk.left \subseteq Nat
    BY <1>3, <2>1, <2>2 DEF Walks, PageOK
  <2>4. ASSUME NEW x \in walk.steady, Beyond(x), x \notin walk.out PROVE FALSE
    <3>1. Sha1Shard(x) \in walk.left
      BY <2>1, <2>3, <2>4 DEF PageOK
    <3>2. walk.after # None => Sha1Shard(x) >= Sha1Shard(walk.after)
      BY <2>2, <2>3, <2>4, NoneSkipped
    <3> QED
      BY <1>3, <3>1, <3>2
  <2>5. RowsOK(walk.out)
    BY <2>4 DEF RowsOK
  <2> QED
    BY <1>1, <1>3, <2>1, <2>5, SplitKeeps
<1> QED
  BY <1>2, <1>3, StatKeeps DEF InventoryDir

-----------------------------------------------------------------------------
(* All of JarCache's state *)

\* What no proof above needed to know: the files beside the jars, the lock's
\* holder, and the pack's room.
Rosters == SUBSET {LoginOf[u] : u \in Tabs}

TabStates == [pc : {"away", "joining", "here", "leaving"}, at : Nat, roster : Rosters, shown : Rosters]

RoomType ==
    /\ log \in Seq(Rosters)
    /\ tabs \in [Tabs -> TabStates]
    /\ \A t \in Tabs : tabs[t].at <= Len(log) + 1 /\ (tabs[t].pc # "away" => tabs[t].at >= 1)

FileType ==
    /\ staged \subseteq Shas
    /\ icons \in [Shas -> {"unknown", "absent", "image"}]
    /\ pictures \in [Projects -> {"none", "fresh", "aged"}]

HolderInv ==
    lock # None => reqs[lock].op \in {"takedown", "restore"} /\ reqs[lock].pc \in {"read", "record"}

JarInv == ViewInv /\ PageInv /\ RoomType /\ FileType /\ HolderInv

\* A mirror just started: the shelf's directories are there, nobody reads.
LEMMA JarInit == Init => JarInv
<1> SUFFICES ASSUME Init PROVE JarInv
  OBVIOUS
<1>1. PageInv
  <2>1. Resting \in Walks
    BY DEF Resting, Walks
  <2>2. Resting.pc = "rest" /\ Resting.steady = {} /\ Resting.twice = FALSE
    BY DEF Resting
  <2>3. dirs \subseteq Nat /\ \A x \in disk : Sha1Shard(x) \in dirs
    BY ShelfHoldsJars, PrefixIsOrdered DEF Init, Sha1Shard
  <2> QED
    BY <2>1, <2>2, <2>3 DEF Init, PageInv
<1>2. RoomType
  BY DEF Init, StreamsInit, RoomType, TabStates, Away, Rosters
<1>3. FileType /\ HolderInv
  BY DEF Init, FileType, HolderInv
<1> QED
  BY <1>1, <1>2, <1>3, ViewInit DEF JarInv

\* Writing or deleting a jar while a page is being made: what goes away is no
\* longer counted as having been there all along.
LEMMA PageStep == ASSUME JarInv, [Next]_vars PROVE PageInv'
<1>t. /\ PageInv /\ disk \subseteq Shas /\ reqs \in [Slots -> Requests] /\ RequestInv
      /\ walk \in Walks
  BY DEF JarInv, ViewInv, CacheInv, TypeInv, PageInv
<1>1. CASE UNCHANGED <<disk, dirs, walk>>
  BY <1>t, <1>1 DEF PageInv, PageOK, Beyond, Sha1Shard
<1>2. ASSUME NEW sha, Dropped(sha), UNCHANGED dirs PROVE PageInv'
  <2>1. walk' = [walk EXCEPT !.steady = walk.steady \ {sha}] /\ disk' = disk \ {sha}
    BY <1>2 DEF Dropped
  <2>2. walk' \in Walks
    BY <1>t, <2>1 DEF Walks
  <2>3. /\ walk'.pc = walk.pc /\ walk'.left = walk.left /\ walk'.here = walk.here /\ walk'.out = walk.out
        /\ walk'.after = walk.after /\ walk'.listed = walk.listed /\ walk'.steady = walk.steady \ {sha}
        /\ walk'.twice = walk.twice
    BY <1>t, <2>1 DEF Walks
  <2>4. \A x : Beyond(x)' = Beyond(x)
    BY <2>3 DEF Beyond
  <2>5. PageOK => PageOK'
    BY <2>3, <2>4 DEF PageOK, Sha1Shard
  <2> QED
    BY <1>t, <1>2, <2>1, <2>2, <2>3, <2>5 DEF PageInv, Sha1Shard
<1>3. ASSUME NEW s \in Slots, NEW op, NEW next, SaveWrite(s, op, next), op \in {"put", "ingest", "approve"}
      PROVE  PageInv'
  <2>1. /\ disk' = disk \cup {reqs[s].sha} /\ dirs' = dirs \cup {Sha1Shard(reqs[s].sha)} /\ walk' = walk
        /\ reqs[s].pc = "write"
    BY <1>3 DEF SaveWrite, At
  <2>2. reqs[s].sha \in Shas
    BY <1>t, <2>1 DEF RequestInv, RequestOK
  <2>3. Sha1Shard(reqs[s].sha) \in Nat
    BY <2>2, PrefixIsOrdered DEF Sha1Shard
  <2> QED
    BY <1>t, <2>1, <2>3 DEF PageInv, PageOK, Beyond, Sha1Shard
<1>4. ASSUME NEW size \in 0..2, StartWalk(size) PROVE PageInv'
  <2>1. /\ walk' = [Resting EXCEPT !.pc = "dirs", !.size = size, !.left = dirs, !.steady = disk]
        /\ UNCHANGED <<disk, dirs>>
    BY <1>4 DEF StartWalk
  <2>2. /\ walk'.pc = "dirs" /\ walk'.left = dirs /\ walk'.steady = disk /\ walk'.after = None
        /\ walk'.here = {} /\ walk'.out = {} /\ walk'.listed = {} /\ walk'.twice = FALSE
    BY <2>1 DEF Resting
  <2>3. walk' \in Walks
    <3>1. Resting \in Walks
      BY DEF Resting, Walks
    <3>2. size \in Nat /\ dirs \in SUBSET Nat /\ disk \in SUBSET Shas
      BY <1>t DEF PageInv
    <3> QED
      BY <2>1, <3>1, <3>2 DEF Walks
  <2>4. \A x : Beyond(x)'
    BY <2>2 DEF Beyond
  <2>5. PageOK'
    BY <1>t, <2>1, <2>2, <2>4 DEF PageOK, PageInv, Sha1Shard
  <2> QED
    BY <1>t, <2>1, <2>2, <2>3, <2>5 DEF PageInv, Sha1Shard
<1>5. ASSUME NEW s \in Slots, Handler(s) PROVE PageInv'
  <2>1. CASE \/ \E op \in {"put", "ingest", "approve"} :
                    SaveWrite(s, op, Answer(s)) \/ SaveWrite(s, op, Onward(s, "unstage"))
    BY <1>3, <2>1
  <2>2. CASE DeleteJar(s) \/ TakedownBytes(s)
    BY <1>2, <2>2 DEF DeleteJar, TakedownBytes
  <2>3. CASE \E op, at : SaveCheck(s, op, at)
    BY <1>1, <2>3 DEF SaveCheck, cacheVars
  <2>4. CASE \/ ForgetIcon(s) \/ RecordRemoved(s) \/ RestoreJar(s) \/ ListOfRemoved(s)
             \/ GetCacheJar(s) \/ GetCacheIcon(s) \/ GetProjectIcon(s)
             \/ UploadJar(s) \/ PromoteUpload(s) \/ Unstage(s) \/ DecideUpload(s)
             \/ (\E x \in Servers : EditCatalog(s, x)) \/ Nudge(s)
    BY <1>1, <2>4 DEF ForgetIcon, RecordRemoved, RestoreJar, Restore, RestoreNothing, WriteRemoved, ListOfRemoved, LockRemoved,
         ReadRemoved, GetCacheJar, GetCacheIcon, GetProjectIcon, UploadJar, UploadGate, StageUpload, EnqueueUpload,
         PromoteUpload, Unstage, DecideUpload, SetUploadStatus, EditCatalog, Nudge, cacheVars
  <2> QED
    BY <1>5, <2>1, <2>2, <2>3, <2>4 DEF Handler, PutCacheJar, WriteToCache, DeleteCacheJar, TakedownJar,
         ApproveUpload, PromoteSave
<1>6. ASSUME NEW s \in Slots, Arrive(s) PROVE PageInv'
  BY <1>1, <1>6 DEF Arrive, cacheVars
<1>7. CASE InventoryDir
  BY <1>t, <1>7, InventoryKeeps
<1>8. CASE \/ \E p \in Projects : PictureAges(p)
           \/ Pages /\ UNCHANGED <<cacheVars, reqs, menu>>
           \/ \E t \in Tabs : Enter(t)
           \/ UNCHANGED vars
  BY <1>1, <1>8 DEF PictureAges, Enter, vars, cacheVars
<1> QED
  BY <1>4, <1>5, <1>6, <1>7, <1>8 DEF Next

\* A join, a leave and their announcements say who is here by login, and a tab
\* reads the channel at a place it has reached.
LEMMA RoomStep ==
    ASSUME RoomType, NEW t \in Tabs,
           Join(t) \/ Leave(t) \/ Announce(t) \/ PackEvents(t)
    PROVE  RoomType'
<1>1. /\ log \in Seq(Rosters) /\ Len(log) \in Nat /\ tabs \in [Tabs -> TabStates] /\ tabs[t] \in TabStates
      /\ \A u \in Tabs : tabs[u].at <= Len(log) + 1 /\ (tabs[u].pc # "away" => tabs[u].at >= 1)
  BY DEF RoomType
<1>2. ASSUME NEW tab \in TabStates, tabs' = [tabs EXCEPT ![t] = tab], log' = log,
             tab.at <= Len(log) + 1, tab.pc # "away" => tab.at >= 1
      PROVE  RoomType'
  BY <1>1, <1>2 DEF RoomType
<1>3. \A open \in SUBSET Tabs : RoomRoster(open) \in Rosters
  BY DEF RoomRoster, Rosters
<1>4. CASE Join(t)
  <2> DEFINE tab == [pc |-> "joining", at |-> Len(log) + 1, shown |-> {},
                     roster |-> RoomRoster({u \in Tabs : Counted(u)} \cup {t})]
  <2>1. tab \in TabStates
    BY <1>1, <1>3 DEF TabStates, Rosters
  <2>2. tab.at = Len(log) + 1
    OBVIOUS
  <2>3. tabs' = [tabs EXCEPT ![t] = tab] /\ log' = log
    BY <1>4 DEF Join
  <2>4. tab.at <= Len(log) + 1 /\ tab.at >= 1
    BY <1>1, <2>2
  <2> HIDE DEF tab
  <2> QED
    BY <1>2, <2>1, <2>3, <2>4
<1>5. CASE Leave(t)
  <2> DEFINE roster == RoomRoster({u \in Tabs : Counted(u)} \ {t})
             tab == [tabs[t] EXCEPT !.pc = "leaving", !.roster = roster]
  <2>1. roster \in Rosters /\ tabs[t].pc = "here"
    BY <1>3, <1>5 DEF Leave
  <2>2. tabs' = [tabs EXCEPT ![t] = tab] /\ log' = log
    BY <1>5 DEF Leave
  <2> HIDE DEF roster
  <2>3. tab \in TabStates /\ tab.at = tabs[t].at
    BY <1>1, <2>1 DEF TabStates
  <2> HIDE DEF tab
  <2> QED
    BY <1>1, <1>2, <2>1, <2>2, <2>3
<1>6. CASE PackEvents(t)
  <2> DEFINE at == Recv(tabs[t].at, log)
             tab == [tabs[t] EXCEPT !.at = at + 1, !.shown = log[at]]
  <2>1. tabs[t].pc = "here" /\ at <= Len(log) /\ tabs[t].at \in Nat
    BY <1>1, <1>6 DEF PackEvents, Behind, TabStates
  <2>2. at \in 1..Len(log)
    BY <1>1, <2>1, BacklogAssumption DEF Recv
  <2>3. tabs' = [tabs EXCEPT ![t] = tab] /\ log' = log
    BY <1>6 DEF PackEvents
  <2>4. log[at] \in Rosters /\ at + 1 \in Nat /\ at + 1 <= Len(log) + 1 /\ at + 1 >= 1
    BY <1>1, <2>2
  <2> HIDE DEF at
  <2>5. tab \in TabStates /\ tab.at = at + 1
    BY <1>1, <2>4 DEF TabStates
  <2> HIDE DEF tab
  <2> QED
    BY <1>2, <2>3, <2>4, <2>5
<1>7. CASE Announce(t)
  <2>1. /\ tabs[t].pc \in {"joining", "leaving"} /\ log' = Append(log, tabs[t].roster)
        /\ tabs' = [tabs EXCEPT ![t] = IF tabs[t].pc = "joining" THEN [tabs[t] EXCEPT !.pc = "here"] ELSE Away]
    BY <1>7 DEF Announce
  <2>2. log' \in Seq(Rosters) /\ Len(log') = Len(log) + 1
    <3>1. tabs[t].roster \in Rosters
      BY <1>1 DEF TabStates
    <3> QED
      BY <1>1, <2>1, <3>1
  <2>3. PICK tab \in TabStates : /\ tabs' = [tabs EXCEPT ![t] = tab] /\ tab.at <= Len(log) + 1
                                 /\ tab.pc # "away" => tab.at >= 1
    <3>1. Away \in TabStates /\ Away.at = 0 /\ Away.pc = "away"
      BY DEF Away, TabStates, Rosters
    <3>2. [tabs[t] EXCEPT !.pc = "here"] \in TabStates /\ [tabs[t] EXCEPT !.pc = "here"].at = tabs[t].at
      BY <1>1 DEF TabStates
    <3>3. CASE tabs[t].pc = "joining"
      BY <1>1, <2>1, <3>2, <3>3
    <3>4. CASE tabs[t].pc # "joining"
      <4>1. tabs' = [tabs EXCEPT ![t] = Away] /\ Away.at <= Len(log) + 1
        BY <1>1, <2>1, <3>1, <3>4
      <4> QED
        BY <3>1, <4>1
    <3> QED
      BY <3>3, <3>4
  <2>4. tab.at \in Nat /\ \A u \in Tabs : tabs[u].at \in Nat
    BY <1>1 DEF TabStates
  <2>5. ASSUME NEW u \in Tabs PROVE tabs'[u].at <= Len(log') + 1 /\ (tabs'[u].pc # "away" => tabs'[u].at >= 1)
    <3>1. tabs'[u] = IF u = t THEN tab ELSE tabs[u]
      BY <1>1, <2>3
    <3>2. \A n \in Nat : n <= Len(log) + 1 => n <= Len(log') + 1
      BY <1>1, <2>2
    <3>3. CASE u = t
      BY <2>3, <2>4, <3>1, <3>2, <3>3
    <3>4. CASE u # t
      BY <1>1, <2>4, <3>1, <3>2, <3>4
    <3> QED
      BY <3>3, <3>4
  <2>6. tabs' \in [Tabs -> TabStates]
    BY <1>1, <2>3
  <2> QED
    BY <2>2, <2>5, <2>6 DEF RoomType
<1> QED
  BY <1>4, <1>5, <1>6, <1>7

\* The staging directory, the icons and the pictures hold what the handlers put
\* there; an icon is kept as found, image or none.
LEMMA FileStep == ASSUME JarInv, NEW s \in Slots, Handler(s) PROVE FileType'
<1>t. FileType /\ reqs \in [Slots -> Requests] /\ RequestInv /\ uploads \in Seq(UploadRows)
  BY DEF JarInv, ViewInv, CacheInv, TypeInv
<1>1. CASE UNCHANGED <<staged, icons, pictures>>
  BY <1>t, <1>1 DEF FileType
<1>2. CASE ForgetIcon(s)
  BY <1>t, <1>2 DEF ForgetIcon, FileType
<1>3. CASE GetCacheIcon(s)
  BY <1>t, <1>3, IconsAreKnown DEF GetCacheIcon, StoreIcon, FileType, cacheVars
<1>4. CASE GetProjectIcon(s)
  BY <1>t, <1>4 DEF GetProjectIcon, StoreProjectIcon, FileType
<1>5. CASE StageUpload(s)
  <2>1. reqs[s].sha \in Shas
    BY <1>t, <1>5 DEF StageUpload, At, RequestInv, RequestOK
  <2> QED
    BY <1>t, <1>5, <2>1 DEF StageUpload, FileType
<1>6. CASE Unstage(s)
  BY <1>t, <1>6 DEF Unstage, FileType
<1>7. CASE \/ PutCacheJar(s) \/ WriteToCache(s) \/ DeleteCacheJar(s) \/ TakedownBytes(s)
           \/ RecordRemoved(s) \/ RestoreJar(s) \/ ListOfRemoved(s) \/ GetCacheJar(s)
           \/ UploadGate(s) \/ EnqueueUpload(s) \/ PromoteUpload(s) \/ PromoteSave(s) \/ DecideUpload(s)
           \/ (\E x \in Servers : EditCatalog(s, x)) \/ Nudge(s)
  BY <1>1, <1>7 DEF PutCacheJar, WriteToCache, DeleteCacheJar, DeleteJar, TakedownBytes, RecordRemoved, RestoreJar,
       Restore, RestoreNothing, WriteRemoved, ListOfRemoved, LockRemoved, ReadRemoved, GetCacheJar, UploadGate, EnqueueUpload,
       PromoteUpload, PromoteSave, DecideUpload, SetUploadStatus, EditCatalog, Nudge, SaveCheck, SaveWrite, cacheVars
<1> QED
  BY <1>2, <1>3, <1>4, <1>5, <1>6, <1>7 DEF Handler, TakedownJar, UploadJar, ApproveUpload

\* The lock is taken by a request that then reads and writes the list, and let
\* go of with the answer.
LEMMA HolderStep == ASSUME JarInv, NEW s \in Slots, Handler(s) PROVE HolderInv'
<1>t. /\ HolderInv /\ LockInv /\ reqs \in [Slots -> Requests] /\ lock \in Slots \cup {None} /\ reqs[s] \in Requests
  BY DEF JarInv, ViewInv, CacheInv, TypeInv
<1>1. CASE LockRemoved(s)
  BY <1>t, <1>1 DEF LockRemoved, Onward, HolderInv, Requests
<1>2. CASE ReadRemoved(s)
  BY <1>t, <1>2 DEF ReadRemoved, HolderInv, Requests, cacheVars
<1>3. CASE RecordRemoved(s) \/ RestoreJar(s)
  BY <1>3 DEF RecordRemoved, RestoreJar, Restore, RestoreNothing, WriteRemoved, HolderInv
<1>4. CASE /\ lock' = lock /\ ~(reqs[s].op \in {"takedown", "restore"} /\ reqs[s].pc \in {"read", "record"})
           /\ \A r \in Slots \ {s} : reqs'[r] = reqs[r]
  BY <1>t, <1>4 DEF HolderInv
<1>5. CASE \/ PutCacheJar(s) \/ WriteToCache(s) \/ DeleteCacheJar(s) \/ TakedownBytes(s) \/ ForgetIcon(s)
           \/ GetCacheJar(s) \/ GetCacheIcon(s) \/ GetProjectIcon(s) \/ UploadJar(s) \/ ApproveUpload(s)
           \/ DecideUpload(s) \/ (\E x \in Servers : EditCatalog(s, x)) \/ Nudge(s)
  <2>1. /\ lock' = lock /\ ~(reqs[s].op \in {"takedown", "restore"} /\ reqs[s].pc \in {"read", "record"})
    BY <1>5 DEF PutCacheJar, WriteToCache, DeleteCacheJar, DeleteJar, TakedownBytes, ForgetIcon, GetCacheJar,
         GetCacheIcon, GetProjectIcon, UploadJar, UploadGate, StageUpload, EnqueueUpload, ApproveUpload,
         PromoteUpload, PromoteSave, Unstage, DecideUpload, SetUploadStatus, EditCatalog, Nudge, SaveCheck,
         SaveWrite, At, Events, cacheVars
  <2>2. \A r \in Slots \ {s} : reqs'[r] = reqs[r]
    BY <1>t, <1>5 DEF PutCacheJar, WriteToCache, DeleteCacheJar, DeleteJar, TakedownBytes, ForgetIcon, GetCacheJar,
         GetCacheIcon, GetProjectIcon, UploadJar, UploadGate, StageUpload, EnqueueUpload, ApproveUpload,
         PromoteUpload, PromoteSave, Unstage, DecideUpload, SetUploadStatus, EditCatalog, Nudge, SaveCheck,
         SaveWrite, Answer, Onward
  <2> QED
    BY <1>4, <2>1, <2>2
<1> QED
  BY <1>1, <1>2, <1>3, <1>5 DEF Handler, TakedownJar, ListOfRemoved

\* Every step of every request, page, reader and tab keeps all of it.
LEMMA JarStep == JarInv /\ [Next]_vars => JarInv'
<1> SUFFICES ASSUME JarInv, [Next]_vars PROVE JarInv'
  OBVIOUS
<1>1. ViewInv' /\ PageInv'
  BY ViewStep, PageStep DEF JarInv
<1>t. RoomType /\ FileType /\ HolderInv /\ reqs \in [Slots -> Requests] /\ lock \in Slots \cup {None}
  BY DEF JarInv, ViewInv, CacheInv, TypeInv
<1>2. UNCHANGED <<log, tabs>> => RoomType'
  BY <1>t DEF RoomType
<1>3. UNCHANGED <<staged, icons, pictures>> => FileType'
  BY <1>t DEF FileType
<1>4. UNCHANGED <<lock, reqs>> => HolderInv'
  BY <1>t DEF HolderInv
<1> SUFFICES RoomType' /\ FileType' /\ HolderInv'
  BY <1>1 DEF JarInv
<1>5. ASSUME NEW s \in Slots, Arrive(s) PROVE RoomType' /\ FileType' /\ HolderInv'
  <2>1. /\ reqs[s] = Idle /\ UNCHANGED <<cacheVars, streamVars>>
        /\ \A r \in Slots \ {s} : reqs'[r] = reqs[r]
    BY <1>t, <1>5 DEF Arrive
  <2>2. HolderInv'
    BY <1>t, <2>1 DEF HolderInv, Idle, cacheVars
  <2> QED
    BY <1>2, <1>3, <2>1, <2>2 DEF cacheVars, streamVars
<1>6. ASSUME NEW s \in Slots, Handler(s) PROVE RoomType' /\ FileType' /\ HolderInv'
  <2>1. UNCHANGED <<log, tabs>>
    <3>1. CASE Nudge(s)
      BY <3>1 DEF Nudge
    <3>2. CASE ~Nudge(s)
      BY <1>6, <3>2, Announces DEF JarInv, streamVars
    <3> QED
      BY <3>1, <3>2
  <2> QED
    BY <1>2, <1>6, <2>1, FileStep, HolderStep
<1>7. CASE Pages /\ UNCHANGED <<cacheVars, reqs, menu>>
  <2>1. FileType' /\ HolderInv'
    BY <1>3, <1>4, <1>7 DEF cacheVars
  <2>2. RoomType'
    BY <1>t, <1>2, <1>7, RoomStep DEF Pages, Subscribe, Hear, Refetch
  <2> QED
    BY <2>1, <2>2
<1>8. ASSUME NEW t \in Tabs, Enter(t) PROVE RoomType' /\ FileType' /\ HolderInv'
  BY <1>t, <1>3, <1>4, <1>8, RoomStep DEF Enter, cacheVars
<1>9. ASSUME NEW p \in Projects, PictureAges(p) PROVE RoomType' /\ FileType' /\ HolderInv'
  <2>1. FileType'
    BY <1>t, <1>9 DEF PictureAges, FileType
  <2> QED
    BY <1>2, <1>4, <1>9, <2>1 DEF PictureAges, streamVars
<1>10. CASE (\E size \in 0..2 : StartWalk(size)) \/ InventoryDir \/ UNCHANGED vars
  BY <1>2, <1>3, <1>4, <1>10 DEF StartWalk, InventoryDir, vars, cacheVars, streamVars
<1> QED
  BY <1>5, <1>6, <1>7, <1>8, <1>9, <1>10 DEF Next

\* The fields the type invariant names, from the parts that keep them.
LEMMA JarTypes == JarInv => TypeOK
<1> SUFFICES ASSUME JarInv PROVE TypeOK
  OBVIOUS
<1>1. /\ disk \subseteq Shas /\ removed \subseteq Shas /\ staged \subseteq Shas /\ dirs \subseteq Nat
      /\ lock # None => reqs[lock].op \in {"takedown", "restore"} /\ reqs[lock].pc \in {"read", "record"}
      /\ icons \in [Shas -> {"unknown", "absent", "image"}]
      /\ pictures \in [Projects -> {"none", "fresh", "aged"}]
      /\ board \in [servers : SUBSET Servers, featured : SUBSET Servers]
      /\ given \in [Slots -> Shas \cup {None}]
      /\ walk \in Walks
  BY DEF JarInv, ViewInv, CacheInv, TypeInv, EarsType, PageInv, FileType, HolderInv
<1>2. \A i \in DOMAIN uploads : uploads[i] \in [sha : Shas, status : {"pending", "approved", "rejected"}]
  <2>1. uploads \in Seq(UploadRows)
    BY DEF JarInv, ViewInv, CacheInv, TypeInv
  <2>2. \A i \in DOMAIN uploads : uploads[i] \in UploadRows
    BY <2>1
  <2> QED
    BY <2>2 DEF UploadRows
<1>3. \A l \in Listeners : ears[l] # None => /\ ears[l].at \in 1..(Len(sent) + 1)
                                            /\ ears[l].stale \cup ears[l].missed \subseteq Events
  <2> SUFFICES ASSUME NEW l \in Listeners, ears[l] # None
               PROVE  /\ ears[l].at \in 1..(Len(sent) + 1)
                      /\ ears[l].stale \cup ears[l].missed \subseteq Events
    OBVIOUS
  <2>1. ears[l] \in Ears /\ ears[l].at \in 1..(Len(sent) + 1)
    BY DEF JarInv, ViewInv, EarsType
  <2> QED
    BY <2>1 DEF Ears
<1>4. \A t \in Tabs : /\ tabs[t].pc \in {"away", "joining", "here", "leaving"}
                       /\ tabs[t].at \in 0..(Len(log) + 1)
                       /\ tabs[t].roster \cup tabs[t].shown \subseteq {LoginOf[u] : u \in Tabs}
  <2> SUFFICES ASSUME NEW t \in Tabs
               PROVE  /\ tabs[t].pc \in {"away", "joining", "here", "leaving"}
                      /\ tabs[t].at \in 0..(Len(log) + 1)
                      /\ tabs[t].roster \cup tabs[t].shown \subseteq {LoginOf[u] : u \in Tabs}
    OBVIOUS
  <2>1. tabs[t] \in TabStates /\ tabs[t].at <= Len(log) + 1 /\ Len(log) \in Nat
    BY DEF JarInv, RoomType
  <2> QED
    BY <2>1 DEF TabStates, Rosters
<1>5. StreamsTypeOK
  BY <1>3, <1>4 DEF JarInv, ViewInv, EarsType, StreamsTypeOK
<1> QED
  BY <1>1, <1>2, <1>5 DEF TypeOK

\* Every field holds what the code can put there, for any number of jars,
\* requests, pages and tabs; a taken removed_lock is held by a takedown or a
\* restore that is reading or writing the list, and every row of mod_uploads
\* names a jar.
THEOREM JarTypeOK == Spec => []TypeOK
<1> QED
  BY JarInit, JarStep, JarTypes, PTL DEF Spec

\* At the end of a walk nothing is left that was there all along.
LEMMA PageComplete == JarInv => WalkComplete
BY DEF JarInv, PageInv, WalkComplete

\* Paging through the inventory misses nothing and repeats nothing, for any
\* number of jars and directories and any page size, whatever is written and
\* deleted between two pages or between a directory and the next: the cursor is
\* a hash, and directories come in the order of the hashes in them
\* (cache_inventory_after, page.rs).
THEOREM PagesMissNothing == Spec => []WalkComplete
<1> QED
  BY JarInit, JarStep, PageComplete, PTL DEF Spec
=============================================================================
