---------------------------- MODULE HarvestSched ----------------------------
(***************************************************************************)
(* The background harvest coordinator (src/authoring/harvest_sched.rs): a  *)
(* single worker that coalesces pokes into harvests, and the unsettled     *)
(* signal a build waits out before it classifies against the registry.     *)
(*                                                                         *)
(* A harvest's content is left out: a run is told apart only by the pokes  *)
(* it observed.  poked, claimed and covered number the pokes so far, those *)
(* the current run observes, and those a finished run has observed.        *)
(***************************************************************************)
EXTENDS Naturals

CONSTANT MaxPokes   \* bound: pokes over the run, those of builds excepted

ASSUME MaxPokesOK == MaxPokes \in Nat

VARIABLES
    worker,     \* where the worker task is in its loop
    permit,     \* the wake stored in the Notify
    forceNow, dirty,
    running,    \* HarvestStatus.running
    owed,       \* calls of poke that stored dirty and have yet to notify
    poked, claimed, covered

flags == <<permit, forceNow, dirty, running>>
harvestVars == <<worker, permit, forceNow, dirty, running, owed, poked,
                 claimed, covered>>

HarvestTypeOK ==
    /\ worker \in {"wait", "settle", "mark", "clear", "harvest"}
    /\ permit \in BOOLEAN /\ forceNow \in BOOLEAN
    /\ dirty \in BOOLEAN /\ running \in BOOLEAN
    /\ owed \in Nat /\ poked \in Nat /\ claimed \in Nat /\ covered \in Nat

\* spawn pokes before the worker's first wait: the registry is harvested on boot.
HarvestInit ==
    /\ worker = "wait"
    /\ permit = TRUE /\ forceNow = FALSE /\ dirty = TRUE /\ running = FALSE
    /\ owed = 0
    /\ poked = 1 /\ claimed = 0 /\ covered = 0

\* Requests: the two stores of poke and force, and the notify that follows them.
Poke ==
    /\ dirty' = TRUE
    /\ poked' = poked + 1
    /\ owed' = owed + 1
    /\ UNCHANGED <<worker, permit, forceNow, running, claimed, covered>>

\* force: the manual refresh, which skips the quiet window.
ForceNow ==
    /\ dirty' = TRUE
    /\ forceNow' = TRUE
    /\ poked' = poked + 1
    /\ owed' = owed + 1
    /\ UNCHANGED <<worker, permit, running, claimed, covered>>

\* Mutant: a notify nobody is waiting for is not stored.
NotifyWaiters ==
    /\ owed > 0
    /\ owed' = owed - 1
    /\ permit' = (permit \/ worker \in {"wait", "settle"})
    /\ UNCHANGED <<worker, forceNow, dirty, running, poked, claimed, covered>>

Notify ==
    /\ owed > 0
    /\ owed' = owed - 1
    /\ permit' = TRUE
    /\ UNCHANGED <<worker, forceNow, dirty, running, poked, claimed, covered>>

\* A wake ends the wait, or restarts the quiet window; a forced one ends that too.
Wake ==
    /\ worker \in {"wait", "settle"}
    /\ permit
    /\ permit' = FALSE
    /\ forceNow' = FALSE
    /\ worker' = IF forceNow THEN "mark" ELSE "settle"
    /\ UNCHANGED <<dirty, running, owed, poked, claimed, covered>>

\* DEBOUNCE passed with no wake.
Quiet ==
    /\ worker = "settle"
    /\ worker' = "mark"
    /\ UNCHANGED <<flags, owed, poked, claimed, covered>>

MarkRunning ==
    /\ worker = "mark"
    /\ running' = TRUE
    /\ worker' = "clear"
    /\ UNCHANGED <<permit, forceNow, dirty, owed, poked, claimed, covered>>

ClearDirty ==
    /\ worker = "clear"
    /\ dirty' = FALSE
    /\ claimed' = poked
    /\ worker' = "harvest"
    /\ UNCHANGED <<permit, forceNow, running, owed, poked, covered>>

\* The child task returned, failed or panicked: the run is over either way.
HarvestEnds ==
    /\ worker = "harvest"
    /\ running' = FALSE
    /\ covered' = claimed
    /\ worker' = "wait"
    /\ UNCHANGED <<permit, forceNow, dirty, owed, poked, claimed>>

\* A restarted process: the memory is new and the boot poke covers what was lost.
HarvestRestart ==
    /\ worker' = "wait"
    /\ permit' = TRUE /\ forceNow' = FALSE /\ dirty' = TRUE /\ running' = FALSE
    /\ owed' = 0
    /\ poked' = poked + 1
    /\ claimed' = covered
    /\ UNCHANGED covered

\* Mutant: the pending poke is cleared before the run is announced.
ClearsFirst ==
    \/ Wake \/ Quiet \/ HarvestEnds
    \/ /\ worker = "mark"
       /\ worker' = "clear"
       /\ dirty' = FALSE
       /\ claimed' = poked
       /\ UNCHANGED <<permit, forceNow, running, owed, poked, covered>>
    \/ /\ worker = "clear"
       /\ worker' = "harvest"
       /\ running' = TRUE
       /\ UNCHANGED <<permit, forceNow, dirty, owed, poked, claimed, covered>>

\* The loop of spawn: what the worker task does next.
WorkerStep == Wake \/ Quiet \/ MarkRunning \/ ClearDirty \/ HarvestEnds

\* A handler that changed the cache, or an operator, asks for a harvest.
Request == poked < MaxPokes /\ (Poke \/ ForceNow)

HarvestNext == Request \/ Notify \/ WorkerStep

\* The worker and a call of poke in progress are tasks the runtime schedules.
HarvestFairness == WF_harvestVars(Notify) /\ WF_harvestVars(WorkerStep)

----------------------------------------------------------------------------
\* Every poke is observed by a run that finishes, also one that arrives while
\* another run is under way or inside the quiet window (poke, spawn).
HarvestCatchesUp == (covered < poked) ~> (covered = poked)
============================================================================
