----------------------------- MODULE Takedowns ------------------------------
(***************************************************************************)
(* What the mirror promises about a takedown: a jar is handed out, or let  *)
(* into the cache, only by a request that was cleared at an instant when   *)
(* the jar was not blocked, and the list of blocked jars changes one jar   *)
(* at a time, by a takedown or a restore of that jar.  How the list is     *)
(* kept and who else is at work meanwhile is no part of the promise.       *)
(***************************************************************************)
EXTENDS Naturals

CONSTANTS Jars, Requests, Nothing

VARIABLES
    blocked,  \* jars taken down
    held,     \* jars in the cache
    cleared,  \* <<request, "read" or "write", jar>>: let through and not yet done
    given     \* [Requests -> the jar last handed out, or Nothing]

promiseVars == <<blocked, held, cleared, given>>

Init ==
    /\ blocked = {} /\ held \subseteq Jars
    /\ cleared = {}
    /\ given = [r \in Requests |-> Nothing]

Block(j) == blocked' = blocked \cup {j} /\ UNCHANGED <<held, cleared, given>>

Lift(j) == blocked' = blocked \ {j} /\ UNCHANGED <<held, cleared, given>>

Drop(j) == held' = held \ {j} /\ UNCHANGED <<blocked, cleared, given>>

Clear(r, to, j) ==
    /\ j \notin blocked
    /\ cleared' = cleared \cup {<<r, to, j>>}
    /\ UNCHANGED <<blocked, held, given>>

\* The jar is handed out, or was gone by the time it was read.
Give(r, j) ==
    /\ <<r, "read", j>> \in cleared
    /\ cleared' = cleared \ {<<r, "read", j>>}
    /\ given' \in {given, [given EXCEPT ![r] = j]}
    /\ UNCHANGED <<blocked, held>>

Land(r, j) ==
    /\ <<r, "write", j>> \in cleared
    /\ cleared' = cleared \ {<<r, "write", j>>}
    /\ held' = held \cup {j}
    /\ UNCHANGED <<blocked, given>>

Next ==
    \/ \E j \in Jars : Block(j) \/ Lift(j) \/ Drop(j)
    \/ \E r \in Requests, j \in Jars :
            (\E to \in {"read", "write"} : Clear(r, to, j)) \/ Give(r, j) \/ Land(r, j)

Spec == Init /\ [][Next]_promiseVars
=============================================================================
