------------------------------ MODULE Streams -------------------------------
(***************************************************************************)
(* How an open page learns that something moved: the mirror's one change   *)
(* channel, and a pack's room.  Both are bounded broadcast channels: a     *)
(* listener that falls too far behind skips to the oldest event still kept.*)
(* An event is a nudge; what the page shows is what it reads afterwards,   *)
(* and a view rereads on the one kind of event it renders.                 *)
(***************************************************************************)
EXTENDS Naturals, Sequences, FiniteSets

CONSTANTS
    None,
    Backlog,      \* BACKLOG, the capacity of a channel
    Listeners,    \* pages listening to the mirror
    ListenerRole, \* [Listeners -> {"member", "admin"}]: the role their session had
    Tabs,         \* editor tabs that may open the pack
    LoginOf       \* [Tabs -> login]

ASSUME BacklogAssumption == Backlog \in Nat \ {0}

VARIABLES
    sent,   \* the mirror's events, in the order they were published
    ears,   \* [Listeners -> what the page holds of the stream, or None]
    log,    \* the rosters published in the pack's room, in order
    tabs    \* [Tabs -> the tab's state]

streamVars == <<sent, ears, log, tabs>>

Events == {"moderation", "catalog"}

\* The queue of uploads is the operator's business.
Reaches(event, role) == event = "moderation" => role = "admin"

Publish(event) == sent' = Append(sent, event)

\* A mutant: a listener that lagged resumes at the end.
RecvAtEnd(at, channel) == IF at + Backlog <= Len(channel) THEN Len(channel) + 1 ELSE at

\* The position a listener reads next: where it was, or the oldest kept.
Recv(at, channel) == IF at + Backlog <= Len(channel) THEN Len(channel) + 1 - Backlog ELSE at

Behind(at, channel) == Recv(at, channel) <= Len(channel)

\* Events from before are gone; the page then reads the world as it is.
Subscribe(l) ==
    /\ ears[l] = None
    /\ ears' = [ears EXCEPT ![l] = [at |-> Len(sent) + 1, stale |-> Events, missed |-> {},
                                    view |-> [k \in Events |-> None]]]
    /\ UNCHANGED <<sent, log, tabs>>

\* The kinds the page may hear among the events from a position up to another.
HeardIn(l, from, to) == {k \in Events : Reaches(k, ListenerRole[l]) /\ \E i \in from..to : sent[i] = k}

\* The next event: one the role may not hear is skipped, and so, unnoticed, are
\* those the listener fell too far behind to receive (missed, an observer).
Hear(l) ==
    /\ ears[l] # None /\ Behind(ears[l].at, sent)
    /\ LET at == Recv(ears[l].at, sent)
       IN  ears' = [ears EXCEPT ![l].at = at + 1,
                                ![l].stale = @ \cup HeardIn(l, at, at),
                                ![l].missed = @ \cup HeardIn(l, ears[l].at, at - 1)]
    /\ UNCHANGED <<sent, log, tabs>>

\* A view of the page reads again what it shows.
Refetch(l, k, world) ==
    /\ ears[l] # None /\ k \in ears[l].stale
    /\ ears' = [ears EXCEPT ![l].stale = @ \ {k}, ![l].missed = @ \ {k}, ![l].view[k] = world]
    /\ UNCHANGED <<sent, log, tabs>>

-----------------------------------------------------------------------------
(* A pack's room.  The editors are counted under the room's lock; the roster
   is published after it is released. *)

Away == [pc |-> "away", at |-> 0, roster |-> {}, shown |-> {}]

Counted(t) == tabs[t].pc \in {"joining", "here"}

RoomRoster(open) == {LoginOf[t] : t \in open}

Join(t) ==
    /\ tabs[t].pc = "away"
    /\ tabs' = [tabs EXCEPT ![t] = [pc |-> "joining", at |-> Len(log) + 1, shown |-> {},
                                    roster |-> RoomRoster({u \in Tabs : Counted(u)} \cup {t})]]
    /\ UNCHANGED <<sent, ears, log>>

\* Dropping the stream is leaving, whatever dropped it.
Leave(t) ==
    /\ tabs[t].pc = "here"
    /\ tabs' = [tabs EXCEPT ![t].pc = "leaving",
                            ![t].roster = RoomRoster({u \in Tabs : Counted(u)} \ {t})]
    /\ UNCHANGED <<sent, ears, log>>

Announce(t) ==
    /\ tabs[t].pc \in {"joining", "leaving"}
    /\ log' = Append(log, tabs[t].roster)
    /\ tabs' = [tabs EXCEPT ![t] = IF @.pc = "joining" THEN [@ EXCEPT !.pc = "here"] ELSE Away]
    /\ UNCHANGED <<sent, ears>>

PackEvents(t) ==
    /\ tabs[t].pc = "here" /\ Behind(tabs[t].at, log)
    /\ tabs' = [tabs EXCEPT ![t].at = Recv(@, log) + 1, ![t].shown = log[Recv(tabs[t].at, log)]]
    /\ UNCHANGED <<sent, ears, log>>

StreamsInit ==
    /\ sent = <<>> /\ log = <<>>
    /\ ears = [l \in Listeners |-> None]
    /\ tabs = [t \in Tabs |-> Away]

StreamsTypeOK ==
    /\ sent \in Seq(Events)
    /\ \A l \in Listeners : ears[l] # None => /\ ears[l].at \in 1..(Len(sent) + 1)
                                            /\ ears[l].stale \cup ears[l].missed \subseteq Events
    /\ \A t \in Tabs : /\ tabs[t].pc \in {"away", "joining", "here", "leaving"}
                       /\ tabs[t].at \in 0..(Len(log) + 1)
                       /\ tabs[t].roster \cup tabs[t].shown \subseteq {LoginOf[u] : u \in Tabs}

\* Once every join and leave has been announced, a tab that has read all of its
\* events shows exactly who is in the pack.  packstream.rs sends the whole list
\* each time because a list cannot fall out of step.
RosterSettles ==
    (\A t \in Tabs : tabs[t].pc \in {"away", "here"}) =>
        \A t \in Tabs : tabs[t].pc = "here" /\ ~Behind(tabs[t].at, log) =>
            tabs[t].shown = RoomRoster({u \in Tabs : Counted(u)})
=============================================================================
