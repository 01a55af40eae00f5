------------------------------ MODULE AppEvents ------------------------------
(***************************************************************************)
(* The app-wide event stream: the hub of the API process that reads new    *)
(* events once for all connections (http/app-event-hub.ts), the stream a   *)
(* connection is (http/events-controller.ts), and the browser tab that     *)
(* takes a snapshot, follows the stream from the snapshot's cursor and     *)
(* reconnects from the last event it applied (frontend/lib/app-events.ts). *)
(* The worker appends events meanwhile, from another process: between any  *)
(* two reads of the hub's loops too, while within the API process a loop   *)
(* runs to its end before anything else does.                              *)
(*                                                                         *)
(* An event is its id.  A connection's pipe is what the server sent and    *)
(* the tab has not taken: a sequence of pages, a page being sent in        *)
(* ascending order of ids.                                                 *)
(***************************************************************************)
EXTENDS Naturals, Sequences, FiniteSets

CONSTANTS
  Tabs,           \* the browser tabs
  PageSize,       \* APP_EVENTS_REPLAY_PAGE_SIZE
  MaxEvents,      \* bound: how many events are ever appended
  MaxStreamFaults \* bound: lost connections, failed reads and writes, restarts

\* A page holds at least one event; nothing is assumed of the bounds but their type.
ASSUME StreamAssumption ==
  PageSize \in Nat \ {0} /\ MaxEvents \in Nat /\ MaxStreamFaults \in Nat

VARIABLES
  top,    \* the highest id in run_events
  app,    \* the ids of the types the stream carries
  hub,    \* [head, polling, subs, ghosts]: ghosts counts the subscribers whose
          \* connection is gone and whose stream was not cancelled yet
  loop,   \* what the API process is in the middle of
  tab,    \* [phase, base, cursor, seen, pipe] of each tab
  faults  \* how many faults there have been

feedVars == <<top, app, hub, loop, tab, faults>>

Idle == [kind |-> "idle"]
Ticking == [kind |-> "tick"]
CatchingUp(t, since, wasPolling) ==
  [kind |-> "catchUp", tab |-> t, since |-> since, wasPolling |-> wasPolling]

\* "off": no snapshot.  "waiting": between connections.  "joining": its request is
\* being replayed.  "open": subscribed.  "closed": the server ended the stream.
Phases == {"off", "waiting", "joining", "open", "closed"}

FeedInit ==
  /\ top = 0
  /\ app = {}
  /\ hub = [head |-> 0, polling |-> FALSE, subs |-> {}, ghosts |-> 0]
  /\ loop = Idle
  /\ tab = [t \in Tabs |-> [phase |-> "off", base |-> 0, cursor |-> 0, seen |-> {}, pipe |-> <<>>]]
  /\ faults = 0

-----------------------------------------------------------------------------
(***************************************************************************)
(* The worker appends; the query reads.                                    *)
(***************************************************************************)
AppendEvent(carried) ==
  /\ top < MaxEvents
  /\ top' = top + 1
  /\ app' = IF carried THEN app \cup {top + 1} ELSE app
  /\ UNCHANGED <<hub, loop, tab, faults>>

Above(since) == {e \in app : e > since}

\* ... WHERE e.id > since ... ORDER BY e.id LIMIT PageSize
IsPage(P, since) ==
  /\ P \subseteq Above(since)
  /\ \A e \in P, d \in Above(since) : d < e => d \in P
  /\ Cardinality(P) <= PageSize
  /\ P # Above(since) => Cardinality(P) = PageSize

IsLast(last, P) == last \in P /\ \A e \in P : e <= last

Sent(pipe, events) == IF events = {} THEN pipe ELSE Append(pipe, events)

Fault(n) == faults + n <= MaxStreamFaults /\ faults' = faults + n

Watched(h) == h.subs # {} \/ h.ghosts > 0

\* Mutant of StopIfLast: the timer is left running.
StopIfLastMutant(h) == h
\* unsubscribe: the last one out stops the timer.
StopIfLast(h) == [h EXCEPT !.polling = h.polling /\ Watched(h)]

-----------------------------------------------------------------------------
(***************************************************************************)
(* A connection: replay in pages, then the shared poll.                    *)
(***************************************************************************)
\* The tab's transport opens the stream at its cursor; subscribe begins.
Subscribe(t) ==
  /\ loop = Idle
  /\ tab[t].phase = "waiting"
  /\ loop' = CatchingUp(t, tab[t].cursor, hub.polling)
  /\ tab' = [tab EXCEPT ![t].phase = "joining"]
  /\ UNCHANGED <<top, app, hub, faults>>

\* Mutant of Replayed: events above the shared head are delivered too.
ReplayedMutant(P) == P
\* What a replayed page delivers.  While others are polling the shared head covers
\* the newer events: the next tick delivers them.
Replayed(P) == IF loop.wasPolling THEN {e \in P : e <= hub.head} ELSE P

\* Is this page the replay's last?
ReplayEnds(P) ==
  \/ Cardinality(P) < PageSize
  \/ loop.wasPolling /\ \E last \in P : last >= hub.head

\* Mutant of Joined: the first subscriber starts no poll.
JoinedUnpolled(t, since) ==
  [hub EXCEPT !.subs = @ \cup {t}, !.head = IF loop.wasPolling THEN @ ELSE since]
\* The subscription as the replay leaves it: the first subscriber sets the head and
\* starts the poll.
Joined(t, since) ==
  [hub EXCEPT !.subs = @ \cup {t},
              !.polling = TRUE,
              !.head = IF loop.wasPolling THEN @ ELSE since]

CatchUpPage ==
  /\ loop.kind = "catchUp"
  /\ \E P \in SUBSET app :
       /\ IsPage(P, loop.since)
       /\ \E since \in 0..top :
            /\ IF P = {} THEN since = loop.since ELSE IsLast(since, P)
            /\ IF ReplayEnds(P)
               THEN /\ hub' = Joined(loop.tab, since)
                    /\ loop' = Idle
                    /\ tab' = [tab EXCEPT ![loop.tab].phase = "open",
                                          ![loop.tab].pipe = Sent(@, Replayed(P))]
               ELSE /\ loop' = [loop EXCEPT !.since = since]
                    /\ tab' = [tab EXCEPT ![loop.tab].pipe = Sent(@, Replayed(P))]
                    /\ hub' = hub
  /\ UNCHANGED <<top, app, faults>>

\* A failed replay subscribes nothing and closes the stream behind what it sent.
CatchUpFails ==
  /\ loop.kind = "catchUp"
  /\ Fault(1)
  /\ loop' = Idle
  /\ tab' = [tab EXCEPT ![loop.tab].phase = "closed"]
  /\ UNCHANGED <<top, app, hub>>

-----------------------------------------------------------------------------
(***************************************************************************)
(* The shared poll.                                                        *)
(***************************************************************************)
InTick == loop = Ticking \/ (loop = Idle /\ hub.polling /\ Watched(hub))

\* One page of a tick: the head moves first, then every subscriber gets the page.
\* One that cannot take it is dropped and its stream closed.
TickPage ==
  /\ InTick
  /\ \E P \in SUBSET app, failing \in SUBSET hub.subs :
       /\ IsPage(P, hub.head)
       /\ Fault(Cardinality(failing))
       /\ IF P = {}
          THEN /\ failing = {}
               /\ loop' = Idle
               /\ UNCHANGED <<hub, tab>>
          ELSE /\ \E last \in P :
                    /\ IsLast(last, P)
                    /\ hub' = StopIfLast([hub EXCEPT !.head = last, !.subs = @ \ failing])
               /\ loop' = IF Watched(hub') /\ Cardinality(P) = PageSize THEN Ticking ELSE Idle
               /\ tab' = [t \in Tabs |->
                    IF t \in failing THEN [tab[t] EXCEPT !.phase = "closed"]
                    ELSE IF t \in hub.subs THEN [tab[t] EXCEPT !.pipe = Sent(@, P)]
                    ELSE tab[t]]
  /\ UNCHANGED <<top, app>>

\* The read fails: every subscriber is dropped and the poll stops.
TickFails ==
  /\ InTick
  /\ Fault(1)
  /\ loop' = Idle
  /\ hub' = [hub EXCEPT !.subs = {}, !.ghosts = 0, !.polling = FALSE]
  /\ tab' = [t \in Tabs |->
       IF t \in hub.subs THEN [tab[t] EXCEPT !.phase = "closed"] ELSE tab[t]]
  /\ UNCHANGED <<top, app>>

\* The stream of a connection that is gone is cancelled.
Cancelled ==
  /\ loop = Idle
  /\ hub.ghosts > 0
  /\ hub' = StopIfLast([hub EXCEPT !.ghosts = @ - 1])
  /\ UNCHANGED <<top, app, loop, tab, faults>>

\* The API process ends, closing every stream, and another starts.
ServerRestart ==
  /\ Fault(1)
  /\ hub' = [head |-> 0, polling |-> FALSE, subs |-> {}, ghosts |-> 0]
  /\ loop' = Idle
  /\ tab' = [t \in Tabs |->
       IF tab[t].phase \in {"joining", "open"} THEN [tab[t] EXCEPT !.phase = "closed"] ELSE tab[t]]
  /\ UNCHANGED <<top, app>>

-----------------------------------------------------------------------------
(***************************************************************************)
(* The tab.                                                                *)
(***************************************************************************)
\* GET /api/events/snapshot: the run list and the highest id, in one transaction.
LoadSnapshot(t) ==
  /\ tab[t].phase = "off"
  /\ tab' = [tab EXCEPT ![t].phase = "waiting", ![t].base = top, ![t].cursor = top]
  /\ UNCHANGED <<top, app, hub, loop, faults>>

Delivered(t) == tab[t].phase \in {"open", "closed"} /\ tab[t].pipe # <<>>

\* What is left when the first event of the pipe is taken.
Without(pipe, e) ==
  IF Head(pipe) = {e} THEN Tail(pipe) ELSE [pipe EXCEPT ![1] = @ \ {e}]

\* Mutant of Applied: the cursor moves to the end of the page with its first event.
AppliedByPage(s, e) ==
  [s EXCEPT !.pipe = Without(s.pipe, e),
            !.seen = @ \cup {e},
            !.cursor = CHOOSE d \in Head(s.pipe) : \A f \in Head(s.pipe) : f <= d]
\* applyEnvelope: a seen event is skipped; else it is applied, and only then
\* remembered and the cursor moved.
Applied(s, e) ==
  IF e \in s.seen
  THEN [s EXCEPT !.pipe = Without(s.pipe, e)]
  ELSE [s EXCEPT !.pipe = Without(s.pipe, e),
                 !.seen = @ \cup {e},
                 !.cursor = IF e > @ THEN e ELSE @]

Receive(t) ==
  /\ Delivered(t)
  /\ \E e \in Head(tab[t].pipe) :
       /\ \A d \in Head(tab[t].pipe) : e <= d
       /\ tab' = [tab EXCEPT ![t] = Applied(@, e)]
  /\ UNCHANGED <<top, app, hub, loop, faults>>

\* The network loses the connection, or an event cannot be applied and the tab
\* closes it: what it carried is lost, and a subscription stays behind until the
\* server cancels the stream.
Drop(t) ==
  /\ loop = Idle
  /\ tab[t].phase \in {"open", "closed"}
  /\ Fault(1)
  /\ tab' = [tab EXCEPT ![t].phase = "waiting", ![t].pipe = <<>>]
  /\ hub' = IF t \in hub.subs
            THEN [hub EXCEPT !.subs = @ \ {t}, !.ghosts = @ + 1] ELSE hub
  /\ UNCHANGED <<top, app, loop>>

\* The tab has taken all of a stream the server closed, and sees its end.
StreamEnds(t) ==
  /\ tab[t].phase = "closed"
  /\ tab[t].pipe = <<>>
  /\ tab' = [tab EXCEPT ![t].phase = "waiting"]
  /\ UNCHANGED <<top, app, hub, loop, faults>>

-----------------------------------------------------------------------------
FeedNext ==
  \/ \E carried \in BOOLEAN : AppendEvent(carried)
  \/ CatchUpPage
  \/ CatchUpFails
  \/ TickPage
  \/ TickFails
  \/ Cancelled
  \/ ServerRestart
  \/ \E t \in Tabs :
       \/ LoadSnapshot(t)
       \/ Subscribe(t)
       \/ Receive(t)
       \/ Drop(t)
       \/ StreamEnds(t)

FeedSpec == FeedInit /\ [][FeedNext]_feedVars

\* The API process goes on with its loops and its timer, and a tab with what its
\* connection brings: it takes events, sees the end and reconnects after a backoff.
HubGoesOn == CatchUpPage \/ TickPage
TabGoesOn(t) == Subscribe(t) \/ Receive(t) \/ StreamEnds(t)
FeedFairness == WF_feedVars(HubGoesOn) /\ \A t \in Tabs : WF_feedVars(TabGoesOn(t))

-----------------------------------------------------------------------------
(***************************************************************************)
(* Properties.                                                             *)
(***************************************************************************)
Items(pipe) == UNION {pipe[i] : i \in DOMAIN pipe}

\* The types: ids are ids that were appended, a cursor never runs ahead of the
\* table, and a pipe holds only ids of carried types.
FeedTypeOK ==
  /\ top \in 0..MaxEvents
  /\ app \subseteq 1..top
  /\ hub \in [head : 0..top, polling : BOOLEAN, subs : SUBSET Tabs, ghosts : Nat]
  /\ \/ loop \in {Idle, Ticking}
     \/ loop \in [kind : {"catchUp"}, tab : Tabs, since : 0..top, wasPolling : BOOLEAN]
  /\ tab \in [Tabs -> [phase : Phases, base : 0..top, cursor : 0..top,
                       seen : SUBSET app, pipe : Seq(SUBSET app)]]
  /\ faults \in 0..MaxStreamFaults

\* No gap: every carried event between a tab's snapshot and its cursor has been
\* applied.  The cursor is where the next connection resumes, so an event it skips
\* is never sent to this tab again (app-events.ts:105-108, app-event-hub.ts:81-99).
NoGap ==
  \A t \in Tabs : \A e \in app :
    tab[t].base < e /\ e <= tab[t].cursor => e \in tab[t].seen

\* One connection carries each event once, in ascending order, though the events of
\* its replay and those of the shared poll are read by two loops
\* (app-event-hub.ts:17).
Ascending(pipe) ==
  \A i, j \in DOMAIN pipe : i < j => \A d \in pipe[i], e \in pipe[j] : d < e
StreamAscends == \A t \in Tabs : Ascending(tab[t].pipe)

\* The hub polls exactly while a connection is subscribed: no timer is left behind by
\* the last one, and none is missing for the first (app-event-hub.ts:65-79, 101-111).
PollsWhileWatched == hub.polling <=> Watched(hub)

\* Every event of a carried type that is newer than a tab's snapshot is applied by
\* that tab in the end, whatever connections, reads and deliveries fail meanwhile
\* (app-events.ts:105-108).
EveryEventReachesEveryTab ==
  \A e \in 1..MaxEvents :
    (e \in app) ~> (\A t \in Tabs : tab[t].phase # "off" /\ tab[t].base < e => e \in tab[t].seen)
=============================================================================
