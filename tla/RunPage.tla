------------------------------- MODULE RunPage -------------------------------
(***************************************************************************)
(* The page of one run: the run the browser's query cache holds, the log   *)
(* of the run's events beside it, and the event stream that feeds both     *)
(* (frontend/lib/run-state.ts, useRunDetail.ts), with the server's end of  *)
(* that stream (http/runs-controller.ts).  Three sources race for it: the  *)
(* stream, which replays the run's history before the live events; the     *)
(* app-wide stream, which patches the cached run too; and GETs of the      *)
(* run, whose answers overwrite what was patched. The worker moves the     *)
(* run meanwhile, from another process: between the two reads of one poll  *)
(* of the stream too.                                                      *)
(*                                                                         *)
(* An event is its sequence number; what the server sent and the page has  *)
(* not taken are the numbers above stream.taken, up to stream.sent.        *)
(***************************************************************************)
EXTENDS Integers, Sequences

Policy == INSTANCE RunPolicy

CONSTANTS
  PageStatuses,   \* the statuses the run takes
  MaxRunEvents,   \* bound: how many events the run ever has
  MaxPageFaults   \* bound: failed reads, lost and silent connections

ASSUME PageAssumption ==
  /\ PageStatuses \subseteq Policy!RunStatus
  /\ MaxRunEvents \in Nat /\ MaxPageFaults \in Nat

VARIABLES
  events,     \* the run's events, by sequence number: the status of a status event, or Detail
  page,       \* [status, at, log, refresh]: the cached run and its updatedAt, the log, and
              \* whether an invalidation of the run is scheduled
  get,        \* the GET of the run in flight
  stream,     \* the page's event stream, both ends
  pageFaults  \* how many faults there have been

pageVars == <<events, page, get, stream, pageFaults>>

Detail == "detail"
Loading == "loading"
Top == Len(events)
Finished(status) == status \in Policy!TERMINAL

\* The run's status is that of its last status event, which is also when it was updated:
\* both are written in one transaction, with one timestamp.
UpdatedAt == CHOOSE i \in DOMAIN events :
  events[i] # Detail /\ \A j \in DOMAIN events : j > i => events[j] = Detail
RunsStatus == events[UpdatedAt]

NoGet == [kind |-> "none"]
Asked == [kind |-> "asked"]
Answer(status, at) == [kind |-> "answer", status |-> status, at |-> at]

\* "none": not subscribed yet.  "connecting": until the next request is served.  "open".
\* "deaf": dead, and neither end knows.  "closed": ended by the server.  "stopped",
\* "cut": a replay-only stream that is over, by the server's end or by a fault.
StreamPhases == {"none", "connecting", "open", "deaf", "closed", "stopped", "cut"}

\* checking: the server's poll has found no event and is about to read the run.
Connect(replayOnly, cursor) ==
  [phase |-> "connecting", replayOnly |-> replayOnly, taken |-> cursor, sent |-> cursor,
   checking |-> FALSE]

PageInit ==
  /\ \E status \in PageStatuses : ~Finished(status) /\ events = <<status>>
  /\ page = [status |-> Loading, at |-> 0, log |-> {}, refresh |-> FALSE]
  /\ get = NoGet
  /\ stream = [Connect(FALSE, 0) EXCEPT !.phase = "none"]
  /\ pageFaults = 0

PageFault == pageFaults < MaxPageFaults /\ pageFaults' = pageFaults + 1

-----------------------------------------------------------------------------
(***************************************************************************)
(* The run.                                                                *)
(***************************************************************************)
RunMoves ==
  /\ Top < MaxRunEvents
  /\ \E status \in PageStatuses :
       /\ Policy!canTransition(RunsStatus, status)
       /\ events' = Append(events, status)
  /\ UNCHANGED <<page, get, stream, pageFaults>>

\* A stage's output, a chat message, the outcome of the pull request: after the run's
\* end too.
RunLogs ==
  /\ Top < MaxRunEvents
  /\ events' = Append(events, Detail)
  /\ UNCHANGED <<page, get, stream, pageFaults>>

-----------------------------------------------------------------------------
(***************************************************************************)
(* GETs of the run.                                                        *)
(***************************************************************************)
\* The page is opened, or its window focused.
AskRun ==
  /\ get = NoGet
  /\ get' = Asked
  /\ UNCHANGED <<events, page, stream, pageFaults>>

\* Mutant of Polls: no polling while the stream looks open.
PollsWithoutStream(status) ==
  status \notin Policy!TERMINAL \cup {Loading} /\ stream.phase \notin {"open", "deaf"}
\* The polling fallback: an active run refreshes, whatever the stream is doing.
Polls(status) == status \notin Policy!TERMINAL \cup {Loading}

PollRun ==
  /\ Polls(page.status)
  /\ AskRun

ServeRun ==
  /\ get = Asked
  /\ get' = Answer(RunsStatus, UpdatedAt)
  /\ UNCHANGED <<events, page, stream, pageFaults>>

\* The answer replaces the cached run, also one the stream has patched since.
RunAnswered ==
  /\ get.kind = "answer"
  /\ page' = [page EXCEPT !.status = get.status, !.at = get.at]
  /\ get' = NoGet
  /\ UNCHANGED <<events, stream, pageFaults>>

GetFails ==
  /\ get # NoGet
  /\ PageFault
  /\ get' = NoGet
  /\ UNCHANGED <<events, page, stream>>

\* invalidateRun: a GET in flight is cancelled and a new one sent.
Refresh(p) ==
  /\ page' = [p EXCEPT !.refresh = FALSE]
  /\ get' = IF p.refresh THEN Asked ELSE get

InvalidationDue ==
  /\ page.refresh
  /\ Refresh(page)
  /\ UNCHANGED <<events, stream, pageFaults>>

-----------------------------------------------------------------------------
(***************************************************************************)
(* The server's end of the stream.                                         *)
(***************************************************************************)
\* The first terminal status the events above `since` hold, if any.
EndsAbove(since) == {i \in (since + 1)..Top : Finished(events[i])}

\* Mutant of Served: the run's status is asked before the events.
ServedRunFirst(s) ==
  IF Finished(RunsStatus) THEN [s EXCEPT !.phase = "closed", !.checking = FALSE]
  ELSE [s EXCEPT !.phase = "open", !.sent = Top, !.checking = (Top = s.sent)]
\* pollEvents as far as its first read: all newer events are sent, up to the one that
\* ends the run, behind which the stream is closed.
Served(s) ==
  IF EndsAbove(s.sent) # {}
  THEN [s EXCEPT !.phase = "closed", !.sent = CHOOSE i \in EndsAbove(s.sent) : TRUE]
  ELSE [s EXCEPT !.phase = "open", !.sent = Top, !.checking = (Top = s.sent)]

\* The request arrives, and the stream starts with a poll.
OpenStream ==
  /\ stream.phase = "connecting"
  /\ stream' = Served(stream)
  /\ UNCHANGED <<events, page, get, pageFaults>>

PollEvents ==
  /\ stream.phase = "open"
  /\ ~stream.checking
  /\ stream' = Served(stream)
  /\ UNCHANGED <<events, page, get, pageFaults>>

\* The rest of a poll that found nothing: close if the run has ended, by now.
CheckRun ==
  /\ stream.phase = "open"
  /\ stream.checking
  /\ stream' = [stream EXCEPT !.checking = FALSE,
                              !.phase = IF Finished(RunsStatus) THEN "closed" ELSE @]
  /\ UNCHANGED <<events, page, get, pageFaults>>

-----------------------------------------------------------------------------
(***************************************************************************)
(* The page's end of it.                                                   *)
(***************************************************************************)
Max0(log) == CHOOSE n \in log \cup {0} : \A m \in log : m <= n

\* The effect of useRunDetail: subscribe once the run is loaded, and again, from the
\* start, whenever the run turns finished or active on the page.  Stopping the old
\* subscription sends the refresh it had scheduled.
SubscribePage ==
  /\ page.status # Loading
  /\ stream.phase = "none" \/ stream.replayOnly # Finished(page.status)
  /\ stream' = Connect(Finished(page.status), 0)
  /\ IF stream.phase \in {"none", "stopped", "cut"} THEN UNCHANGED <<page, get>> ELSE Refresh(page)
  /\ UNCHANGED <<events, pageFaults>>

\* reduceRun for a status event: neither an older one than the cached run nor a move the
\* policy does not know changes it.
Reduced(p, e) ==
  IF events[e] # Detail /\ e >= p.at /\ Policy!canTransition(p.status, events[e])
  THEN [p EXCEPT !.status = events[e], !.at = e] ELSE p

\* applyWireMessage: an event the log has is ignored; a status event schedules a refresh.
AppliedEvent(p, e) ==
  IF e \in p.log THEN p
  ELSE [Reduced(p, e) EXCEPT !.log = @ \cup {e}, !.refresh = @ \/ events[e] # Detail]

\* The app-wide stream of the same browser (AppEvents) patches the cached run with status
\* events too, by the same reducer, sooner or later than the run's own stream.
AppEventPatches ==
  /\ page.status # Loading
  /\ \E e \in DOMAIN events : page' = Reduced(page, e)
  /\ UNCHANGED <<events, get, stream, pageFaults>>

TakeEvent ==
  /\ stream.phase \in {"open", "closed"}
  /\ stream.taken < stream.sent
  /\ stream' = [stream EXCEPT !.taken = @ + 1]
  /\ page' = AppliedEvent(page, stream.taken + 1)
  /\ UNCHANGED <<events, get, pageFaults>>

\* onError of a replay-only stream: it stops for good.  Of a live one: the browser
\* retries after the last event it received on this stream; when it has given up, the
\* subscriber reopens the stream after the last event in the log.
Errs(permanent, replayEnd) ==
  IF stream.replayOnly
  THEN stream' = [stream EXCEPT !.phase = replayEnd, !.checking = FALSE] /\ Refresh(page)
  ELSE /\ stream' = Connect(FALSE, IF permanent THEN Max0(page.log) ELSE stream.taken)
       /\ UNCHANGED <<page, get>>

\* The end of a stream the server closed, everything taken.
EndSeen ==
  /\ stream.phase = "closed"
  /\ stream.taken = stream.sent
  /\ Errs(FALSE, "stopped")
  /\ UNCHANGED <<events, pageFaults>>

\* The connection fails, the server ends or refuses it: what was on its way is lost.
StreamFails ==
  /\ stream.phase \in {"connecting", "open", "deaf", "closed"}
  /\ PageFault
  /\ \E permanent \in BOOLEAN : Errs(permanent, "cut")
  /\ UNCHANGED events

\* A proxy drops the silent connection and tells neither end.
StreamGoesDeaf ==
  /\ stream.phase \in {"open", "closed"}
  /\ PageFault
  /\ stream' = [stream EXCEPT !.phase = "deaf", !.checking = FALSE]
  /\ UNCHANGED <<events, page, get>>

-----------------------------------------------------------------------------
PageNext ==
  \/ RunMoves \/ RunLogs
  \/ AskRun \/ PollRun \/ ServeRun \/ RunAnswered \/ GetFails \/ InvalidationDue
  \/ OpenStream \/ PollEvents \/ CheckRun
  \/ SubscribePage \/ AppEventPatches \/ TakeEvent \/ EndSeen \/ StreamFails \/ StreamGoesDeaf

PageSpec == PageInit /\ [][PageNext]_pageVars

-----------------------------------------------------------------------------
(***************************************************************************)
(* Properties.                                                             *)
(***************************************************************************)
\* The types.  The log's is a prefix of the run's events: it has no hole, though its
\* last entry is where a stream is reopened and a hole would never be filled.
PageTypeOK ==
  /\ events \in Seq(PageStatuses \cup {Detail}) /\ Top \in 1..(MaxRunEvents + 1)
  /\ page \in [status : PageStatuses \cup {Loading}, at : 0..Top,
               log : {1..n : n \in 0..Top}, refresh : BOOLEAN]
  /\ \/ get \in {NoGet, Asked}
     \/ get \in [kind : {"answer"}, status : PageStatuses, at : 1..Top]
  /\ stream \in [phase : StreamPhases, replayOnly : BOOLEAN, taken : 0..Top, sent : 0..Top,
                 checking : BOOLEAN]
  /\ pageFaults \in 0..MaxPageFaults

\* Nothing is due on the page, and nothing but the user will make it ask again: the poll
\* is off, no answer and no refresh is awaited, and the stream has ended or is dead.
AtRest ==
  /\ page.status # Loading
  /\ ~Polls(page.status) /\ get = NoGet /\ ~page.refresh
  /\ stream.replayOnly = Finished(page.status)
  /\ stream.phase \in {"stopped", "cut", "deaf"}

\* A page at rest shows how its run ended, and its log holds every event up to that end
\* unless the replay-only stream itself failed: whatever answer overwrote the page late,
\* and whatever connection was lost or fell silent meanwhile
\* (run-state.ts:162-186, 346-352).
RestsAtTheEnd ==
  AtRest =>
    /\ Finished(RunsStatus)
    /\ page.status = RunsStatus
    /\ 1..UpdatedAt \subseteq page.log \/ stream.phase # "stopped"
=============================================================================
