------------------------------ MODULE PrChecker ------------------------------
(***************************************************************************)
(* The checks of one delivered run's pull request                          *)
(* (pull-request-checker.ts).  Every worker process runs a poll loop and a *)
(* command loop (worker.ts); both call checkRun of the process's one       *)
(* checker, which keeps its backoffs in memory.  A check reads the run,    *)
(* awaits its project, awaits the git host's answer and records an outcome *)
(* as an event; a unique index admits one outcome per run                  *)
(* (db/event-repository.ts, migration 012).  Runs share nothing here, so   *)
(* this is one run, whose status is pr_created for good once it has one.   *)
(***************************************************************************)
EXTENDS Naturals, FiniteSets

CONSTANTS
  Checkers,        \* the worker processes
  MaxMishaps,      \* bound: failed answers, restarts, a removed project, expiry
  MaxReopenings    \* bound: how often people reopen a closed pull request

ASSUME CheckAssumption == MaxMishaps \in Nat /\ MaxReopenings \in Nat

Loops == {"poll", "command"}

VARIABLES
  pr,           \* the pull request, at the host; "none" before the run is pr_created
  recorded,     \* the outcome events of the run
  expired,      \* the run is more than 30 days old
  request,      \* the run's check_pr command is active
  project,      \* the project can be loaded
  unresolvable, \* processes that found the run's project missing
  due,          \* of each process: "now", or "later" when a backoff or poll interval runs
  check,        \* where the check of each loop is, and what the host answered it
  mishaps,      \* how many of them there have been
  reopenings

prVars == <<pr, recorded, expired, request, project, unresolvable, due, check,
            mishaps, reopenings>>

Nothing == [at |-> "none", answer |-> "none"]
CheckPlaces == {"none", "resolve", "ask", "answered", "insert"}
Ended == {"merged", "closed"}

CheckInit ==
  /\ pr = "none"
  /\ recorded = {}
  /\ expired = FALSE
  /\ request = FALSE
  /\ project = TRUE
  /\ unresolvable = {}
  /\ due = [p \in Checkers |-> "now"]
  /\ check = [p \in Checkers |-> [l \in Loops |-> Nothing]]
  /\ mishaps = 0
  /\ reopenings = 0

-----------------------------------------------------------------------------
(***************************************************************************)
(* The world: people, time, the project's file.                            *)
(***************************************************************************)
world == <<pr, expired, project, reopenings>>
memory == <<unresolvable, due>>

Mishap == mishaps < MaxMishaps /\ mishaps' = mishaps + 1

HostChanges(to) ==
  /\ \/ pr = "none" /\ to = "open" /\ reopenings' = reopenings
     \/ pr = "open" /\ to \in Ended /\ reopenings' = reopenings
     \/ /\ pr = "closed" /\ to = "open"
        /\ reopenings < MaxReopenings /\ reopenings' = reopenings + 1
  /\ pr' = to
  /\ UNCHANGED <<recorded, expired, request, project, memory, check, mishaps>>

Expires ==
  /\ ~expired
  /\ Mishap
  /\ expired' = TRUE
  /\ UNCHANGED <<pr, recorded, request, project, memory, check, reopenings>>

\* The project is removed, or its file cannot be loaded any more.
ProjectGone ==
  /\ project
  /\ Mishap
  /\ project' = FALSE
  /\ UNCHANGED <<pr, recorded, expired, request, memory, check, reopenings>>

-----------------------------------------------------------------------------
(***************************************************************************)
(* A check.                                                                *)
(***************************************************************************)
\* JavaScript runs one thing at a time: nothing of a process moves while one of its
\* loops is between the look at the table and the insert.
Free(p) == \A l \in Loops : check[p][l].at # "insert"

Goes(p, l, at, answer) == check' = [check EXCEPT ![p][l] = [at |-> at, answer |-> answer]]

\* A check ends; the command loop completes its command with what it found.
EndCheck(p, l) ==
  /\ Goes(p, l, "none", "none")
  /\ request' = (request /\ l = "poll")

\* requestPullRequestCheck: an operator's command, unless one is active.
Request ==
  /\ pr # "none" /\ recorded = {} /\ ~expired /\ ~request
  /\ request' = TRUE
  /\ UNCHANGED <<world, recorded, memory, check, mishaps>>

\* One claimer at a time holds the command.
CommandTaken == \E q \in Checkers : check[q]["command"].at # "none"

MayCheck(p) ==
  pr # "none" /\ recorded = {} /\ p \notin unresolvable /\ ~expired /\ due[p] = "now"

\* The loop comes to the run: pollDueRuns skips one that is not due; a command is
\* answered at once.
BeginCheck(p, l) ==
  /\ Free(p) /\ check[p][l].at = "none"
  /\ l = "command" => request /\ ~CommandTaken
  /\ IF MayCheck(p)
     THEN Goes(p, l, "resolve", "none") /\ request' = request
     ELSE l = "command" /\ EndCheck(p, l)
  /\ UNCHANGED <<world, recorded, memory, mishaps>>

\* resolveProject: a run whose project is missing is not checked by this process again.
Resolve(p, l) ==
  /\ Free(p) /\ check[p][l].at = "resolve"
  /\ IF project
     THEN Goes(p, l, "ask", "none") /\ UNCHANGED <<unresolvable, request>>
     ELSE unresolvable' = unresolvable \cup {p} /\ EndCheck(p, l)
  /\ UNCHANGED <<world, recorded, due, mishaps>>

\* getPullRequestState reads the host; its answer arrives later.
Ask(p, l) ==
  /\ Free(p) /\ check[p][l].at = "ask"
  /\ Goes(p, l, "answered", pr)
  /\ UNCHANGED <<world, recorded, request, memory, mishaps>>

\* Any step of it fails: the run is due again after a backoff.
CheckFails(p, l) ==
  /\ Free(p) /\ check[p][l].at \in {"resolve", "ask", "answered"}
  /\ Mishap
  /\ due' = [due EXCEPT ![p] = "later"]
  /\ EndCheck(p, l)
  /\ UNCHANGED <<world, recorded, unresolvable>>

\* Mutant of IsOutcome: a merged pull request passes for an open one.
IsOutcomeMutant(answer) == answer = "closed"
IsOutcome(answer) == answer \in Ended

\* An open pull request is due again after the poll interval; an outcome is looked up,
\* and inserted if there is none.
TakeAnswer(p, l) ==
  /\ Free(p) /\ check[p][l].at = "answered"
  /\ IF ~IsOutcome(check[p][l].answer)
     THEN due' = [due EXCEPT ![p] = "later"] /\ EndCheck(p, l)
     ELSE /\ due' = due
          /\ IF recorded = {}
             THEN Goes(p, l, "insert", check[p][l].answer) /\ request' = request
             ELSE EndCheck(p, l)
  /\ UNCHANGED <<world, recorded, unresolvable, mishaps>>

\* Mutant of AfterInsert: no unique index.
AfterInsertMutant(outcome) == recorded \cup {outcome}
\* The insert: refused by the unique index when another process was first, and then
\* the outcome that is there is taken.
AfterInsert(outcome) == IF recorded = {} THEN {outcome} ELSE recorded
Insert(p, l) ==
  /\ check[p][l].at = "insert"
  /\ recorded' = AfterInsert(check[p][l].answer)
  /\ EndCheck(p, l)
  /\ UNCHANGED <<world, memory, mishaps>>

\* The backoff or the poll interval elapses.
Elapses(p) ==
  /\ Free(p) /\ due[p] = "later"
  /\ due' = [due EXCEPT ![p] = "now"]
  /\ UNCHANGED <<world, recorded, request, unresolvable, check, mishaps>>

\* The process dies and is started again, with an empty memory; the command it had
\* claimed is claimed again when its lease lapses.
Restart(p) ==
  /\ Mishap
  /\ unresolvable' = unresolvable \ {p}
  /\ due' = [due EXCEPT ![p] = "now"]
  /\ check' = [check EXCEPT ![p] = [l \in Loops |-> Nothing]]
  /\ UNCHANGED <<world, recorded, request>>

-----------------------------------------------------------------------------
CheckNext ==
  \/ \E to \in {"open"} \cup Ended : HostChanges(to)
  \/ Expires
  \/ ProjectGone
  \/ Request
  \/ \E p \in Checkers :
       \/ Elapses(p)
       \/ Restart(p)
       \/ \E l \in Loops : \/ BeginCheck(p, l)
                           \/ Resolve(p, l)
                           \/ Ask(p, l)
                           \/ CheckFails(p, l)
                           \/ TakeAnswer(p, l)
                           \/ Insert(p, l)

CheckSpec == CheckInit /\ [][CheckNext]_prVars

\* Both loops of a process poll for ever, every await of a check ends, timers elapse.
LoopGoesOn(p, l) ==
  BeginCheck(p, l) \/ Resolve(p, l) \/ Ask(p, l) \/ TakeAnswer(p, l) \/ Insert(p, l)
CheckFairness ==
  \A p \in Checkers :
    WF_prVars(Elapses(p)) /\ \A l \in Loops : WF_prVars(LoopGoesOn(p, l))

-----------------------------------------------------------------------------
\* The types.
CheckTypeOK ==
  /\ pr \in {"none", "open"} \cup Ended
  /\ recorded \subseteq Ended
  /\ expired \in BOOLEAN /\ request \in BOOLEAN /\ project \in BOOLEAN
  /\ unresolvable \subseteq Checkers
  /\ due \in [Checkers -> {"now", "later"}]
  /\ check \in [Checkers -> [Loops ->
       [at : CheckPlaces, answer : {"none", "open"} \cup Ended]]]
  /\ mishaps \in 0..MaxMishaps
  /\ reopenings \in 0..MaxReopenings

\* A run gets one outcome and keeps it, though two processes may see different ones,
\* each looking before the other inserts (event-repository.ts:114-175).
OneOutcomeForGood ==
  [][recorded # {} => recorded' = recorded]_prVars

\* A merged pull request's outcome is recorded in the end, unless the run expires or
\* some process loses its project first (worker.ts:354-364).
OutcomeIsRecorded ==
  (pr = "merged") ~> (recorded # {} \/ expired \/ ~project)
=============================================================================
