---------------------------- MODULE CreationClaim ----------------------------
(***************************************************************************)
(* withCreationClaim: the claim file that makes the creation of a project, *)
(* and every change of its connections, exclusive among processes.  There  *)
(* is one project id, and so one path.  A call creates the file at most    *)
(* once, so a claim file is named by the call that created it, wherever it *)
(* has been renamed to, and that name is also its token and tells its pid. *)
(*                                                                         *)
(* Time is left out.  Whether a claim is older than its TTL is a choice of *)
(* the step that looks, whatever the heartbeat did; whether the deadline   *)
(* of a waiting call has passed is a choice of that call.                  *)
(*                                                                         *)
(* The module has the steps of a call outside its action.  The action      *)
(* itself, what a call does at "region" and after, is in ProjectCreation.  *)
(***************************************************************************)
EXTENDS Naturals, FiniteSets

CONSTANTS
  Calls,        (* calls of withCreationClaim for one project id             *)
  Processes,    (* server and CLI processes                                  *)
  ProcessOf,    (* the process a call runs in                                *)
  MaxDeaths,    (* bound: processes that die                                 *)
  None

ASSUME ClaimAssumption ==
  /\ ProcessOf \in [Calls -> Processes]
  /\ MaxDeaths \in Nat
  /\ None \notin Calls

VARIABLES
  path,      (* the claim file at the claim path                             *)
  written,   (* claim files whose token has been written                     *)
  tomb,      (* the file a call has moved to its tombstone                   *)
  seen,      (* the token a call has read and now judges or moves            *)
  at,        (* the next step of each call                                   *)
  alive      (* the processes that run                                       *)

files == <<path, written, tomb, seen>>

(* Steps outside the action, in the order of the code.                        *)
ClaimSteps ==
  {"try", "write", "contended", "judge", "move", "verify", "back", "leave",
   "ended", "dead"}

ClaimInit ==
  /\ path = None
  /\ written = {}
  /\ tomb = [c \in Calls |-> None]
  /\ seen = [c \in Calls |-> None]
  /\ at = [c \in Calls |-> "try"]
  /\ alive = Processes

GoTo(c, step) == at' = [at EXCEPT ![c] = step]

InAction(c) == at[c] \notin ClaimSteps

(* Mutant of Token: an empty file has an empty token.                         *)
TokenOrEmpty(file) == IF file \in written THEN file ELSE "empty"

(* readClaim: the token of a file; none if it has none yet, or is not there.  *)
Token(file) == IF file \in written THEN file ELSE None

(* createClaimFile: open with "wx".                                           *)
Create(c) ==
  /\ at[c] = "try"
  /\ IF path = None THEN path' = c /\ GoTo(c, "write")
                    ELSE UNCHANGED path /\ GoTo(c, "contended")
  /\ UNCHANGED <<written, tomb, seen, alive>>

(* The token goes into the file through its handle.  If that fails the call   *)
(* is rejected and its empty file stays.                                      *)
Write(c) ==
  /\ at[c] = "write"
  /\ \/ written' = written \cup {c} /\ GoTo(c, "region")
     \/ UNCHANGED written /\ GoTo(c, "ended")
  /\ UNCHANGED <<path, tomb, seen, alive>>

(* Mutant of TimeOut: a waiting call has no deadline.                         *)
WaitOn(c) == FALSE /\ UNCHANGED <<files, at, alive>>

(* ClaimTimeoutError: the deadline is checked once in every iteration.        *)
TimeOut(c) ==
  /\ at[c] = "contended"
  /\ GoTo(c, "ended")
  /\ UNCHANGED <<files, alive>>

(* reclaimIfAbandoned reads the claim that is in the way.                     *)
Observe(c) ==
  /\ at[c] = "contended"
  /\ seen' = [seen EXCEPT ![c] = Token(path)]
  /\ GoTo(c, IF Token(path) = None THEN "try" ELSE "judge")
  /\ UNCHANGED <<path, written, tomb, alive>>

(* Mutant of Abandoned: a claim past its TTL is abandoned.                    *)
AbandonedByAge(file) == TRUE

(* isPidAlive                                                                 *)
Abandoned(file) == ProcessOf[file] \notin alive

(* A claim is taken over only if it is past its TTL and its process is gone.  *)
Judge(c) ==
  /\ at[c] = "judge"
  /\ \/ GoTo(c, "try")
     \/ Abandoned(seen[c]) /\ GoTo(c, "move")
  /\ UNCHANGED <<files, alive>>

(* A call that takes over a claim tries to create its own; one that releases  *)
(* its claim has nothing left to do.                                          *)
Onward(c) == IF seen[c] = c THEN "ended" ELSE "try"

(* The rename of the claim file to a tombstone, of a takeover and a release.  *)
MoveAside(c) ==
  /\ at[c] = "move"
  /\ IF path = None
     THEN GoTo(c, Onward(c)) /\ UNCHANGED <<path, tomb>>
     ELSE /\ tomb' = [tomb EXCEPT ![c] = path]
          /\ path' = None
          /\ GoTo(c, "verify")
  /\ UNCHANGED <<written, seen, alive>>

(* Mutant of MovedTheSeen: what was moved is what was seen.                   *)
MovedAny(c) == TRUE

MovedTheSeen(c) == Token(tomb[c]) = seen[c]

(* What was moved is removed if it is what was seen.                          *)
Verify(c) ==
  /\ at[c] = "verify"
  /\ IF MovedTheSeen(c)
     THEN tomb' = [tomb EXCEPT ![c] = None] /\ GoTo(c, Onward(c))
     ELSE UNCHANGED tomb /\ GoTo(c, "back")
  /\ UNCHANGED <<path, written, seen, alive>>

(* Otherwise it is linked back, unless there is a claim at the path by now.   *)
GiveBack(c) ==
  /\ at[c] = "back"
  /\ path' = IF path = None THEN tomb[c] ELSE path
  /\ tomb' = [tomb EXCEPT ![c] = None]
  /\ GoTo(c, Onward(c))
  /\ UNCHANGED <<written, seen, alive>>

(* release: a claim that is not the call's own is left alone.                 *)
Release(c) ==
  /\ at[c] = "leave"
  /\ IF Token(path) = c
     THEN seen' = [seen EXCEPT ![c] = c] /\ GoTo(c, "move")
     ELSE UNCHANGED seen /\ GoTo(c, "ended")
  /\ UNCHANGED <<path, written, tomb, alive>>

(* assertHeld, before step next of the action.                                *)
AssertHeld(c, next) ==
  /\ GoTo(c, IF Token(path) = c THEN next ELSE "leave")
  /\ UNCHANGED <<files, alive>>

(* A process dies, or exits, with all the calls it has not finished.          *)
Die(p) ==
  /\ p \in alive /\ Cardinality(Processes \ alive) < MaxDeaths
  /\ alive' = alive \ {p}
  /\ at' = [c \in Calls |-> IF ProcessOf[c] = p /\ at[c] # "ended"
                              THEN "dead" ELSE at[c]]
  /\ UNCHANGED files

ClaimStep(c) ==
  \/ Create(c)
  \/ Write(c)
  \/ TimeOut(c)
  \/ Observe(c)
  \/ Judge(c)
  \/ MoveAside(c)
  \/ Verify(c)
  \/ GiveBack(c)
  \/ Release(c)
-----------------------------------------------------------------------------
ClaimTypeOK ==
  /\ path \in Calls \cup {None}
  /\ written \subseteq Calls
  /\ tomb \in [Calls -> Calls \cup {None}]
  /\ seen \in [Calls -> Calls \cup {None}]
  /\ alive \subseteq Processes

(* Two calls are never inside their actions at once: "the loser of a reclaim  *)
(* race can never end up holding a claim that the winner also holds" (the     *)
(* comment on reclaimIfAbandoned).                                            *)
Exclusive ==
  \A c, d \in Calls : InAction(c) /\ InAction(d) => c = d

(* As long as no process has died the claim is exclusive, however slow its    *)
(* holder: nobody moves the claim of a live process away (reclaimIfAbandoned, *)
(* "a slow live holder must NOT be silently reclaimed").                      *)
ExclusiveAmongTheLiving == alive = Processes => Exclusive

(* A claim that is destroyed was its own holder's to release, or belonged to  *)
(* a process that is gone, or had been replaced: the tombstone of anything    *)
(* else goes back to the path (reclaimIfAbandoned and release).               *)
Destroys(c) == tomb[c] # None /\ tomb'[c] = None /\ path' # tomb[c]
DestroysOnlyTheDead ==
  [][\A c \in Calls : Destroys(c) =>
        \/ tomb[c] = c
        \/ ProcessOf[tomb[c]] \notin alive
        \/ path # None]_<<files, at, alive>>
=============================================================================
