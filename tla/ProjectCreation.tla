--------------------------- MODULE ProjectCreation ---------------------------
(***************************************************************************)
(* What a call does to a project while it holds the creation claim.  The   *)
(* project with the one id has a record in projects.json and secrets in an *)
(* env file.  A call of kind                                               *)
(*   create   createProjectFromConnections: secrets, then a new record     *)
(*   update   updateProjectConnectionsById: secrets, then the record, then *)
(*            the keys of the connections it dropped                       *)
(*   plain    createProject: a new record without connections              *)
(*                                                                         *)
(* A call configures one connection with one secret, under key KeyOf; both *)
(* the record and the secret it writes are named by the call.  Reading a   *)
(* file and writing it are two steps wherever the code awaits in between.  *)
(***************************************************************************)
EXTENDS CreationClaim

CONSTANTS
  Keys,      (* env keys                                                     *)
  Kind,      (* the kind of each call                                        *)
  KeyOf      (* the env key of the connection a call configures              *)

ASSUME CreationAssumption ==
  /\ Kind \in [Calls -> {"create", "update", "plain"}]
  /\ KeyOf \in [Calls -> Keys]

VARIABLES
  record,    (* the call whose record the project has, if it exists          *)
  env,       (* the env file: the call whose secret is under each key        *)
  loaded,    (* the env file as a call has loaded it                         *)
  before,    (* the record a call found                                      *)
  shared     (* history: two calls have been inside their actions at once    *)

vars == <<path, written, tomb, seen, at, alive, record, env, loaded, before, shared>>

project == <<record, env, loaded, before>>

NoKeys == [k \in Keys |-> None]

Init ==
  /\ ClaimInit
  /\ record = None
  /\ env = NoKeys
  /\ loaded = [c \in Calls |-> NoKeys]
  /\ before = [c \in Calls |-> None]
  /\ shared = FALSE

(* Mutant of Refused: a creation does not look for a project with its id.     *)
RefusedIfMissing(c) == Kind[c] = "update" /\ record = None

(* A creation is refused if the project exists, an update if it does not.     *)
Refused(c) ==
  IF Kind[c] = "update" THEN record = None ELSE record # None

(* What the action of a call goes on with.                                    *)
FirstStep == [update |-> "fenceRead", create |-> "fenceEnv", plain |-> "fenceRecord"]

(* The duplicate check, or the read of the project to update.                 *)
Check(c) ==
  /\ at[c] = "region"
  /\ before' = [before EXCEPT ![c] = record]
  /\ GoTo(c, IF Refused(c) THEN "leave" ELSE FirstStep[Kind[c]])
  /\ UNCHANGED <<files, alive, record, env, loaded>>

(* The claim is checked before an update prepares its connections, before     *)
(* secrets are written and before the record is.                              *)
Fence(c) ==
  /\ \/ at[c] = "fenceRead" /\ AssertHeld(c, "fenceEnv")
     \/ at[c] = "fenceEnv" /\ AssertHeld(c, "loadEnv")
     \/ at[c] = "fenceRecord" /\ AssertHeld(c, "record")
  /\ UNCHANGED project

(* loadProjectEnv, in saveProjectEnv and in deleteProjectEnvKeys.             *)
LoadEnv(c) ==
  /\ \/ at[c] = "loadEnv" /\ GoTo(c, "saveEnv")
     \/ at[c] = "loadKeys" /\ GoTo(c, "deleteKeys")
  /\ loaded' = [loaded EXCEPT ![c] = env]
  /\ UNCHANGED <<files, alive, record, env, before>>

(* saveProjectEnv writes what it loaded and the secret, or fails.             *)
SaveEnv(c) ==
  /\ at[c] = "saveEnv"
  /\ \/ /\ env' = [loaded[c] EXCEPT ![KeyOf[c]] = c]
        /\ GoTo(c, IF Kind[c] = "create" THEN "fenceAppend" ELSE "fenceRecord")
     \/ UNCHANGED env /\ GoTo(c, "leave")
  /\ UNCHANGED <<files, alive, record, loaded, before>>

(* appendProjectRecord repeats the duplicate check on the file it will write. *)
CheckAppend(c) ==
  /\ \/ at[c] = "fenceAppend" /\ AssertHeld(c, "append")
     \/ /\ at[c] = "append"
        /\ GoTo(c, IF record # None THEN "leave" ELSE "record")
        /\ UNCHANGED <<files, alive>>
  /\ UNCHANGED project

(* Mutant of Dropped: a key the replacement uses too is dropped.              *)
DroppedKeys(c) == IF Kind[c] # "update" THEN {} ELSE {KeyOf[before[c]]}

(* envKeysToDelete: the keys of the connections that an update replaces, but  *)
(* for those it has just written.  A record without connections has none.     *)
Dropped(c) ==
  IF Kind[c] # "update" \/ Kind[before[c]] = "plain" THEN {}
  ELSE {KeyOf[before[c]]} \ {KeyOf[c]}

(* The commit point: the record is written, or the write fails.               *)
WriteRecord(c) ==
  /\ at[c] = "record"
  /\ \/ record' = c /\ GoTo(c, IF Dropped(c) = {} THEN "leave" ELSE "loadKeys")
     \/ UNCHANGED record /\ GoTo(c, "leave")
  /\ UNCHANGED <<files, alive, env, loaded, before>>

(* deleteProjectEnvKeys writes what it loaded without the keys, or fails.     *)
DeleteKeys(c) ==
  /\ at[c] = "deleteKeys"
  /\ \/ env' = [k \in Keys |-> IF k \in Dropped(c) THEN None ELSE loaded[c][k]]
     \/ UNCHANGED env
  /\ GoTo(c, "leave")
  /\ UNCHANGED <<files, alive, record, loaded, before>>

(* The history of exclusion: it constrains no step.                           *)
Recorded == shared' = (shared \/ ~Exclusive')

CallStep(c) ==
  /\ \/ ClaimStep(c) /\ UNCHANGED project
     \/ Check(c)
     \/ Fence(c)
     \/ LoadEnv(c)
     \/ SaveEnv(c)
     \/ CheckAppend(c)
     \/ WriteRecord(c)
     \/ DeleteKeys(c)
  /\ Recorded

Next ==
  \/ \E c \in Calls : CallStep(c)
  \/ \E p \in Processes : Die(p) /\ UNCHANGED project /\ Recorded

Spec == Init /\ [][Next]_vars

(* A call goes on unless its process dies.  Once its deadline has passed it   *)
(* has passed at every later check: a call that checks it again and again     *)
(* times out.                                                                 *)
TimesOut(c) == TimeOut(c) /\ UNCHANGED project /\ Recorded

Fairness == \A c \in Calls : WF_vars(CallStep(c)) /\ SF_vars(TimesOut(c))

FairSpec == Spec /\ Fairness
-----------------------------------------------------------------------------
Steps == ClaimSteps \cup
  {"region", "fenceRead", "fenceEnv", "loadEnv", "saveEnv", "fenceAppend", "append",
   "fenceRecord", "record", "loadKeys", "deleteKeys"}

(* Every file holds what a call can have written to it (the type of state).   *)
TypeOK ==
  /\ ClaimTypeOK
  /\ at \in [Calls -> Steps]
  /\ record \in Calls \cup {None}
  /\ env \in [Keys -> Calls \cup {None}]
  /\ loaded \in [Calls -> [Keys -> Calls \cup {None}]]
  /\ before \in [Calls -> Calls \cup {None}]
  /\ shared \in BOOLEAN

(* As long as the claim has been exclusive a project is never without its     *)
(* secret, whatever failed or died in between: under the key of its record is *)
(* the secret that came with the record, or that of an update since; never    *)
(* that of another creation (applyConnectionSetPlan: secrets, then the record *)
(* as the commit point, then the removals).                                   *)
RecordHasItsSecret ==
  ~shared /\ record # None /\ Kind[record] # "plain" =>
    LET secret == env[KeyOf[record]]
    IN secret # None /\ (secret = record \/ Kind[secret] = "update")

(* As long as the claim has been exclusive, the creation of a project that    *)
(* exists writes nothing: neither its record nor its secrets change but by an *)
(* update ("the loser cannot write at all", the head of creation-claim.ts).   *)
LoserWritesNothing ==
  [][record # None /\ ~shared' /\ <<record, env>>' # <<record, env>>
       => \E c \in Calls : Kind[c] = "update" /\ at'[c] # at[c] /\ InAction(c)]_vars

(* Every call returns or fails, unless its process dies: also one that waits  *)
(* for a claim nobody will ever release (CLAIM_WAIT_TIMEOUT_MS).              *)
EveryCallEnds == \A c \in Calls : <>(at[c] \in {"ended", "dead"})
=============================================================================
