---------------------------- MODULE CreationProofs ----------------------------
(***************************************************************************)
(* For any number of calls, processes and deaths: the claim is exclusive   *)
(* as long as no process has died, and as long as it has been exclusive a  *)
(* project has its secrets and the creation of an existing project writes  *)
(* nothing.                                                                *)
(***************************************************************************)
EXTENDS ProjectCreation, TLAPS

(* The steps of a call inside its action.                                     *)
Action(c) ==
  Check(c) \/ Fence(c) \/ LoadEnv(c) \/ SaveEnv(c) \/ CheckAppend(c)
    \/ WriteRecord(c) \/ DeleteKeys(c)

LEMMA ClaimStepType ==
  ASSUME TypeOK, NEW c \in Calls, ClaimStep(c)
  PROVE  ClaimTypeOK' /\ at' \in [Calls -> Steps]
<1> USE DEF TypeOK, ClaimTypeOK, GoTo, files, Onward, Token, Steps, ClaimSteps
<1>1. CASE Create(c)
  BY <1>1 DEF Create
<1>2. CASE Write(c)
  BY <1>2 DEF Write
<1>3. CASE TimeOut(c)
  BY <1>3 DEF TimeOut
<1>4. CASE Observe(c)
  BY <1>4 DEF Observe
<1>5. CASE Judge(c)
  BY <1>5 DEF Judge
<1>6. CASE MoveAside(c)
  BY <1>6 DEF MoveAside
<1>7. CASE Verify(c)
  BY <1>7 DEF Verify
<1>8. CASE GiveBack(c)
  BY <1>8 DEF GiveBack
<1>9. CASE Release(c)
  BY <1>9 DEF Release
<1> QED BY <1>1, <1>2, <1>3, <1>4, <1>5, <1>6, <1>7, <1>8, <1>9 DEF ClaimStep

(* A step inside an action leaves the files of the claim alone and takes its  *)
(* call to another step of the action or out of it.                           *)
LEMMA ActionKeepsClaim ==
  ASSUME TypeOK, NEW c \in Calls, Action(c)
  PROVE  /\ UNCHANGED <<path, written, tomb, seen, alive>>
         /\ InAction(c)
         /\ \E s \in (Steps \ ClaimSteps) \cup {"leave"} : at' = [at EXCEPT ![c] = s]
<1> USE DEF TypeOK, GoTo, InAction, files, Steps, ClaimSteps
<1>1. CASE Check(c)
  <2>1. FirstStep[Kind[c]] \in {"fenceRead", "fenceEnv", "fenceRecord"}
    BY CreationAssumption DEF FirstStep
  <2> QED BY <1>1, <2>1 DEF Check
<1>2. CASE Fence(c)
  BY <1>2 DEF Fence, AssertHeld
<1>3. CASE LoadEnv(c)
  BY <1>3 DEF LoadEnv
<1>4. CASE SaveEnv(c)
  BY <1>4 DEF SaveEnv
<1>5. CASE CheckAppend(c)
  BY <1>5 DEF CheckAppend, AssertHeld
<1>6. CASE WriteRecord(c)
  BY <1>6 DEF WriteRecord
<1>7. CASE DeleteKeys(c)
  BY <1>7 DEF DeleteKeys
<1> QED BY <1>1, <1>2, <1>3, <1>4, <1>5, <1>6, <1>7 DEF Action

LEMMA ActionType ==
  ASSUME TypeOK, NEW c \in Calls, Action(c)
  PROVE  /\ record' \in Calls \cup {None}
         /\ env' \in [Keys -> Calls \cup {None}]
         /\ loaded' \in [Calls -> [Keys -> Calls \cup {None}]]
         /\ before' \in [Calls -> Calls \cup {None}]
<1> USE CreationAssumption DEF TypeOK
<1>1. CASE Check(c)
  BY <1>1 DEF Check
<1>2. CASE Fence(c)
  BY <1>2 DEF Fence, project
<1>3. CASE LoadEnv(c)
  BY <1>3 DEF LoadEnv
<1>4. CASE SaveEnv(c)
  BY <1>4 DEF SaveEnv
<1>5. CASE CheckAppend(c)
  BY <1>5 DEF CheckAppend, project
<1>6. CASE WriteRecord(c)
  BY <1>6 DEF WriteRecord
<1>7. CASE DeleteKeys(c)
  BY <1>7 DEF DeleteKeys
<1> QED BY <1>1, <1>2, <1>3, <1>4, <1>5, <1>6, <1>7 DEF Action

(* CreationTypeCorrect: the files and the state of every call keep their      *)
(* types (TypeOK of ProjectCreation).                                         *)
THEOREM CreationTypeCorrect == Spec => []TypeOK
<1>1. Init => TypeOK
  BY DEF Init, ClaimInit, NoKeys, TypeOK, ClaimTypeOK, Steps, ClaimSteps
<1>2. TypeOK /\ [Next]_vars => TypeOK'
  <2> SUFFICES ASSUME TypeOK, [Next]_vars
               PROVE  TypeOK'
    OBVIOUS
  <2>1. ASSUME NEW c \in Calls, ClaimStep(c), UNCHANGED project, Recorded
        PROVE  TypeOK'
    <3>1. ClaimTypeOK' /\ at' \in [Calls -> Steps]
      BY <2>1, ClaimStepType
    <3>2. shared' \in BOOLEAN
      BY <2>1 DEF TypeOK, Recorded, Exclusive
    <3> QED BY <2>1, <3>1, <3>2 DEF TypeOK, project
  <2>2. ASSUME NEW c \in Calls, Action(c), Recorded
        PROVE  TypeOK'
    <3>1. ClaimTypeOK' /\ at' \in [Calls -> Steps]
      BY <2>2, ActionKeepsClaim DEF TypeOK, ClaimTypeOK, Steps, ClaimSteps
    <3>2. shared' \in BOOLEAN
      BY <2>2 DEF TypeOK, Recorded, Exclusive
    <3> QED BY <2>2, <3>1, <3>2, ActionType DEF TypeOK
  <2>3. ASSUME NEW p \in Processes, Die(p), UNCHANGED project, Recorded
        PROVE  TypeOK'
    <3>1. shared' \in BOOLEAN
      BY <2>3 DEF TypeOK, Recorded, Exclusive
    <3> QED BY <2>3, <3>1 DEF TypeOK, ClaimTypeOK, Die, files, project, Steps, ClaimSteps
  <2>4. CASE UNCHANGED vars
    BY <2>4 DEF vars, TypeOK, ClaimTypeOK
  <2> QED BY <2>1, <2>2, <2>3, <2>4 DEF Next, CallStep, Action
<1> QED BY <1>1, <1>2, PTL DEF Spec
-----------------------------------------------------------------------------
(* Where the claim of a call is while no process has died: at the path until  *)
(* the call moves it away itself, and nobody else moves anything.             *)
ClaimPlace(c) ==
  /\ at[c] # "back"
  /\ at[c] = "judge" => seen[c] # None
  /\ at[c] \in {"move", "verify"} => seen[c] = c
  /\ InAction(c) \/ at[c] \in {"write", "leave", "move"} => path = c
  /\ InAction(c) \/ at[c] \in {"leave", "move", "verify"} => c \in written
  /\ at[c] = "verify" => tomb[c] = c

LiveInv == alive = Processes => \A c \in Calls : ClaimPlace(c)

LEMMA ClaimStepPlace ==
  ASSUME TypeOK, NEW c \in Calls, ClaimStep(c), alive = Processes,
         \A d \in Calls : ClaimPlace(d)
  PROVE  \A d \in Calls : ClaimPlace(d)'
<1> USE ClaimAssumption DEF TypeOK, ClaimTypeOK, GoTo, files, Token, ClaimSteps, InAction, ClaimPlace
<1>1. CASE Create(c)
  BY <1>1 DEF Create
<1>2. CASE Write(c)
  BY <1>2 DEF Write
<1>3. CASE TimeOut(c)
  BY <1>3 DEF TimeOut
<1>4. CASE Observe(c)
  BY <1>4 DEF Observe
<1>5. CASE Judge(c)
  BY <1>5 DEF Judge, Abandoned
<1>6. CASE MoveAside(c)
  BY <1>6 DEF MoveAside, Onward
<1>7. CASE Verify(c)
  BY <1>7 DEF Verify, Onward, MovedTheSeen
<1>8. CASE GiveBack(c)
  BY <1>8 DEF GiveBack
<1>9. CASE Release(c)
  BY <1>9 DEF Release
<1> QED BY <1>1, <1>2, <1>3, <1>4, <1>5, <1>6, <1>7, <1>8, <1>9 DEF ClaimStep

LEMMA ActionPlace ==
  ASSUME TypeOK, NEW c \in Calls, Action(c), \A d \in Calls : ClaimPlace(d)
  PROVE  \A d \in Calls : ClaimPlace(d)'
<1>1. PICK s \in (Steps \ ClaimSteps) \cup {"leave"} : at' = [at EXCEPT ![c] = s]
  BY ActionKeepsClaim
<1>2. InAction(c) /\ UNCHANGED <<path, written, tomb, seen, alive>>
  BY ActionKeepsClaim
<1>3. ClaimPlace(c)'
  BY <1>1, <1>2 DEF TypeOK, ClaimPlace, InAction, Steps, ClaimSteps
<1>4. ASSUME NEW d \in Calls, d # c
      PROVE  ClaimPlace(d)'
  BY <1>1, <1>2, <1>4 DEF TypeOK, ClaimPlace, InAction
<1> QED BY <1>3, <1>4

(* ClaimExclusive: no call, however slow, loses its claim to another while    *)
(* every process lives (ExclusiveAmongTheLiving).                             *)
THEOREM ClaimExclusive == Spec => []ExclusiveAmongTheLiving
<1>1. Init => LiveInv
  BY DEF Init, ClaimInit, LiveInv, ClaimPlace, InAction, ClaimSteps
<1>2. TypeOK /\ LiveInv /\ [Next]_vars => LiveInv'
  <2> SUFFICES ASSUME TypeOK, LiveInv, [Next]_vars, alive' = Processes
               PROVE  \A d \in Calls : ClaimPlace(d)'
    BY DEF LiveInv
  <2>1. CASE UNCHANGED vars
    BY <2>1 DEF vars, LiveInv, ClaimPlace, InAction
  <2>2. ASSUME NEW c \in Calls, ClaimStep(c)
        PROVE  \A d \in Calls : ClaimPlace(d)'
    <3>1. alive' = alive
      BY <2>2 DEF ClaimStep, Create, Write, TimeOut, Observe, Judge, MoveAside, Verify,
                  GiveBack, Release
    <3> QED BY <2>2, <3>1, ClaimStepPlace DEF LiveInv
  <2>3. ASSUME NEW c \in Calls, Action(c)
        PROVE  \A d \in Calls : ClaimPlace(d)'
    BY <2>3, ActionKeepsClaim, ActionPlace DEF LiveInv
  <2>4. ASSUME NEW p \in Processes, Die(p)
        PROVE  FALSE
    BY <2>4 DEF Die
  <2> QED BY <2>1, <2>2, <2>3, <2>4 DEF Next, CallStep, Action
<1>3. LiveInv => ExclusiveAmongTheLiving
  BY DEF LiveInv, ClaimPlace, ExclusiveAmongTheLiving, Exclusive
<1> QED BY <1>1, <1>2, <1>3, CreationTypeCorrect, PTL DEF Spec
-----------------------------------------------------------------------------
(* What a call moves, it has seen to be its own or a dead process's.          *)
Seen(c) ==
  /\ at[c] = "judge" => seen[c] # None
  /\ at[c] \in {"move", "verify"} =>
       seen[c] # None /\ (seen[c] = c \/ ProcessOf[seen[c]] \notin alive)

SeenInv == \A c \in Calls : Seen(c)

LEMMA ClaimStepSeen ==
  ASSUME TypeOK, SeenInv, NEW c \in Calls, ClaimStep(c)
  PROVE  SeenInv'
<1> USE ClaimAssumption DEF TypeOK, ClaimTypeOK, GoTo, files, Seen, SeenInv
<1>1. CASE Create(c)
  BY <1>1 DEF Create
<1>2. CASE Write(c)
  BY <1>2 DEF Write
<1>3. CASE TimeOut(c)
  BY <1>3 DEF TimeOut
<1>4. CASE Observe(c)
  BY <1>4 DEF Observe
<1>5. CASE Judge(c)
  BY <1>5 DEF Judge, Abandoned
<1>6. CASE MoveAside(c)
  BY <1>6 DEF MoveAside, Onward
<1>7. CASE Verify(c)
  BY <1>7 DEF Verify, Onward
<1>8. CASE GiveBack(c)
  BY <1>8 DEF GiveBack, Onward
<1>9. CASE Release(c)
  BY <1>9 DEF Release
<1> QED BY <1>1, <1>2, <1>3, <1>4, <1>5, <1>6, <1>7, <1>8, <1>9 DEF ClaimStep

LEMMA SeenStep ==
  ASSUME TypeOK, SeenInv, [Next]_vars
  PROVE  SeenInv'
<1>1. CASE UNCHANGED vars
  BY <1>1 DEF vars, SeenInv, Seen
<1>2. ASSUME NEW c \in Calls, Action(c)
      PROVE  SeenInv'
  BY <1>2, ActionKeepsClaim DEF TypeOK, SeenInv, Seen, Steps, ClaimSteps
<1>3. ASSUME NEW p \in Processes, Die(p)
      PROVE  SeenInv'
  BY <1>3 DEF Die, TypeOK, SeenInv, Seen, files
<1> QED BY <1>1, <1>2, <1>3, ClaimStepSeen DEF Next, CallStep, Action

LEMMA StepDestroys ==
  ASSUME TypeOK, SeenInv, [Next]_vars, NEW c \in Calls, Destroys(c)
  PROVE  tomb[c] = c \/ ProcessOf[tomb[c]] \notin alive \/ path # None
<1>1. PICK d \in Calls : ClaimStep(d)
  BY ActionKeepsClaim DEF Destroys, Next, CallStep, Action, Die, vars, files
<1>2. Verify(d) \/ GiveBack(d) \/ MoveAside(d)
  BY <1>1 DEF ClaimStep, Destroys, Create, Write, TimeOut, Observe, Judge, Release, files
<1>3. CASE MoveAside(d)
  BY <1>3 DEF MoveAside, Destroys, TypeOK, ClaimTypeOK
<1>4. CASE GiveBack(d)
  BY <1>4 DEF GiveBack, Destroys, TypeOK, ClaimTypeOK
<1>5. CASE Verify(d)
  <2>1. c = d /\ Token(tomb[c]) = seen[c] /\ at[c] = "verify"
    BY <1>5 DEF Verify, MovedTheSeen, Destroys, TypeOK, ClaimTypeOK
  <2>2. seen[c] # None
    BY <2>1 DEF SeenInv, Seen
  <2>3. tomb[c] = seen[c]
    BY <2>1, <2>2 DEF Token
  <2> QED BY <2>1, <2>3 DEF SeenInv, Seen
<1> QED BY <1>2, <1>3, <1>4, <1>5

(* DestroysCorrect: whatever the races of takeovers and releases, and however *)
(* many processes die, no claim of a live call is removed while the path is   *)
(* free (DestroysOnlyTheDead).                                                *)
THEOREM DestroysCorrect == Spec => DestroysOnlyTheDead
<1> DEFINE Safe == \A c \in Calls : Destroys(c) =>
        \/ tomb[c] = c
        \/ ProcessOf[tomb[c]] \notin alive
        \/ path # None
<1>1. Init => SeenInv
  BY DEF Init, ClaimInit, SeenInv, Seen
<1>2. TypeOK /\ SeenInv /\ [Next]_vars => SeenInv'
  BY SeenStep
<1>3. TypeOK /\ SeenInv /\ [Next]_vars => [Safe]_<<files, at, alive>>
  BY StepDestroys
<1> QED BY <1>1, <1>2, <1>3, CreationTypeCorrect, PTL DEF Spec, DestroysOnlyTheDead
-----------------------------------------------------------------------------
(* What a call inside its action knows of the project, because only a call    *)
(* inside its action changes it and no other call is inside.                  *)
Knows(c) ==
  /\ at[c] \in {"fenceRead", "loadKeys", "deleteKeys"} => Kind[c] = "update"
  /\ at[c] \in {"fenceAppend", "append"} => Kind[c] = "create"
  /\ at[c] \in {"fenceEnv", "loadEnv", "saveEnv"} => Kind[c] # "plain"
  /\ InAction(c) /\ at[c] # "region" /\ Kind[c] # "update" => record = None
  /\ at[c] \in {"loadKeys", "deleteKeys"} => record = c
  /\ at[c] \in {"saveEnv", "deleteKeys"} => loaded[c] = env
  /\ at[c] \in {"fenceAppend", "append", "fenceRecord", "record", "loadKeys", "deleteKeys"}
     /\ Kind[c] # "plain" => env[KeyOf[c]] = c

(* The part of RecordHasItsSecret that follows the history of exclusion.      *)
SecretThere ==
  record # None /\ Kind[record] # "plain" =>
    LET secret == env[KeyOf[record]]
    IN secret # None /\ (secret = record \/ Kind[secret] = "update")

ProjectInv == ~shared => Exclusive /\ SecretThere /\ \A c \in Calls : Knows(c)

LEMMA ClaimStepKnows ==
  ASSUME TypeOK, NEW c \in Calls, ClaimStep(c), UNCHANGED project,
         \A d \in Calls : Knows(d)
  PROVE  \A d \in Calls : Knows(d)'
<1>1. PICK s \in ClaimSteps \cup {"region"} : at' = [at EXCEPT ![c] = s]
  BY DEF ClaimStep, Create, Write, TimeOut, Observe, Judge, MoveAside, Verify, GiveBack,
         Release, GoTo, Onward, ClaimSteps
<1>2. Knows(c)'
  BY <1>1 DEF TypeOK, Knows, InAction, ClaimSteps
<1>3. ASSUME NEW d \in Calls, d # c
      PROVE  Knows(d)'
  BY <1>1, <1>3 DEF TypeOK, Knows, InAction, project
<1> QED BY <1>2, <1>3

LEMMA ActionKnows ==
  ASSUME TypeOK, NEW c \in Calls, Action(c), Knows(c), SecretThere
  PROVE  Knows(c)' /\ SecretThere'
<1> USE CreationAssumption, ClaimAssumption
    DEF TypeOK, ClaimTypeOK, GoTo, Knows, InAction, ClaimSteps, files
<1>1. CASE Check(c)
  <2>1. UNCHANGED <<record, env, loaded>>
    BY <1>1 DEF Check
  <2>2. CASE Refused(c)
    <3>1. at'[c] = "leave"
      BY <1>1, <2>2 DEF Check
    <3> QED BY <2>1, <3>1 DEF SecretThere
  <2>3. CASE ~Refused(c) /\ Kind[c] = "update"
    <3>1. at'[c] = "fenceRead"
      BY <1>1, <2>3 DEF Check, FirstStep
    <3> QED BY <2>1, <2>3, <3>1 DEF SecretThere
  <2>4. CASE ~Refused(c) /\ Kind[c] # "update"
    <3>1. record = None
      BY <2>4 DEF Refused
    <3>2. at'[c] = FirstStep[Kind[c]]
      BY <1>1, <2>4 DEF Check
    <3>3. Kind[c] = "create" \/ Kind[c] = "plain"
      BY <2>4
    <3>4. FirstStep["create"] = "fenceEnv" /\ FirstStep["plain"] = "fenceRecord"
      BY DEF FirstStep
    <3>5. \/ Kind[c] = "create" /\ at'[c] = "fenceEnv"
          \/ Kind[c] = "plain" /\ at'[c] = "fenceRecord"
      <4>1. CASE Kind[c] = "create"
        BY ONLY <3>2, <3>4, <4>1
      <4>2. CASE Kind[c] = "plain"
        BY ONLY <3>2, <3>4, <4>2
      <4> QED BY ONLY <3>3, <4>1, <4>2
    <3> QED BY <2>1, <3>1, <3>5 DEF SecretThere
  <2> QED BY <2>2, <2>3, <2>4
<1>2. CASE Fence(c)
  BY <1>2 DEF Fence, AssertHeld, project, SecretThere
<1>3. CASE LoadEnv(c)
  BY <1>3 DEF LoadEnv, SecretThere
<1>4. CASE SaveEnv(c)
  <2>1. CASE UNCHANGED env /\ GoTo(c, "leave")
    BY <1>4, <2>1 DEF SaveEnv, SecretThere
  <2>2. CASE env' = [loaded[c] EXCEPT ![KeyOf[c]] = c]
    <3>1. env' = [env EXCEPT ![KeyOf[c]] = c] /\ record' = record
      BY <1>4, <2>2 DEF SaveEnv
    <3>2. env'[KeyOf[c]] = c /\ Kind[c] # "plain"
      BY <1>4, <3>1 DEF SaveEnv
    <3>3. Knows(c)'
      BY <1>4, <2>2, <3>1, <3>2 DEF SaveEnv
    <3>4. SecretThere'
      BY <1>4, <3>1, <3>2 DEF SaveEnv, SecretThere
    <3> QED BY <3>3, <3>4
  <2> QED BY <1>4, <2>1, <2>2 DEF SaveEnv
<1>5. CASE CheckAppend(c)
  BY <1>5 DEF CheckAppend, AssertHeld, project, SecretThere
<1>6. CASE WriteRecord(c)
  <2>1. Dropped(c) # {} => Kind[c] = "update"
    BY DEF Dropped
  <2>2. Knows(c)'
    BY <1>6, <2>1 DEF WriteRecord
  <2>3. SecretThere'
    BY <1>6 DEF WriteRecord, SecretThere
  <2> QED BY <2>2, <2>3
<1>7. CASE DeleteKeys(c)
  <2>1. KeyOf[c] \notin Dropped(c)
    BY DEF Dropped
  <2>2. env'[KeyOf[c]] = c /\ record' = c
    BY <1>7, <2>1 DEF DeleteKeys
  <2>3. Knows(c)'
    BY <1>7 DEF DeleteKeys
  <2>4. SecretThere'
    BY <2>2 DEF SecretThere
  <2> QED BY <2>3, <2>4
<1> QED BY <1>1, <1>2, <1>3, <1>4, <1>5, <1>6, <1>7 DEF Action

LEMMA ActionKnowsAll ==
  ASSUME TypeOK, NEW c \in Calls, Action(c), Exclusive, SecretThere,
         \A d \in Calls : Knows(d)
  PROVE  SecretThere' /\ \A d \in Calls : Knows(d)'
<1>1. Knows(c)' /\ SecretThere'
  BY ActionKnows
<1>2. PICK s \in (Steps \ ClaimSteps) \cup {"leave"} : at' = [at EXCEPT ![c] = s]
  BY ActionKeepsClaim
<1>3. ASSUME NEW d \in Calls, d # c
      PROVE  Knows(d)'
  <2>1. at'[d] = at[d] /\ at[d] \in ClaimSteps
    BY <1>2, <1>3, ActionKeepsClaim DEF Exclusive, InAction, TypeOK
  <2> QED BY <2>1 DEF Knows, InAction, ClaimSteps
<1> QED BY <1>1, <1>3

LEMMA ProjectStep ==
  ASSUME TypeOK, ProjectInv, [Next]_vars
  PROVE  ProjectInv'
<1>1. CASE UNCHANGED vars
  BY <1>1 DEF vars, ProjectInv, Exclusive, InAction, SecretThere, Knows
<1>2. CASE Next
  <2>1. Recorded
    BY <1>2 DEF Next, CallStep
  <2> SUFFICES ASSUME ~shared'
               PROVE  Exclusive' /\ SecretThere' /\ \A c \in Calls : Knows(c)'
    BY DEF ProjectInv
  <2>2. Exclusive' /\ ~shared
    BY <2>1 DEF Recorded
  <2>3. Exclusive /\ SecretThere /\ \A c \in Calls : Knows(c)
    BY <2>2 DEF ProjectInv
  <2>4. ASSUME NEW c \in Calls, ClaimStep(c), UNCHANGED project
        PROVE  SecretThere' /\ \A d \in Calls : Knows(d)'
    <3>1. SecretThere'
      BY <2>3, <2>4 DEF SecretThere, project
    <3> QED BY <2>3, <2>4, <3>1, ClaimStepKnows
  <2>5. ASSUME NEW c \in Calls, Action(c)
        PROVE  SecretThere' /\ \A d \in Calls : Knows(d)'
    BY <2>3, <2>5, ActionKnowsAll
  <2>6. ASSUME NEW p \in Processes, Die(p), UNCHANGED project
        PROVE  SecretThere' /\ \A d \in Calls : Knows(d)'
    <3>1. \A d \in Calls : at'[d] \in {at[d], "dead"}
      BY <2>6 DEF Die, TypeOK
    <3>2. SecretThere'
      BY <2>3, <2>6 DEF SecretThere, project
    <3> QED BY <2>3, <2>6, <3>1, <3>2 DEF Knows, InAction, project, ClaimSteps
  <2> QED BY <1>2, <2>2, <2>4, <2>5, <2>6 DEF Next, CallStep, Action
<1> QED BY <1>1, <1>2

LEMMA ProjectInit == ASSUME Init PROVE ProjectInv
BY DEF Init, ClaimInit, ProjectInv, Exclusive, InAction, ClaimSteps, SecretThere, Knows

(* SecretsCorrect: whatever fails or dies between the writes, a project whose *)
(* claim has been exclusive has the secret of its record or of a later update *)
(* (RecordHasItsSecret).                                                      *)
THEOREM SecretsCorrect == Spec => []RecordHasItsSecret
<1>1. Init => ProjectInv
  BY ProjectInit
<1>2. TypeOK /\ ProjectInv /\ [Next]_vars => ProjectInv'
  BY ProjectStep
<1>3. ProjectInv => RecordHasItsSecret
  BY DEF ProjectInv, SecretThere, RecordHasItsSecret
<1> QED BY <1>1, <1>2, <1>3, CreationTypeCorrect, PTL DEF Spec

LEMMA OnlyUpdatesWrite ==
  ASSUME TypeOK, ProjectInv, Next, record # None, ~shared', <<record, env>>' # <<record, env>>
  PROVE  \E c \in Calls : Kind[c] = "update" /\ at'[c] # at[c] /\ InAction(c)
<1>1. ~shared
  BY DEF Next, CallStep, Recorded
<1>2. PICK c \in Calls : SaveEnv(c) \/ WriteRecord(c) \/ DeleteKeys(c)
  BY DEF Next, CallStep, project, Check, Fence, LoadEnv, CheckAppend
<1>3. InAction(c) /\ at'[c] # at[c]
  BY <1>2 DEF SaveEnv, WriteRecord, DeleteKeys, InAction, ClaimSteps, GoTo, TypeOK
<1>4. Kind[c] = "update"
  BY <1>1, <1>2, <1>3 DEF ProjectInv, Knows, SaveEnv, WriteRecord, DeleteKeys
<1> QED BY <1>3, <1>4

(* LosersCorrect: while the claim has been exclusive, only an update changes  *)
(* a project that exists (LoserWritesNothing).                                *)
THEOREM LosersCorrect == Spec => LoserWritesNothing
<1> DEFINE Loses == record # None /\ ~shared' /\ <<record, env>>' # <<record, env>>
                      => \E c \in Calls : Kind[c] = "update" /\ at'[c] # at[c] /\ InAction(c)
<1>1. Init => ProjectInv
  BY ProjectInit
<1>2. TypeOK /\ ProjectInv /\ [Next]_vars => ProjectInv'
  BY ProjectStep
<1>3. TypeOK /\ ProjectInv /\ [Next]_vars => [Loses]_vars
  BY OnlyUpdatesWrite
<1> QED BY <1>1, <1>2, <1>3, CreationTypeCorrect, PTL DEF Spec, LoserWritesNothing
=============================================================================
