--------------------------- MODULE SchemaMigration ---------------------------
(***************************************************************************)
(* How the processes bring the one SQLite file to their schema             *)
(* (db/migrator.ts, composition-root.ts).  The API server and every worker *)
(* open the file and run the pending migrations, possibly at the same time *)
(* and possibly from builds of different age.  A process reads the version *)
(* once, and again inside the write lock of each migration it takes on; a  *)
(* migration's statements and its row in schema_migrations are one         *)
(* transaction.                                                            *)
(***************************************************************************)
EXTENDS Naturals, Sequences

CONSTANTS
  Openers,       \* the processes
  CodeVersion,   \* the last migration each one's build knows
  NoOpener,      \* the write lock is free
  MaxOpenFaults  \* bound: failed migrations, busy timeouts, deaths

\* Builds number their migrations alike, from 1 without gaps (db/migrations/*.sql).
ASSUME SchemaAssumption ==
  /\ CodeVersion \in [Openers -> Nat]
  /\ NoOpener \notin Openers
  /\ MaxOpenFaults \in Nat

VARIABLES
  schema,     \* the versions in schema_migrations
  ran,        \* the migrations whose statements took effect, in that order
  writer,     \* the holder of the database's write lock
  opener,     \* [at, next] of each process: next is the migration it comes to
  openFaults  \* how many faults there have been

schemaVars == <<schema, ran, writer, opener, openFaults>>

OpenerPlaces == {"closed", "migrating", "locked", "serving", "refused", "failed"}

\* The file is new, or an older build left it at its version.
SchemaInit ==
  /\ \E p \in Openers : \E v \in 0..CodeVersion[p] :
       /\ schema = 1..v
       /\ ran = [i \in 1..v |-> i]
  /\ writer = NoOpener
  /\ opener = [p \in Openers |-> [at |-> "closed", next |-> 0]]
  /\ openFaults = 0

\* SELECT MAX(version) ..., 0 for an empty table.
SchemaVersion == CHOOSE v \in schema \cup {0} : \A w \in schema : w <= v

OpenFault == openFaults < MaxOpenFaults /\ openFaults' = openFaults + 1

\* A process starts: it refuses a schema its build does not know, and passes over the
\* migrations that are applied already.
Open(p) ==
  /\ opener[p].at = "closed"
  /\ opener' = [opener EXCEPT ![p] =
       IF SchemaVersion > CodeVersion[p] THEN [at |-> "refused", next |-> 0]
       ELSE [at |-> "migrating", next |-> SchemaVersion + 1]]
  /\ UNCHANGED <<schema, ran, writer, openFaults>>

\* BEGIN IMMEDIATE: one process at a time.
TakeWriteLock(p) ==
  /\ opener[p].at = "migrating"
  /\ opener[p].next <= CodeVersion[p]
  /\ writer = NoOpener
  /\ writer' = p
  /\ opener' = [opener EXCEPT ![p].at = "locked"]
  /\ UNCHANGED <<schema, ran, openFaults>>

\* Mutant of AppliedMeanwhile: the version read before the lock is trusted.
AppliedMeanwhileMutant(m) == FALSE
\* The version is read again inside the lock: another process may have been first.
AppliedMeanwhile(m) == SchemaVersion >= m

\* The migration's statements and its row commit together, and the lock is free.
Migrate(p) ==
  /\ opener[p].at = "locked"
  /\ LET m == opener[p].next IN
     /\ IF AppliedMeanwhile(m)
        THEN UNCHANGED <<schema, ran>>
        ELSE schema' = schema \cup {m} /\ ran' = Append(ran, m)
     /\ opener' = [opener EXCEPT ![p] = [at |-> "migrating", next |-> m + 1]]
  /\ writer' = NoOpener
  /\ UNCHANGED openFaults

\* A statement fails, or the lock is not had within busy_timeout: nothing of the
\* migration is kept, and the process gives up.
MigrationFails(p) ==
  /\ \/ opener[p].at = "locked" /\ writer' = NoOpener
     \/ opener[p].at = "migrating" /\ writer \notin {NoOpener, p} /\ writer' = writer
  /\ OpenFault
  /\ opener' = [opener EXCEPT ![p].at = "failed"]
  /\ UNCHANGED <<schema, ran>>

\* Mutant of PastTheLast: the last migration is left out.
PastTheLastMutant(p) == opener[p].next >= CodeVersion[p]
PastTheLast(p) == opener[p].next > CodeVersion[p]

\* Nothing is left to apply: the process takes up its work.
Serve(p) ==
  /\ opener[p].at = "migrating"
  /\ PastTheLast(p)
  /\ opener' = [opener EXCEPT ![p].at = "serving"]
  /\ UNCHANGED <<schema, ran, writer, openFaults>>

\* The process ends, in a transaction or not, and may be started again.
EndProcess(p) ==
  /\ opener[p].at # "closed"
  /\ OpenFault
  /\ opener' = [opener EXCEPT ![p] = [at |-> "closed", next |-> 0]]
  /\ writer' = IF writer = p THEN NoOpener ELSE writer
  /\ UNCHANGED <<schema, ran>>

SchemaNext ==
  \E p \in Openers :
    \/ Open(p)
    \/ TakeWriteLock(p)
    \/ Migrate(p)
    \/ MigrationFails(p)
    \/ Serve(p)
    \/ EndProcess(p)

SchemaSpec == SchemaInit /\ [][SchemaNext]_schemaVars

-----------------------------------------------------------------------------
\* The types.
SchemaTypeOK ==
  /\ schema \subseteq Nat
  /\ ran \in Seq(Nat)
  /\ writer \in Openers \cup {NoOpener}
  /\ opener \in [Openers -> [at : OpenerPlaces, next : Nat]]
  /\ openFaults \in 0..MaxOpenFaults

\* Every migration takes effect once and in the order of its number, however many
\* processes start together and wherever they fail, and the version table says
\* exactly which ones did (migrator.ts:118-131).
AppliedInOrder ==
  /\ ran = [i \in 1..Len(ran) |-> i]
  /\ schema = 1..Len(ran)

\* A process that takes up its work finds every migration its build knows applied,
\* by itself or by another (migrator.ts:116-148, composition-root.ts:62-66).
ServesMigrated ==
  \A p \in Openers : opener[p].at = "serving" => CodeVersion[p] <= Len(ran)
=============================================================================
