----------------------------- MODULE Migration -----------------------------
(***************************************************************************)
(* The migration command (cmd/migrate/main.go).                            *)
(*                                                                         *)
(* Every run of the command is a process: it creates schema_migrations if  *)
(* it is missing, loads the versions recorded there into a map, and goes   *)
(* through the files in the order of their names.  A file whose version is *)
(* in the map is skipped; any other is executed and recorded inside a      *)
(* transaction of applyMigration.  Nothing keeps two runs apart but the    *)
(* database, and every error ends the run at once (log.Fatal), so that an  *)
(* open transaction is rolled back.                                        *)
(*                                                                         *)
(* 001_init.sql has a BEGIN and a COMMIT of its own.  That COMMIT ends the *)
(* transaction of applyMigration: the file is in effect at once, the       *)
(* INSERT that records it commits by itself, and the commit at the end has *)
(* nothing left to do.                                                     *)
(*                                                                         *)
(*   refresh -> look -> create -> load -> file -> insert -> commit         *)
(*                                         ^------------------/            *)
(*                                                                         *)
(* PostgreSQL is modelled as these statements use it: a transaction that   *)
(* has executed a file keeps every other one from executing the same file  *)
(* until it ends, an INSERT waits for a transaction that inserted the same *)
(* version, and DROP SCHEMA waits for the transactions that are open.      *)
(***************************************************************************)
EXTENDS Naturals

CONSTANTS
    Migrators,    \* runs of the command
    Refreshers,   \* those started with -refresh, outside production
    NumFiles,     \* the files are 1..NumFiles, in the order of their names
    Versions,
    VersionOf,    \* versionFromFilename: the prefix of the name
    Needs,        \* Needs[f]: the files that create what f changes
    Rerunnable,   \* files whose SQL also succeeds on its own result
    SelfCommitting,   \* files whose SQL ends with a COMMIT
    Preloaded     \* what docker's initdb.d has applied, without a record

Files == 1..NumFiles

ASSUME MigrationAssumption ==
    /\ NumFiles \in Nat \ {0}
    /\ Refreshers \subseteq Migrators
    /\ VersionOf \in [Files -> Versions]
    /\ Needs \in [Files -> SUBSET Files]
    /\ Rerunnable \subseteq Files
    /\ SelfCommitting \subseteq Files \ Rerunnable
    /\ Preloaded \subseteq Files

\* No two files have the same version.
UniqueVersions == \A f, g \in Files : VersionOf[f] = VersionOf[g] => f = g

VARIABLES
    table,      \* schema_migrations exists
    recorded,   \* its versions
    times,      \* times[f]: how often the SQL of f has been committed
    late,       \* some file was committed after a file of a later name
    pc,         \* the next statement of each run
    next,       \* the file a run has got to
    seen,       \* the map of loadAppliedVersions
    faulty,     \* some run was stopped by something other than its statements
    dropped     \* runs during which another one dropped the schema

dbVars == <<table, recorded, times, late>>
vars == <<table, recorded, times, late, pc, next, seen, faulty, dropped>>

Steps == {"idle", "refresh", "look", "create", "load", "file", "insert", "commit",
          "complete", "failed"}
Running == Steps \ {"idle", "complete", "failed"}

TypeOK ==
    /\ table \in BOOLEAN
    /\ recorded \in SUBSET Versions
    /\ times \in [Files -> Nat]
    /\ late \in BOOLEAN
    /\ pc \in [Migrators -> Steps]
    /\ next \in [Migrators -> 1..NumFiles + 1]
    /\ seen \in [Migrators -> SUBSET Versions]
    /\ faulty \in BOOLEAN
    /\ dropped \in SUBSET Migrators

Init ==
    /\ table = FALSE
    /\ recorded = {}
    /\ times = [f \in Files |-> IF f \in Preloaded THEN 1 ELSE 0]
    /\ late = FALSE
    /\ pc = [m \in Migrators |-> "idle"]
    /\ next = [m \in Migrators |-> 1]
    /\ seen = [m \in Migrators |-> {}]
    /\ faulty = FALSE
    /\ dropped = {}

Goto(m, step) == pc' = [pc EXCEPT ![m] = step]

Present(f) == times[f] > 0

\* The version of the file that m has got to.
Version(m) == VersionOf[next[m]]

\* Runs that have executed a file and not committed it.
OpenTxs == {m \in Migrators : pc[m] \in {"insert", "commit"} /\ next[m] \notin SelfCommitting}

\* Runs that have inserted v and not committed it.
Inserting(v) == {m \in OpenTxs : pc[m] = "commit" /\ Version(m) = v}

\* What the commit of the SQL of f leaves in the database.
TakesEffect(f) ==
    /\ times' = [times EXCEPT ![f] = @ + 1]
    /\ late' = (late \/ \E g \in Files : g > f /\ Present(g))

-----------------------------------------------------------------------------
Start(m) ==
    /\ pc[m] = "idle"
    /\ Goto(m, IF m \in Refreshers THEN "refresh" ELSE "look")
    /\ UNCHANGED <<table, recorded, times, late, next, seen, faulty, dropped>>

\* Slip: the tables are dropped and schema_migrations is kept elsewhere.
RefreshPublicSchema_KeepsVersions(m) ==
    /\ pc[m] = "refresh"
    /\ OpenTxs = {}
    /\ times' = [f \in Files |-> 0]
    /\ late' = FALSE
    /\ dropped' = dropped \cup {n \in Migrators \ {m} : pc[n] \in Running}
    /\ Goto(m, "look")
    /\ UNCHANGED <<table, recorded, next, seen, faulty>>

\* DROP SCHEMA public CASCADE; CREATE SCHEMA public.
RefreshPublicSchema(m) ==
    /\ pc[m] = "refresh"
    /\ OpenTxs = {}
    /\ table' = FALSE
    /\ recorded' = {}
    /\ times' = [f \in Files |-> 0]
    /\ late' = FALSE
    /\ dropped' = dropped \cup {n \in Migrators \ {m} : pc[n] \in Running}
    /\ Goto(m, "look")
    /\ UNCHANGED <<next, seen, faulty>>

\* CREATE TABLE IF NOT EXISTS looks and then creates ...
EnsureLook(m) ==
    /\ pc[m] = "look"
    /\ Goto(m, IF table THEN "load" ELSE "create")
    /\ UNCHANGED <<table, recorded, times, late, next, seen, faulty, dropped>>

\* ... and errs when the table has been created in between.
EnsureCreate(m) ==
    /\ pc[m] = "create"
    /\ table' = TRUE
    /\ Goto(m, IF table THEN "failed" ELSE "load")
    /\ UNCHANGED <<recorded, times, late, next, seen, faulty, dropped>>

LoadAppliedVersions(m) ==
    /\ pc[m] = "load"
    /\ seen' = [seen EXCEPT ![m] = recorded]
    /\ Goto(m, IF table THEN "file" ELSE "failed")
    /\ UNCHANGED <<table, recorded, times, late, next, faulty, dropped>>

\* A version that was recorded when the run began is skipped.
Skip(m) ==
    /\ pc[m] = "file"
    /\ next[m] \in Files
    /\ Version(m) \in seen[m]
    /\ next' = [next EXCEPT ![m] = @ + 1]
    /\ UNCHANGED <<table, recorded, times, late, pc, seen, faulty, dropped>>

\* The SQL of f fails on objects that exist already and on objects that are
\* missing.
Succeeds(f) == (Present(f) => f \in Rerunnable) /\ \A g \in Needs[f] : Present(g)

\* Slip: an error is logged and the file is tried again.
ExecuteFile_Retries(m) ==
    LET f == next[m] IN
    /\ pc[m] = "file"
    /\ f \in Files
    /\ VersionOf[f] \notin seen[m]
    /\ \A n \in OpenTxs : next[n] # f
    /\ Goto(m, IF Succeeds(f) THEN "insert" ELSE "file")
    /\ IF Succeeds(f) /\ f \in SelfCommitting
       THEN TakesEffect(f) ELSE UNCHANGED <<times, late>>
    /\ UNCHANGED <<table, recorded, next, seen, faulty, dropped>>

\* Begin, and the SQL of the file.
ExecuteFile(m) ==
    LET f == next[m] IN
    /\ pc[m] = "file"
    /\ f \in Files
    /\ VersionOf[f] \notin seen[m]
    /\ \A n \in OpenTxs : next[n] # f
    /\ Goto(m, IF Succeeds(f) THEN "insert" ELSE "failed")
    /\ IF Succeeds(f) /\ f \in SelfCommitting
       THEN TakesEffect(f) ELSE UNCHANGED <<times, late>>
    /\ UNCHANGED <<table, recorded, next, seen, faulty, dropped>>

\* Slip: ON CONFLICT DO NOTHING.
InsertVersion_OnConflict(m) ==
    /\ pc[m] = "insert"
    /\ Inserting(Version(m)) = {}
    /\ Goto(m, IF table THEN "commit" ELSE "failed")
    /\ recorded' = IF table /\ next[m] \in SelfCommitting
                   THEN recorded \cup {Version(m)} ELSE recorded
    /\ UNCHANGED <<table, times, late, next, seen, faulty, dropped>>

\* INSERT INTO schema_migrations: the version is the primary key.
InsertVersion(m) ==
    LET ok == table /\ Version(m) \notin recorded IN
    /\ pc[m] = "insert"
    /\ Inserting(Version(m)) = {}
    /\ Goto(m, IF ok THEN "commit" ELSE "failed")
    /\ recorded' = IF ok /\ next[m] \in SelfCommitting
                   THEN recorded \cup {Version(m)} ELSE recorded
    /\ UNCHANGED <<table, times, late, next, seen, faulty, dropped>>

\* What the commit of applyMigration leaves in the database: the file and its
\* record, or nothing when the file has ended the transaction itself.
Committed(m) ==
    /\ IF next[m] \in SelfCommitting
       THEN UNCHANGED <<recorded, times, late>>
       ELSE recorded' = recorded \cup {Version(m)} /\ TakesEffect(next[m])
    /\ UNCHANGED table

Commit(m) ==
    /\ pc[m] = "commit"
    /\ Committed(m)
    /\ next' = [next EXCEPT ![m] = @ + 1]
    /\ Goto(m, "file")
    /\ UNCHANGED <<seen, faulty, dropped>>

\* The transaction is committed and the answer is lost.
CommitUnacknowledged(m) ==
    /\ pc[m] = "commit"
    /\ Committed(m)
    /\ Goto(m, "failed")
    /\ faulty' = TRUE
    /\ UNCHANGED <<next, seen, dropped>>

\* "migrations complete"
Complete(m) ==
    /\ pc[m] = "file"
    /\ next[m] \notin Files
    /\ Goto(m, "complete")
    /\ UNCHANGED <<table, recorded, times, late, next, seen, faulty, dropped>>

\* Slip: an error of a file is logged and the next one is tried.
Die_GoesOn(m) ==
    /\ pc[m] \in {"file", "insert", "commit"}
    /\ next[m] \in Files
    /\ next' = [next EXCEPT ![m] = @ + 1]
    /\ Goto(m, "file")
    /\ faulty' = TRUE
    /\ UNCHANGED <<table, recorded, times, late, seen, dropped>>

\* The process is killed, the deadline of 60 seconds passes, a statement or
\* reading a file fails: the run ends, and its transaction is rolled back.
Die(m) ==
    /\ pc[m] \in Running
    /\ Goto(m, "failed")
    /\ faulty' = TRUE
    /\ UNCHANGED <<table, recorded, times, late, next, seen, dropped>>

Advance(m) ==
    \/ RefreshPublicSchema(m) \/ EnsureLook(m) \/ EnsureCreate(m)
    \/ LoadAppliedVersions(m) \/ Skip(m) \/ ExecuteFile(m) \/ InsertVersion(m)
    \/ Commit(m) \/ Complete(m)

Next == \E m \in Migrators : Start(m) \/ Advance(m) \/ CommitUnacknowledged(m) \/ Die(m)

\* A statement that is not blocked is answered.
Spec == Init /\ [][Next]_vars /\ \A m \in Migrators : WF_vars(Advance(m))

-----------------------------------------------------------------------------
\* Some run has executed f and has not recorded it: it is about to, or it has
\* been stopped on the way.
Unrecorded(f) ==
    \E m \in Migrators :
        next[m] = f /\ (pc[m] = "insert" \/ (faulty /\ pc[m] = "failed"))

\* No file takes effect twice, whatever runs overlap or are killed.  A file is
\* in effect exactly if its version is recorded, which is what the transaction
\* of applyMigration is for; of a file that commits itself this is not so
\* between its COMMIT and the INSERT, or for good when its run is stopped
\* there, and not when the schema was dropped there.
RecordedIffApplied ==
    \A f \in Files :
        /\ times[f] <= 1
        /\ f \notin SelfCommitting => (Present(f) <=> VersionOf[f] \in recorded)
        /\ f \in SelfCommitting /\ dropped = {} =>
              /\ VersionOf[f] \in recorded => Present(f)
              /\ Present(f) => VersionOf[f] \in recorded \/ Unrecorded(f)

\* When all runs have ended, whatever is in effect is recorded: the next one
\* skips what is applied already.  The COMMIT of 001_init.sql breaks this.
EndedIsRecorded ==
    (\A m \in Migrators : pc[m] \notin Running) /\ dropped = {} =>
        \A f \in Files : Present(f) => VersionOf[f] \in recorded

\* Files take effect in the order of their names, although each run decides
\* by a map that it loaded once (loadAppliedVersions) and others commit
\* meanwhile; a run under which the schema is dropped may break this.
AppliedInOrder == dropped = {} => ~late

\* "migrations complete" is true: every file has taken effect, unless another
\* run dropped the schema after this one had loaded its map.
CompleteMeansAll ==
    [][\A m \in Migrators \ dropped :
           pc[m] # "complete" /\ pc'[m] = "complete" => \A f \in Files : Present(f)]_vars

Ended == \A m \in Migrators : pc[m] \notin Running

\* Overlapping runs stop each other, but never all of them: when all have
\* ended, nothing failed from outside and the schema was dropped under none of
\* them, one has reported completion and every file is in effect and recorded.
SomeoneCompletes ==
    Ended /\ ~faulty /\ dropped = {} /\ (\E m \in Migrators : pc[m] # "idle") =>
        /\ \E m \in Migrators : pc[m] = "complete"
        /\ \A f \in Files : Present(f) /\ VersionOf[f] \in recorded

\* No run waits for another, or tries a file, forever.
MigratorsEnd == \A m \in Migrators : pc[m] \in Running ~> pc[m] \notin Running
=============================================================================
