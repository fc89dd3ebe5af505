------------------------------- MODULE Startup -------------------------------
(***************************************************************************)
(* What sp-server.exe and sp-migrate.exe do with the schema of the         *)
(* database: acquireServerLock (main.ts), handleMigrations                 *)
(* (prisma.service.ts), runMigrate (migrate-main.ts), the decisions        *)
(* decideBoot and decideMigrate, and applyMigrations                       *)
(* (migration-runner.ts).  The lock they take is that of ProcessLock.      *)
(*                                                                         *)
(* The server takes the lock, then looks at the database; sp-migrate looks *)
(* first and takes the lock only if there is something to apply.  Each     *)
(* query of a decision and each statement of a migration is a step; a      *)
(* statement is committed as it runs, there is no transaction.             *)
(*                                                                         *)
(* Migrations are numbered in the order of their names; an executable of   *)
(* version v comes with the first v of them.  The backup before an upgrade *)
(* is left out: it reads the database, and if it fails the program ends.   *)
(***************************************************************************)
EXTENDS ProcessLock, Sequences

CONSTANTS
    LastMigration,      \* the newest migration there is
    Versions,           \* the executables that are around, old and new
    Statements          \* how many statements a migration has

ASSUME MigrationsAssumption ==
    /\ LastMigration \in Nat \ {0}
    /\ Versions \subseteq 1..LastMigration
    /\ Statements \in Nat \ {0}

VARIABLES
    db,         \* the schema of the database file
    origin,     \* the state the file was in when it was put there
    job         \* slot -> what its process knows and does

vars == <<lockVars, db, origin, job>>

Migrations == 1..LastMigration

\* A mistake the runs must catch: a directory without a migration.sql counts.
EveryEntry(v) == 0..v

\* listMigrationFiles
Files(v) == 1..v

(***************************************************************************)
(* hasHistory: the table _prisma_migrations exists; finished: the rows in  *)
(* it with finished_at; done: how many statements of a migration have been *)
(* committed, and are still in effect; redone, for the properties only: the*)
(* migrations of which a statement ran again when they, or a later one,    *)
(* were finished.                                                          *)
(***************************************************************************)
Database == [hasHistory : BOOLEAN, finished : SUBSET Migrations,
             done : [Migrations -> 0..Statements], redone : SUBSET Migrations]

\* Up to migration v everything is applied.
Complete(v) == [hasHistory |-> v > 0, finished |-> 1..v,
                done |-> [m \in Migrations |-> IF m <= v THEN Statements ELSE 0],
                redone |-> {}]

\* What an administrator may put in place: no file, the database of some
\* version, one from before the history table, and one that lost its tables.
New      == Complete(0)
Legacy   == [Complete(1) EXCEPT !.hasHistory = FALSE, !.finished = {}]
Emptied  == [New EXCEPT !.hasHistory = TRUE, !.finished = {1}]
Origins  == {Complete(v) : v \in 0..LastMigration} \cup {Legacy, Emptied}

\* isFreshDatabase: the first statement of all creates the first table.
Fresh == db.done[1] = 0

-------------------------------------------------------------------------------
JobSteps == {"none", "history", "legacy", "applied", "fresh", "applied again",
             "lock", "ensure", "apply", "up", "end"}

Job == [step : JobSteps, version : Versions \cup {0},
        applied : SUBSET Migrations,        \* listApplied, as it was read
        names : SUBSET Migrations,          \* what is still to be applied
        at : 0..Statements,                 \* statements of the first of them
        code : 0..6]                        \* the exit code

NoJob == [step |-> "none", version |-> 0, applied |-> {}, names |-> {},
          at |-> 0, code |-> 0]

IsServer(p) == proc[p].role = "server"
HasLock(p) == proc[p].step \in {"held", "unheld"}

\* The process works on its decision: the server behind the lock.
At(p, step) ==
    /\ job[p].step = step
    /\ IF IsServer(p) \/ step \in {"ensure", "apply", "up"}
       THEN HasLock(p) ELSE proc[p].step = "running"

Goto(p, j) == job' = [job EXCEPT ![p] = j] /\ UNCHANGED <<lockVars, origin>>

To(p, step) == [job[p] EXCEPT !.step = step]
Halt(p, code) == [job[p] EXCEPT !.step = "end", !.code = code]

-------------------------------------------------------------------------------
(* decideBoot and decideMigrate, query by query                            *)

ReadHistory(p) ==
    /\ At(p, "history")
    /\ Goto(p, To(p, IF db.hasHistory THEN "applied" ELSE "legacy"))
    /\ UNCHANGED db

\* LegacySchemaError: tables, but no history.
ReadLegacy(p) ==
    /\ At(p, "legacy")
    /\ Goto(p, IF Fresh THEN To(p, "applied") ELSE Halt(p, 4))
    /\ UNCHANGED db

\* DowngradeError: a migration that this executable does not know.
ReadApplied(p) ==
    /\ At(p, "applied")
    /\ Goto(p, IF db.finished \subseteq Files(job[p].version)
               THEN [To(p, "fresh") EXCEPT !.applied = db.finished]
               ELSE Halt(p, 5))
    /\ UNCHANGED db

\* A mistake the runs must catch: nobody asks whether the database is new, and
\* the server upgrades what it finds.
ApplyAnyway(p, fresh) ==
    LET pending == Files(job[p].version) \ job[p].applied
    IN  IF pending = {} THEN To(p, IF IsServer(p) THEN "up" ELSE "end")
        ELSE [To(p, IF IsServer(p) THEN "ensure" ELSE "lock") EXCEPT !.names = pending]

\* The end of both decisions: only a server creates a database, only
\* sp-migrate upgrades one.
Decided(p, fresh) ==
    LET pending == Files(job[p].version) \ job[p].applied
    IN  IF pending = {} THEN To(p, IF IsServer(p) THEN "up" ELSE "end")
        ELSE IF IsServer(p)
        THEN IF fresh THEN [To(p, "ensure") EXCEPT !.names = pending] ELSE Halt(p, 3)
        ELSE IF fresh THEN Halt(p, 2) ELSE [To(p, "lock") EXCEPT !.names = pending]

ReadFresh(p) ==
    /\ At(p, "fresh")
    /\ Goto(p, IF Fresh THEN To(p, "applied again") ELSE Decided(p, FALSE))
    /\ UNCHANGED db

\* A history, but no table: a backup that was restored badly.
ReadAppliedAgain(p) ==
    /\ At(p, "applied again")
    /\ Goto(p, IF db.finished # {} THEN Halt(p, 6) ELSE Decided(p, TRUE))
    /\ UNCHANGED db

-------------------------------------------------------------------------------
(* applyMigrations                                                         *)

\* The first migration that is still to be applied.
IsNext(m, names) == m \in names /\ \A n \in names : m <= n

\* A mistake the runs must catch: the table comes with the first row.
NoTableYet == UNCHANGED db

\* ensureMigrationsTable
EnsureTable == db' = [db EXCEPT !.hasHistory = TRUE]

Ensure(p) ==
    /\ At(p, "ensure")
    /\ EnsureTable
    /\ Goto(p, To(p, "apply"))

\* What is in effect after statement i of migration m.  One that runs again may
\* undo what came after it, in this migration and in later ones: m3_node_progress
\* drops the table that its next statement puts back.
AfterStatement(m, i) ==
    IF i > db.done[m] THEN {[db.done EXCEPT ![m] = i]}
    ELSE {done \in [Migrations -> 0..Statements] :
             /\ done[m] \in {i, db.done[m]}
             /\ \A n \in Migrations : n < m => done[n] = db.done[n]
             /\ \A n \in Migrations : n > m => done[n] <= db.done[n]}

Redone(m, i) ==
    IF i <= db.done[m] /\ \E n \in db.finished : n >= m
    THEN db.redone \cup {m} ELSE db.redone

\* A statement that was committed before may fail this time (Fail), as those of
\* the first migration do, which only create; or it runs again.
RunStatement(p) ==
    LET i == job[p].at + 1
    IN  /\ At(p, "apply")
        /\ i <= Statements
        /\ \E m \in Migrations :
              /\ IsNext(m, job[p].names)
              /\ m = 1 => i > db.done[1]
              /\ \E done \in AfterStatement(m, i) :
                    db' = [db EXCEPT !.done = done, !.redone = Redone(m, i)]
        /\ Goto(p, [job[p] EXCEPT !.at = i])

\* A mistake the runs must catch: a migration is marked as finished although a
\* statement is missing.
LastButOne(p) == job[p].at = Statements - 1

AllRun(p) == job[p].at = Statements

\* markFinished; after the last one the server is up, sp-migrate ends.
Finish(p) ==
    /\ At(p, "apply")
    /\ AllRun(p)
    /\ \E m \in Migrations :
          LET rest == job[p].names \ {m}
              next == IF rest # {} THEN "apply" ELSE IF IsServer(p) THEN "up" ELSE "end"
          IN  /\ IsNext(m, job[p].names)
              /\ db' = [db EXCEPT !.finished = @ \cup {m}]
              /\ Goto(p, [To(p, next) EXCEPT !.names = rest, !.at = 0])

\* A statement, the backup, or a write to the history fails: exit 1.
Fail(p) ==
    /\ At(p, "ensure") \/ At(p, "apply")
    /\ Goto(p, Halt(p, 1))
    /\ UNCHANGED db

-------------------------------------------------------------------------------
(* The two programs and the lock                                           *)

Start(p) ==
    /\ Launch(p)
    /\ \E v \in Versions :
          job' = [job EXCEPT ![p] = [NoJob EXCEPT !.step = "history", !.version = v]]
    /\ UNCHANGED <<db, origin>>

\* acquireLock: sp-migrate calls it after its decision.
TakeLock(p) ==
    /\ proc[p].step = "running" => IsServer(p) \/ job[p].step = "lock"
    /\ Acquire(p)
    /\ job' = IF HasLock(p)' /\ ~IsServer(p)
              THEN [job EXCEPT ![p].step = "ensure"] ELSE job
    /\ UNCHANGED <<db, origin>>

\* The program is through, or the server gets Ctrl+C.
Quit(p) ==
    /\ IsServer(p) \/ job[p].step = "end"
    /\ Leave(p)
    /\ job' = [job EXCEPT ![p] = IF Alive(p)' THEN To(p, "end") ELSE NoJob]
    /\ UNCHANGED <<db, origin>>

QuitDone(p) ==
    /\ Unlink(p)
    /\ job' = [job EXCEPT ![p] = NoJob]
    /\ UNCHANGED <<db, origin>>

\* Killed, or at its end without a lock.
Crash(p) ==
    /\ Die(p)
    /\ job' = [job EXCEPT ![p] = NoJob]
    /\ UNCHANGED <<db, origin>>

-------------------------------------------------------------------------------
Init ==
    /\ LockInit
    /\ db \in Origins
    /\ origin = db
    /\ job = [p \in Processes |-> NoJob]

Program(p) ==
    \/ Start(p) \/ TakeLock(p) \/ Quit(p) \/ QuitDone(p) \/ Crash(p)
    \/ ReadHistory(p) \/ ReadLegacy(p) \/ ReadApplied(p)
    \/ ReadFresh(p) \/ ReadAppliedAgain(p)
    \/ Ensure(p) \/ RunStatement(p) \/ Finish(p) \/ Fail(p)

Next == \E p \in Processes : Program(p)

Spec == Init /\ [][Next]_vars

-------------------------------------------------------------------------------
TypeOK ==
    /\ LockTypeOK
    /\ db \in Database
    /\ origin \in Origins
    /\ job \in [Processes -> Job]

Up(p) == job[p].step = "up" /\ HasLock(p)

(***************************************************************************)
(* A server that is up has every migration of its version, each with all   *)
(* its statements, and none it does not know: however its predecessors     *)
(* were killed and whatever file was put in place.  Except for what comes  *)
(* of a finished migration of which statements ran again: a second         *)
(* sp-migrate does that (NoReapply), and when it stops half-way the row of *)
(* the first time still says finished, and decideBoot believes it.         *)
(***************************************************************************)
ServesCompleteSchema ==
    \A p \in Processes :
        Up(p) /\ IsServer(p) =>
            db.finished = Files(job[p].version)
            /\ \A m \in db.finished :
                  db.done[m] = Statements \/ \E k \in db.redone : k <= m

(***************************************************************************)
(* Nobody changes the schema under a server that is up: an edit that is    *)
(* committed between two statements of a migration would be lost           *)
(* (process-lock.ts, 15-26).                                               *)
(***************************************************************************)
SchemaStillWhileServing ==
    [][\A p \in Processes : Up(p) /\ IsServer(p) => db' = db]_vars

(***************************************************************************)
(* A database that this program has built from nothing is never taken for  *)
(* a legacy one or for a damaged one by a server, wherever its             *)
(* construction was cut off.                                               *)
(***************************************************************************)
NoFalseAlarm ==
    \A p \in Processes :
        origin = New /\ IsServer(p) => job[p].code \notin {4, 6}

\* What one look at the database says of it.
Verdict(v) ==
    IF ~db.hasHistory /\ ~Fresh THEN "legacy"
    ELSE IF ~(db.finished \subseteq Files(v)) THEN "newer"
    ELSE IF Fresh /\ db.finished # {} THEN "damaged"
    ELSE IF db.finished = Files(v) THEN "current"
    ELSE IF Fresh THEN "new" ELSE "behind"

Decides(p) ==
    /\ job[p].step \in {"history", "legacy", "applied", "fresh", "applied again"}
    /\ job'[p].step \in {"up", "ensure", "lock", "end"}
    /\ Alive(p)' /\ proc' = proc

\* The verdict the process has come to.
Says(p) ==
    CASE job'[p].code = 4 -> "legacy"
      [] job'[p].code = 5 -> "newer"
      [] job'[p].code = 6 -> "damaged"
      [] job'[p].step = "ensure" \/ job'[p].code = 2 -> "new"
      [] job'[p].step = "lock" \/ job'[p].code = 3 -> "behind"
      [] OTHER -> "current"

(***************************************************************************)
(* What the server concludes from up to five queries is what one look at   *)
(* the database says: nobody moves between them.                           *)
(***************************************************************************)
ServerSeesTruth ==
    \A p \in Processes :
        IsServer(p) /\ Decides(p) => Says(p) = Verdict(job[p].version)

(***************************************************************************)
(* No statement of a migration runs once the migration is finished (the    *)
(* comments of LegacySchemaError, 84, and of the lock, process-lock.ts 28).*)
(***************************************************************************)
NoReapply ==
    [][\A p \in Processes, m \in Migrations :
          job'[p].at > job[p].at /\ IsNext(m, job[p].names) => m \notin db.finished]_vars
===============================================================================
