------------------------------ MODULE BackupCli ------------------------------
(***************************************************************************)
(* sp-backup, the program that copies the database file away and back      *)
(* (apps/api/scripts/backup-cli.ts and backup-cli-lib.ts), next to the     *)
(* server and the upgrade that may run on the same file.                   *)
(*                                                                         *)
(* A database is a pair of files: the main file holds a version and the    *)
(* write-ahead log what was committed since.  A log that was not written   *)
(* on top of the main file next to it makes the pair unreadable.  The      *)
(* other program (sp-server or sp-migrate) is alive or not: that its lock  *)
(* file tells the truth is the subject of ProcessLock.                     *)
(*                                                                         *)
(* Left out: the -shm file, the list of backups, paths and messages.       *)
(***************************************************************************)
EXTENDS Integers, FiniteSets

CONSTANTS
    Roles,          \* the programs with a lock file
    Names,          \* the supply of names for copies
    MaxCommits      \* bound on the commits

VARIABLES
    db,         \* the pair in place; main is Gone before the first start
    copies,     \* name -> pair
    alive,      \* the programs that have the database open
    cli,        \* the command that runs
    commits,    \* versions handed out so far
    overlap,    \* a program was started after its lock was looked at
    before      \* what the database read as when the restore began

cliVars == <<db, copies, alive, cli, commits, overlap, before>>

Gone   == -1
Broken == -2
NoLog  == [base |-> Gone, upTo |-> Gone]
Absent == [main |-> Gone, wal |-> NoLog]

\* What a program reads that opens the pair.
Reads(pair) ==
    IF pair.wal = NoLog THEN pair.main
    ELSE IF pair.wal.base = pair.main THEN pair.wal.upTo ELSE Broken

NoCli == [op |-> "none", step |-> "idle", from |-> Gone, to |-> Gone, role |-> {}]

Unchanged == UNCHANGED <<alive, commits, overlap, before>>

-------------------------------------------------------------------------------
(* The other programs                                                      *)

OpenDatabase(p) ==
    /\ p \notin alive
    /\ alive' = alive \cup {p}
    /\ overlap' = (overlap \/ (cli # NoCli /\ p \notin cli.role))
    /\ db' = IF db.main = Gone THEN [db EXCEPT !.main = 0] ELSE db
    /\ UNCHANGED <<copies, cli, commits, before>>

CommitRow ==
    /\ alive # {} /\ commits < MaxCommits
    /\ commits' = commits + 1
    /\ db' = [db EXCEPT !.wal = [base |-> db.main, upTo |-> commits + 1]]
    /\ UNCHANGED <<copies, alive, cli, overlap, before>>

Checkpoint ==
    /\ alive # {} /\ db.wal # NoLog /\ Reads(db) # Broken
    /\ db' = [main |-> Reads(db), wal |-> NoLog]
    /\ UNCHANGED <<copies, alive, cli, commits, overlap, before>>

\* Killed or closed: the log may stay.
CloseDatabase(p) ==
    /\ p \in alive
    /\ alive' = alive \ {p}
    /\ UNCHANGED <<db, copies, cli, commits, overlap, before>>

-------------------------------------------------------------------------------
(* The commands                                                            *)

Free == {n \in Names : copies[n] = Absent}

\* Nothing is written before the locks are looked at.  A restore names a copy
\* that exists and, when there is a database, gets a name for a safety copy.
BeginCli ==
    /\ cli = NoCli
    /\ \/ \E to \in Free :
             cli' = [NoCli EXCEPT !.op = "backup", !.step = "locks", !.to = to, !.role = Roles]
       \/ \E from \in Names \ Free, to \in Free :
             cli' = [NoCli EXCEPT !.op = "restore", !.step = "locks",
                                  !.from = from, !.to = to, !.role = Roles]
    /\ overlap' = FALSE
    /\ UNCHANGED <<db, copies, alive, commits, before>>

\* A mistake the runs must catch: only the last lock is looked at.
LastLockOnly(p) == p \in alive /\ cli.role = {p}

IsLocked(p) == p \in alive

\* Exit code 7, and nothing done; without a database there is nothing to back
\* up, and no safety copy to take.
CheckDatabaseLocks ==
    /\ cli.step = "locks"
    /\ \E p \in cli.role :
          /\ ~IsLocked(p)
          /\ cli' = [cli EXCEPT !.role = @ \ {p},
                                !.step = IF cli.role # {p} THEN "locks"
                                         ELSE IF db.main # Gone THEN "copyMain" ELSE "clear"]
          /\ cli.role = {p} /\ db.main = Gone => cli.op = "restore"
    /\ before' = Reads(db)
    /\ UNCHANGED <<db, copies, alive, commits, overlap>>

\* copyDatabaseWithSidecars for a backup and for the safety copy.
CopyMain ==
    /\ cli.step = "copyMain"
    /\ copies' = [copies EXCEPT ![cli.to].main = db.main]
    /\ cli' = [cli EXCEPT !.step = "copyWal"]
    /\ UNCHANGED db /\ Unchanged

\* A mistake the runs must catch: the log is taken for a temporary file.
WithoutLog == NoLog

LogToCopy == db.wal

CopyWal ==
    /\ cli.step = "copyWal"
    /\ copies' = [copies EXCEPT ![cli.to].wal = LogToCopy]
    /\ cli' = IF cli.op = "backup" THEN NoCli ELSE [cli EXCEPT !.step = "clear"]
    /\ UNCHANGED db /\ Unchanged

\* A mistake the runs must catch: the log of the old database stays.
KeepsLog == db.wal

\* restoreDatabaseFile: the sidecars first.
ClearedLog == NoLog

ClearSidecars ==
    /\ cli.step = "clear"
    /\ db' = [db EXCEPT !.wal = ClearedLog]
    /\ cli' = [cli EXCEPT !.step = "putMain"]
    /\ UNCHANGED copies /\ Unchanged

\* Without a log in the copy this is the last step.
PutMain ==
    /\ cli.step = "putMain"
    /\ db' = [db EXCEPT !.main = copies[cli.from].main]
    /\ cli' = IF copies[cli.from].wal = NoLog THEN NoCli ELSE [cli EXCEPT !.step = "putWal"]
    /\ UNCHANGED copies /\ Unchanged

PutWal ==
    /\ cli.step = "putWal"
    /\ db' = [db EXCEPT !.wal = copies[cli.from].wal]
    /\ cli' = NoCli
    /\ UNCHANGED copies /\ Unchanged

\* It is refused, or dies, or a file operation fails.
CliEnds ==
    /\ cli # NoCli /\ cli' = NoCli
    /\ UNCHANGED <<db, copies>> /\ Unchanged

-------------------------------------------------------------------------------
CliInit ==
    /\ db = Absent
    /\ copies = [n \in Names |-> Absent]
    /\ alive = {} /\ cli = NoCli
    /\ commits = 0 /\ overlap = FALSE /\ before = Gone

CliNext ==
    \/ \E p \in Roles : OpenDatabase(p) \/ CloseDatabase(p)
    \/ CommitRow \/ Checkpoint
    \/ BeginCli \/ CheckDatabaseLocks \/ CopyMain \/ CopyWal
    \/ ClearSidecars \/ PutMain \/ PutWal \/ CliEnds

CliSpec == CliInit /\ [][CliNext]_cliVars

-------------------------------------------------------------------------------
(* Properties                                                              *)

\* When no other program was started since its lock was looked at, a backup or a
\* safety copy reads as the database does, a restored database as its copy,
\* and from the first change of a restore to its end the safety copy reads as
\* the database did before (backup-cli.ts 42-56, 111-138; backup-cli-lib.ts
\* 196-250).  A program that starts in between is not kept out: sp-backup takes
\* no lock itself.
CopiesReadAlike ==
    [][~overlap /\ ~overlap' /\ cli'.op \in {"none", cli.op} =>
          /\ cli.step = "copyWal" /\ copies' # copies => Reads(copies'[cli.to]) = Reads(db)
          /\ cli.op = "restore" /\ cli' = NoCli /\ db' # db =>
                Reads(db') = Reads(copies[cli.from])
          /\ cli.step \in {"clear", "putMain", "putWal"} /\ before # Gone =>
                Reads(copies[cli.to]) = before]_cliVars
===============================================================================
