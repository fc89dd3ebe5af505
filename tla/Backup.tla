-------------------------------- MODULE Backup --------------------------------
(***************************************************************************)
(* The backups that the server takes every day, or when an administrator   *)
(* asks for one (apps/api/src/backup), on the file system.                 *)
(*                                                                         *)
(* A day has a directory with an archive and its checksum; an archive is   *)
(* the version of the database that it holds, PART while it is written and *)
(* NONE when there is none.  Time is counted in days: a run begins and     *)
(* ends on the same day or on the next.                                    *)
(***************************************************************************)
EXTENDS Integers, FiniteSets

CONSTANTS
    Runs,           \* calls of runBackup, by the clock or by hand
    RetentionDays,
    MaxDay,         \* bound on the days
    MaxVersion      \* bound on the changes of the database

\* BACKUP_RETENTION_DAYS, 30 by default; see LastBackupStays.
ASSUME RetentionAssumption == RetentionDays \in Nat /\ RetentionDays >= 2
ASSUME BackupBoundsAssumption == MaxDay \in Nat /\ MaxVersion \in Nat

VARIABLES
    today, database,
    isRunning,      \* the flag in the memory of the server
    run,            \* call -> its step, its day, the version and the checksum it holds
    made,           \* day -> mtime of its directory, or NoDir
    archive, checksum,
    confirmed       \* days whose last run has ended well, for the properties

backupVars == <<today, database, isRunning, run, made, archive, checksum, confirmed>>

Days     == 0..MaxDay
Versions == 0..MaxVersion
NONE     == -1
PART     == -2
NoDir    == -1

BackupSteps == {"idle", "mkdir", "vacuum", "open", "zip", "hash", "sum", "clean"}
NoRun == [step |-> "idle", day |-> 0, copy |-> NONE, sum |-> NONE]

IsGood(d) == archive[d] \in Versions /\ checksum[d] = archive[d]

Files == <<made, archive, checksum>>
World == <<today, database>>

-------------------------------------------------------------------------------
\* A run is over within a day.
NextDay ==
    /\ today < MaxDay
    /\ \A r \in Runs : run[r] # NoRun => run[r].day = today
    /\ today' = today + 1
    /\ UNCHANGED <<database, isRunning, run, Files, confirmed>>

ChangeDatabase ==
    /\ database < MaxVersion /\ database' = database + 1
    /\ UNCHANGED <<today, isRunning, run, Files, confirmed>>

\* A mistake the runs must catch: nobody looks at the flag.
NeverSkips == TRUE

\* The call is skipped while another one is under way.
MayStart == ~isRunning

StartBackup(r) ==
    /\ run[r] = NoRun
    /\ MayStart
    /\ isRunning' = TRUE
    /\ run' = [run EXCEPT ![r] = [NoRun EXCEPT !.step = "mkdir", !.day = today]]
    /\ UNCHANGED <<World, Files, confirmed>>

Step(r, from, fields) ==
    /\ run[r].step = from
    /\ run' = [run EXCEPT ![r] = fields]
    /\ isRunning' = (isRunning /\ fields # NoRun)
    /\ UNCHANGED World

\* A new entry in a directory sets its mtime; writing over a file does not.
Touch(d, isNew) == made' = [made EXCEPT ![d] = IF isNew THEN today ELSE @]

MakeDir(r) ==
    /\ Step(r, "mkdir", [run[r] EXCEPT !.step = "vacuum"])
    /\ Touch(run[r].day, made[run[r].day] = NoDir)
    /\ UNCHANGED <<archive, checksum, confirmed>>

\* VACUUM INTO a temporary file: the database as it is, whatever is committed
\* meanwhile.
Vacuum(r) ==
    /\ Step(r, "vacuum", [run[r] EXCEPT !.step = "open", !.copy = database])
    /\ UNCHANGED <<Files, confirmed>>

\* The stream truncates the archive of an earlier run of the day.
OpenArchive(r) ==
    /\ Step(r, "open", [run[r] EXCEPT !.step = "zip"])
    /\ Touch(run[r].day, archive[run[r].day] = NONE)
    /\ archive' = [archive EXCEPT ![run[r].day] = PART]
    /\ confirmed' = confirmed \ {run[r].day}
    /\ UNCHANGED checksum

CloseArchive(r) ==
    /\ Step(r, "zip", [run[r] EXCEPT !.step = "hash"])
    /\ archive' = [archive EXCEPT ![run[r].day] = run[r].copy]
    /\ UNCHANGED <<made, checksum, confirmed>>

Hash(r) ==
    /\ Step(r, "hash", [run[r] EXCEPT !.step = "sum", !.sum = archive[run[r].day]])
    /\ UNCHANGED <<Files, confirmed>>

WriteChecksum(r) ==
    /\ Step(r, "sum", [run[r] EXCEPT !.step = "clean"])
    /\ Touch(run[r].day, checksum[run[r].day] = NONE)
    /\ checksum' = [checksum EXCEPT ![run[r].day] = run[r].sum]
    /\ confirmed' = confirmed \cup {run[r].day}
    /\ UNCHANGED archive

\* A mistake the runs must catch: the day of the run is expired too.
IsOlder(d) == made[d] # NoDir /\ made[d] <= today

\* The age is known to the day only: one that may be past the limit.
IsExpired(d) == made[d] # NoDir /\ today - made[d] >= RetentionDays

\* A directory that cannot be removed is left for the next run.
CleanupOld(r) ==
    /\ Step(r, "clean", NoRun)
    /\ \E gone \in SUBSET {d \in Days : IsExpired(d)} :
          /\ made'      = [d \in Days |-> IF d \in gone THEN NoDir ELSE made[d]]
          /\ archive'   = [d \in Days |-> IF d \in gone THEN NONE ELSE archive[d]]
          /\ checksum'  = [d \in Days |-> IF d \in gone THEN NONE ELSE checksum[d]]
          /\ confirmed' = confirmed \ gone

\* Any step fails: the error is logged and isRunning is reset.
BackupFails(r) ==
    /\ run[r] # NoRun
    /\ run' = [run EXCEPT ![r] = NoRun]
    /\ isRunning' = FALSE
    /\ UNCHANGED <<World, Files, confirmed>>

\* The server is stopped or dies and starts again.
RestartBackup ==
    /\ isRunning' = FALSE
    /\ run' = [r \in Runs |-> NoRun]
    /\ UNCHANGED <<World, Files, confirmed>>

-------------------------------------------------------------------------------
BackupInit ==
    /\ today = 0 /\ database = 0
    /\ isRunning = FALSE
    /\ run = [r \in Runs |-> NoRun]
    /\ made = [d \in Days |-> NoDir]
    /\ archive = [d \in Days |-> NONE]
    /\ checksum = [d \in Days |-> NONE]
    /\ confirmed = {}

RunBackup(r) == StartBackup(r) \/ MakeDir(r) \/ Vacuum(r) \/ OpenArchive(r) \/ CloseArchive(r)
                \/ Hash(r) \/ WriteChecksum(r) \/ CleanupOld(r) \/ BackupFails(r)

BackupNext ==
    \/ NextDay \/ ChangeDatabase \/ RestartBackup
    \/ \E r \in Runs : RunBackup(r)

BackupSpec == BackupInit /\ [][BackupNext]_backupVars

-------------------------------------------------------------------------------
(* Properties                                                              *)

\* A backup that ended well can be read and has its own checksum until another
\* run of the same day opens the archive: two runs never write to one day at
\* once (backup.service.ts 102-106 and 128-140).
ConfirmedIsGood == \A d \in confirmed : IsGood(d)

\* The clean-up after a backup removes old directories but not the last backup
\* that can be read: it comes only after a new one (backup.service.ts 154 and
\* 169-190).  With one day of retention this would not hold for a run past
\* midnight into a directory of the morning: writing over the files of a
\* directory leaves its mtime as it is.
LastBackupStays ==
    [][(\E r \in Runs : run[r].step = "clean" /\ run'[r] = NoRun) /\ (\E d \in Days : IsGood(d))
          => \E d \in Days : IsGood(d)']_backupVars
===============================================================================
