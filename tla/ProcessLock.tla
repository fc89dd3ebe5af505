----------------------------- MODULE ProcessLock -----------------------------
(***************************************************************************)
(* The lock files that keep sp-server.exe and sp-migrate.exe from using    *)
(* one database together: acquireLock and decideLockAcquisition in         *)
(* apps/api/src/prisma/lock-decision.ts, writeLock, readLock, checkLock    *)
(* and removeLock in apps/api/src/common/process-lock.ts, and the exit     *)
(* handlers of main.ts and migrate-main.ts that call them.                 *)
(*                                                                         *)
(* There is one file for each role; it holds the pid of its owner.  Each   *)
(* access to a file is a step of its own, and any other process may run    *)
(* between two of them.  Reading a pid from a file and asking the system   *)
(* whether it is alive is one step.                                        *)
(*                                                                         *)
(* A slot of Processes is one run of one of the two programs at a time and *)
(* may be launched again.                                                  *)
(***************************************************************************)
EXTENDS Integers, FiniteSets

CONSTANTS
    Processes,
    Pids,
    MaxAcquiring,       \* how many processes may be inside acquireLock at once
    StalePidsReturn,    \* whether a new process may get a pid that a lock
                        \* file still holds
    WritesMayFail,      \* whether the folder of the database can be read-only
                        \* or full
    NULL

ASSUME ProcessesAssumption == IsFiniteSet(Processes)
ASSUME NullAssumption      == NULL \notin Pids
ASSUME AcquiringAssumption == MaxAcquiring \in Nat \ {0}
ASSUME ChoicesAssumption   == StalePidsReturn \in BOOLEAN /\ WritesMayFail \in BOOLEAN

VARIABLES
    file,       \* role -> the pid in its lock file; NULL: none, or unreadable
    proc        \* slot -> the process that runs in it

lockVars == <<file, proc>>

Roles == {"server", "migrate"}

(***************************************************************************)
(* "running" is before acquireLock, "held" and "unheld" after it: the      *)
(* second is the program that goes on with a warning.  "refused" is exit   *)
(* code 7, "unlink" is removeLock between its read and its unlink.         *)
(***************************************************************************)
AcquiringSteps == {"check server", "check migrate", "write", "read back",
                   "check server again", "check migrate again"}
LockSteps == AcquiringSteps \cup
             {"off", "running", "held", "unheld", "refused", "unlink"}

Process == [step : LockSteps, role : Roles, pid : Pids \cup {NULL}]

Off == [step |-> "off", role |-> "server", pid |-> NULL]

Alive(p)   == proc[p].step # "off"
Acquiring  == {p \in Processes : proc[p].step \in AcquiringSteps}
Holders    == {p \in Processes : proc[p].step = "held"}

SetStep(p, step) == proc' = [proc EXCEPT ![p].step = step]

-------------------------------------------------------------------------------
(* checkLock                                                               *)

\* Mistakes the runs must catch: a lock file counts even if its owner is
\* dead; no lock counts at all.
LockedByAnyFile(role) == file[role] # NULL
NeverLocked(role) == FALSE

\* A process with the pid in the file is alive; its own is no exception.
Locked(role) == \E q \in Processes : Alive(q) /\ proc[q].pid = file[role]

-------------------------------------------------------------------------------
(* acquireLock                                                             *)

Launch(p) ==
    /\ ~Alive(p)
    /\ \E role \in Roles, pid \in Pids :
          /\ \A q \in Processes : Alive(q) => proc[q].pid # pid
          /\ \A r \in Roles : file[r] = pid => StalePidsReturn
          /\ proc' = [proc EXCEPT ![p] =
                         [step |-> "running", role |-> role, pid |-> pid]]
    /\ UNCHANGED file

\* MaxAcquiring bounds the processes between here and the end of acquireLock.
EnterLock(p) ==
    /\ proc[p].step = "running"
    /\ Cardinality(Acquiring) < MaxAcquiring
    /\ SetStep(p, "check server")
    /\ UNCHANGED file

\* decideLockAcquisition: the lock of the server is looked at first.
Check(p, at, role, next) ==
    /\ proc[p].step = at
    /\ SetStep(p, IF Locked(role) THEN "refused" ELSE next)
    /\ UNCHANGED file

CheckServer(p)       == Check(p, "check server", "server", "check migrate")
CheckMigrate(p)      == Check(p, "check migrate", "migrate", "write")
CheckServerAgain(p)  == Check(p, "check server again", "server", "check migrate again")
CheckMigrateAgain(p) == Check(p, "check migrate again", "migrate", "unheld")

\* writeLock overwrites whatever the file holds.
Write(p) ==
    /\ proc[p].step = "write"
    /\ file' = [file EXCEPT ![proc[p].role] = proc[p].pid]
    /\ SetStep(p, "read back")

\* No permission or no space: the file is as it was, or emptied.
WriteFails(p) ==
    /\ WritesMayFail
    /\ proc[p].step = "write"
    /\ \/ UNCHANGED file
       \/ file' = [file EXCEPT ![proc[p].role] = NULL]
    /\ SetStep(p, "unheld")

ReadBack(p) ==
    /\ proc[p].step = "read back"
    /\ SetStep(p, IF file[proc[p].role] = proc[p].pid
                  THEN "held" ELSE "check server again")
    /\ UNCHANGED file

-------------------------------------------------------------------------------
(* The end of a process                                                    *)

\* A mistake the runs must catch: the file is removed whoever owns it.
AnyFile(p) == file[proc[p].role] # NULL

\* removeLock reads the file first: only the owner removes it.
OwnsFile(p) == file[proc[p].role] = proc[p].pid

\* A server calls removeLock in any case, sp-migrate only if it held the lock.
Leave(p) ==
    /\ proc[p].step \in {"held", "unheld"}
    /\ LET removes == proc[p].step = "held" \/ proc[p].role = "server"
       IN  IF removes /\ OwnsFile(p)
           THEN SetStep(p, "unlink")
           ELSE proc' = [proc EXCEPT ![p] = Off]
    /\ UNCHANGED file

Unlink(p) ==
    /\ proc[p].step = "unlink"
    /\ file' = [file EXCEPT ![proc[p].role] = NULL]
    /\ proc' = [proc EXCEPT ![p] = Off]

\* The program ends without a lock (exit 7, nothing to do), or is killed and
\* leaves its file behind.
Die(p) ==
    /\ Alive(p)
    /\ proc' = [proc EXCEPT ![p] = Off]
    /\ UNCHANGED file

-------------------------------------------------------------------------------
LockInit ==
    /\ file = [r \in Roles |-> NULL]
    /\ proc = [p \in Processes |-> Off]

Acquire(p) ==
    \/ EnterLock(p) \/ CheckServer(p) \/ CheckMigrate(p)
    \/ Write(p) \/ WriteFails(p) \/ ReadBack(p)
    \/ CheckServerAgain(p) \/ CheckMigrateAgain(p)

LockNext == \E p \in Processes :
                Launch(p) \/ Acquire(p) \/ Leave(p) \/ Unlink(p) \/ Die(p)

LockSpec == LockInit /\ [][LockNext]_lockVars

-------------------------------------------------------------------------------
LockTypeOK ==
    /\ file \in [Roles -> Pids \cup {NULL}]
    /\ proc \in [Processes -> Process]

\* What a step can be spared: no write of a lock file fails, and no process
\* is launched with a pid that is on file.
WritesSucceed == \A p \in Processes : proc[p].step = "write" => proc'[p].step # "unheld"

PidsAreFresh ==
    \A p \in Processes, r \in Roles : ~Alive(p) /\ Alive(p)' => file[r] # proc'[p].pid

(***************************************************************************)
(* No two programs go on without a warning at the same time (the comment   *)
(* of acquireLock, 89-92).  It needs that they do not start together.      *)
(***************************************************************************)
MutualExclusion == \A p, q \in Holders : p = q

(***************************************************************************)
(* Whoever holds the lock is named by the lock file as long as it lives:   *)
(* nobody overwrites or removes a lock that is in use (removeLock, 94-105).*)
(***************************************************************************)
HolderIsOnFile == \A p \in Holders : file[proc[p].role] = proc[p].pid

(***************************************************************************)
(* With one program in acquireLock at a time, no two go on without a       *)
(* warning, and whoever holds the lock is named by its file for as long as *)
(* it lives (process-lock.ts, 94-105, lock-decision.ts, 89-112).           *)
(***************************************************************************)
LockIsKept == MutualExclusion /\ HolderIsOnFile

(***************************************************************************)
(* A program is refused only because another one is running: a lock that   *)
(* was left behind by a killed one blocks nobody (isProcessAlive, 140-150),*)
(* and nobody is blocked by its own pid (checkLock, 182-185).              *)
(***************************************************************************)
RefusedByAnother ==
    \A p \in Processes :
        proc[p].step # "refused" /\ proc'[p].step = "refused" =>
            \E q \in Processes \ {p} :
                Alive(q) /\ proc[q].pid \in {file[r] : r \in Roles}

(***************************************************************************)
(* removeLock removes the file of its caller and of nobody else (its       *)
(* comment, 97-105), although it reads and unlinks in two steps.           *)
(***************************************************************************)
OnlyOwnFileRemoved ==
    [][\A p \in Processes :
          proc[p].step = "unlink" /\ ~Alive(p)' /\ file' # file =>
              file[proc[p].role] = proc[p].pid]_lockVars
===============================================================================
