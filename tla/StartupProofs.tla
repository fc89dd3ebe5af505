----------------------------- MODULE StartupProofs -----------------------------
(***************************************************************************)
(* Theorems about Startup: the two programs use the lock as ProcessLock    *)
(* describes it, so what is proved of the lock holds of them, while a      *)
(* server is up nobody changes the schema, and what it serves is complete, *)
(* for any number of processes, migrations and statements.                 *)
(***************************************************************************)
EXTENDS MCStartup, ProcessLockProofs

-------------------------------------------------------------------------------
\* A step of the two programs is one of the lock, or leaves it alone.
LEMMA StartupLockSteps == [Next]_vars => [LockNext]_lockVars
<1> SUFFICES ASSUME Next \/ UNCHANGED vars PROVE LockNext \/ UNCHANGED lockVars
  OBVIOUS
<1>1. CASE UNCHANGED vars
  BY <1>1 DEF vars, lockVars
<1>2. ASSUME NEW p \in Processes, Program(p) PROVE LockNext \/ UNCHANGED lockVars
  <2>1. CASE Start(p) \/ TakeLock(p) \/ Quit(p) \/ QuitDone(p) \/ Crash(p)
    BY <2>1 DEF Start, TakeLock, Quit, QuitDone, Crash, LockNext
  <2>2. CASE \/ ReadHistory(p) \/ ReadLegacy(p) \/ ReadApplied(p)
             \/ ReadFresh(p) \/ ReadAppliedAgain(p)
    BY <2>2 DEF ReadHistory, ReadLegacy, ReadApplied, ReadFresh,
                ReadAppliedAgain, Goto
  <2>3. CASE Ensure(p) \/ RunStatement(p) \/ Finish(p) \/ Fail(p)
    BY <2>3 DEF Ensure, RunStatement, Finish, Fail, Goto
  <2> QED
    BY <1>2, <2>1, <2>2, <2>3 DEF Program
<1> QED
  BY <1>1, <1>2 DEF Next

(***************************************************************************)
(* Whatever the programs do with the database, to the lock files it is a   *)
(* step of ProcessLock or none (acquireLock and removeLock are all that    *)
(* main.ts and migrate-main.ts do with them).                              *)
(***************************************************************************)
THEOREM StartupLocks == Spec => LockSpec
<1>1. Init => LockInit
  BY DEF Init
<1>2. [Next]_vars => [LockNext]_lockVars
  BY StartupLockSteps
<1> QED
  BY <1>1, <1>2, PTL DEF Spec, LockSpec

-------------------------------------------------------------------------------
\* When writes succeed and programs do not start together, nobody goes on
\* without the lock: what is written is what is read back.
Good(p) ==
    /\ proc[p].step \notin {"unheld", "check server again", "check migrate again"}
    /\ proc[p].step = "read back" => file[proc[p].role] = proc[p].pid

Sure == IInv /\ \A p \in Processes : Good(p)

\* A process that moves leaves the file of the one that reads back alone.
LEMMA SureStays ==
    ASSUME MaxAcquiring = 1, Sure, LockNext, WritesSucceed
    PROVE  Sure'
<1>1. IInv'
  BY NextHolds DEF Sure, lockVars
<1>2. LockTypeOK /\ \A p, q \in Processes : p # q => Apart(p, q)
  BY DEF Sure, IInv
<1>3. PICK p \in Processes : Launch(p) \/ Acquire(p) \/ Leave(p) \/ Unlink(p) \/ Die(p)
  BY DEF LockNext
<1>4. \A q \in Processes : Good(q)
  BY DEF Sure
<1> SUFFICES \A q \in Processes : Good(q)'
  BY <1>1 DEF Sure
<1>5. ASSUME NEW q \in Processes, q # p, proc'[q] = proc[q], file' = file PROVE Good(q)'
  BY <1>4, <1>5 DEF Good
<1>6. CASE Launch(p) \/ EnterLock(p) \/ Leave(p) \/ Die(p)
  <2>0. "check server" \in LockSteps /\ "unlink" \in LockSteps
    BY DEF LockSteps, AcquiringSteps
  <2>1. /\ file' = file
        /\ proc'[p].step \in {"running", "check server", "unlink", "off"}
        /\ \A q \in Processes \ {p} : proc'[q] = proc[q]
    <3>1. CASE Launch(p)
      BY <1>2, <3>1 DEF Launch, LockTypeOK
    <3>2. CASE EnterLock(p)
      BY <1>2, <2>0, <3>2, SetStepFacts DEF EnterLock
    <3>3. CASE Leave(p)
      BY <1>2, <2>0, <3>3, SetStepFacts, OffFacts DEF Leave
    <3>4. CASE Die(p)
      BY <1>2, <3>4, OffFacts DEF Die
    <3> QED
      BY <1>6, <3>1, <3>2, <3>3, <3>4
  <2>2. Good(p)'
    BY <2>1 DEF Good
  <2> QED
    BY <1>5, <2>1, <2>2
<1>7. CASE \/ CheckServer(p) \/ CheckMigrate(p)
           \/ CheckServerAgain(p) \/ CheckMigrateAgain(p) \/ ReadBack(p)
  <2>1. PICK s \in {"refused", "check migrate", "write", "held"} : SetStep(p, s)
    BY <1>4, <1>7 DEF CheckServer, CheckMigrate, CheckServerAgain, CheckMigrateAgain,
                      Check, ReadBack, Good
  <2>2. file' = file
    BY <1>7 DEF CheckServer, CheckMigrate, CheckServerAgain, CheckMigrateAgain,
                Check, ReadBack
  <2>3. s \in LockSteps
    BY <2>1 DEF LockSteps, AcquiringSteps
  <2>4. proc'[p].step = s /\ \A q \in Processes \ {p} : proc'[q] = proc[q]
    BY <1>2, <2>1, <2>3, SetStepFacts
  <2>5. Good(p)'
    BY <2>1, <2>4 DEF Good
  <2> QED
    BY <1>5, <2>2, <2>4, <2>5
<1>8. ~WriteFails(p)
  BY <1>2, SetStepFacts DEF WriteFails, WritesSucceed, LockSteps, AcquiringSteps
<1>9. CASE Write(p)
  <2>1. /\ proc[p].step = "write" /\ SetStep(p, "read back")
        /\ file' = [file EXCEPT ![proc[p].role] = proc[p].pid]
    BY <1>9 DEF Write
  <2>2. "read back" \in LockSteps /\ "write" \in AcquiringSteps /\ "read back" \in AcquiringSteps
    BY DEF LockSteps, AcquiringSteps
  <2>3. /\ proc'[p].step = "read back"
        /\ proc'[p].role = proc[p].role /\ proc'[p].pid = proc[p].pid
        /\ \A q \in Processes \ {p} : proc'[q] = proc[q]
    BY <1>2, <2>1, <2>2, SetStepFacts
  <2>4. Good(p)'
    BY <1>2, <2>1, <2>3 DEF Good, LockTypeOK, Process
  <2>5. ASSUME NEW q \in Processes, q # p PROVE Good(q)'
    <3>1. proc[q].step # "read back"
      BY <1>2, <2>1, <2>2, <2>5 DEF Apart
    <3> QED
      BY <1>4, <2>3, <2>5, <3>1 DEF Good
  <2> QED
    BY <2>4, <2>5
<1>10. CASE Unlink(p)
  <2>1. /\ proc'[p].step = "off"
        /\ \A q \in Processes \ {p} : proc'[q] = proc[q]
    BY <1>2, <1>10, OffFacts DEF Unlink
  <2>2. Good(p)'
    BY <2>1 DEF Good
  <2>3. ASSUME NEW q \in Processes, q # p PROVE Good(q)'
    <3>1. proc[q].step # "read back"
      BY <1>2, <1>10, <2>3 DEF Unlink, Apart, Owning
    <3> QED
      BY <1>4, <2>1, <2>3, <3>1 DEF Good
  <2> QED
    BY <2>2, <2>3
<1> QED
  BY <1>3, <1>6, <1>7, <1>9, <1>8, <1>10 DEF Acquire

LEMMA SureBegins == LockInit => Sure
<1>1. LockInit => \A p \in Processes : proc[p].step = "off"
  BY DEF LockInit, Off
<1> QED
  BY <1>1, InitHolds DEF Sure, Good

LEMMA SureKeeps ==
    ASSUME MaxAcquiring = 1, Sure, [LockNext]_lockVars, WritesSucceed
    PROVE  Sure'
<1>1. CASE UNCHANGED lockVars
  BY <1>1, NextHolds DEF lockVars, Sure, Good
<1> QED
  BY <1>1, SureStays

\* Only a write that fails leads from there to nowhere.
LEMMA SafeWrites ==
    ASSUME ~WritesMayFail, LockTypeOK, [LockNext]_lockVars
    PROVE  WritesSucceed
<1> SUFFICES ASSUME NEW p \in Processes, proc[p].step = "write", proc'[p].step = "unheld"
             PROVE  FALSE
  BY DEF WritesSucceed
<1>1. PICK m \in Processes : Launch(m) \/ Acquire(m) \/ Leave(m) \/ Unlink(m) \/ Die(m)
  BY DEF LockNext, lockVars
<1>2. m = p
  BY <1>1 DEF Launch, Acquire, EnterLock, CheckServer, CheckMigrate,
              CheckServerAgain, CheckMigrateAgain, Check, Write, WriteFails,
              ReadBack, Leave, Unlink, Die, SetStep, LockTypeOK
<1>3. Write(p) \/ Die(p)
  BY <1>1, <1>2 DEF Launch, Alive, Acquire, EnterLock, CheckServer, CheckMigrate,
                    CheckServerAgain, CheckMigrateAgain, Check, WriteFails, ReadBack,
                    Leave, Unlink
<1> QED
  BY <1>3, OffFacts DEF Write, Die, SetStep, LockTypeOK, Process

\* Sure holds in every reachable state of the two programs.
LEMMA SureHolds == ASSUME MaxAcquiring = 1, ~WritesMayFail PROVE Spec => []Sure
<1>1. Sure /\ [LockNext]_lockVars => Sure'
  BY SureKeeps, SafeWrites DEF Sure, IInv
<1> QED
  BY <1>1, SureBegins, StartupLocks, PTL DEF LockSpec

\* Only a process that holds the lock, and is not up, changes the schema.
LEMMA OnlyHoldersChange ==
    ASSUME Next, db' # db
    PROVE  \E p \in Processes : HasLock(p) /\ job[p].step \in {"ensure", "apply"}
<1>1. PICK p \in Processes : Program(p)
  BY DEF Next
<1>2. Ensure(p) \/ RunStatement(p) \/ Finish(p)
  BY <1>1 DEF Program, Start, TakeLock, Quit, QuitDone, Crash, ReadHistory,
              ReadLegacy, ReadApplied, ReadFresh, ReadAppliedAgain, Fail
<1> QED
  BY <1>2 DEF Ensure, RunStatement, Finish, At

(***************************************************************************)
(* While a server is up, neither another server nor sp-migrate commits a   *)
(* statement to its database (process-lock.ts, 15-26), provided that lock  *)
(* files can be written and that programs do not start together.           *)
(***************************************************************************)
THEOREM ServedSchemaIsStill ==
    ASSUME MaxAcquiring = 1, ~WritesMayFail
    PROVE  Spec => SchemaStillWhileServing
<1>1. Sure /\ [Next]_vars =>
        [\A p \in Processes : Up(p) /\ IsServer(p) => db' = db]_vars
  <2> SUFFICES ASSUME Sure, Next, NEW p \in Processes, Up(p), db' # db PROVE FALSE
    OBVIOUS
  <2>1. PICK q \in Processes : HasLock(q) /\ job[q].step \in {"ensure", "apply"}
    BY OnlyHoldersChange
  <2>2. proc[p].step = "held" /\ proc[q].step = "held"
    BY <2>1 DEF Sure, Good, Up, HasLock
  <2>3. p # q
    BY <2>1 DEF Up
  <2>4. Apart(p, q)
    BY <2>3 DEF Sure, IInv
  <2> QED
    BY <2>2, <2>4 DEF Apart, Owning
<1> QED
  BY <1>1, SureHolds, PTL DEF Spec, SchemaStillWhileServing

-------------------------------------------------------------------------------
(* The schema that a server serves                                         *)

LEMMA VersionFacts ==
    /\ LastMigration \in Nat /\ Statements \in Nat /\ 1 \in Migrations
    /\ \A v \in Versions \cup {0} : v \in Nat /\ Files(v) \subseteq Migrations
    /\ Migrations \subseteq Nat
BY MigrationsAssumption DEF Migrations, Files

\* The numbers that a job is made of, without the arithmetic.
LEMMA JobNumbers ==
    /\ 0 \in 0..Statements /\ \A i \in 0..Statements : i \in Int
    /\ 0 \in 0..6 /\ 1 \in 0..6 /\ 2 \in 0..6 /\ 3 \in 0..6
    /\ 4 \in 0..6 /\ 5 \in 0..6 /\ 6 \in 0..6
BY VersionFacts

LEMMA OriginsTyped == Origins \subseteq Database
<1>1. \A v \in 0..LastMigration : Complete(v) \in Database
  BY VersionFacts DEF Complete, Database, Migrations
<1>2. Legacy \in Database /\ Emptied \in Database
  <2>1. Complete(1) \in Database /\ New \in Database
    BY <1>1, MigrationsAssumption DEF New
  <2> QED
    BY <2>1, VersionFacts DEF Legacy, Emptied, Database
<1> QED
  BY <1>1, <1>2 DEF Origins

\* What the end of a decision makes of a job.
LEMMA DecidedFacts ==
    ASSUME NEW p \in Processes, job[p] \in Job, NEW fresh \in BOOLEAN
    PROVE  LET d == Decided(p, fresh)
               pending == Files(job[p].version) \ job[p].applied
           IN  /\ d \in Job /\ d.version = job[p].version /\ d.at = job[p].at
               /\ d.applied = job[p].applied
               /\ d.step \in {"up", "end", "ensure", "lock"}
               /\ d.step = "up" => IsServer(p) /\ pending = {}
               /\ d.step = "ensure" => IsServer(p) /\ fresh /\ d.names = pending
               /\ d.step = "lock" => ~IsServer(p) /\ ~fresh /\ d.names = pending
<1> DEFINE d == Decided(p, fresh)
           pending == Files(job[p].version) \ job[p].applied
<1>0. pending \in SUBSET Migrations /\ {"up", "end", "ensure", "lock"} \subseteq JobSteps
  BY VersionFacts DEF Job, JobSteps
<1>1. CASE pending = {}
  <2>1. PICK s \in {"up", "end"} : d = [job[p] EXCEPT !.step = s] /\ (s = "up" => IsServer(p))
    BY <1>1 DEF Decided, To
  <2> QED
    BY <1>0, <1>1, <2>1, VersionFacts DEF Job
<1>2. CASE pending # {} /\ IsServer(p) /\ fresh
  <2>1. d = [[job[p] EXCEPT !.step = "ensure"] EXCEPT !.names = pending]
    BY <1>2 DEF Decided, To
  <2> QED
    BY <1>0, <1>2, <2>1, VersionFacts DEF Job
<1>3. CASE pending # {} /\ ~IsServer(p) /\ ~fresh
  <2>1. d = [[job[p] EXCEPT !.step = "lock"] EXCEPT !.names = pending]
    BY <1>3 DEF Decided, To
  <2> QED
    BY <1>0, <1>3, <2>1, VersionFacts DEF Job
<1>4. CASE pending # {} /\ (IsServer(p) <=> ~fresh)
  <2>1. PICK c \in {2, 3} : d = [job[p] EXCEPT !.step = "end", !.code = c]
    BY <1>4 DEF Decided, Halt
  <2> QED
    BY <1>0, <2>1, JobNumbers DEF Job
<1> QED
  BY <1>1, <1>2, <1>3, <1>4

\* The statement and the row that a migration adds to the database.
LEMMA DatabaseMoves ==
    ASSUME TypeOK
    PROVE  /\ [db EXCEPT !.hasHistory = TRUE] \in Database
           /\ \A d \in [Migrations -> 0..Statements], r \in SUBSET Migrations :
                 [db EXCEPT !.done = d, !.redone = r] \in Database
           /\ \A m \in Migrations : [db EXCEPT !.finished = @ \cup {m}] \in Database
<1>1. db \in Database
  BY DEF TypeOK
<1> QED
  BY <1>1 DEF Database

\* What a statement leaves in effect is well formed.
LEMMA StatementMoves ==
    ASSUME TypeOK, NEW m \in Migrations, NEW i \in 0..Statements
    PROVE  /\ AfterStatement(m, i) \subseteq [Migrations -> 0..Statements]
           /\ Redone(m, i) \in SUBSET Migrations
<1>1. db.done \in [Migrations -> 0..Statements] /\ db.redone \subseteq Migrations
  BY DEF TypeOK, Database
<1>2. [db.done EXCEPT ![m] = i] \in [Migrations -> 0..Statements]
  BY <1>1
<1>3. AfterStatement(m, i) \subseteq [Migrations -> 0..Statements]
  BY <1>2 DEF AfterStatement
<1>4. Redone(m, i) \in SUBSET Migrations
  BY <1>1 DEF Redone
<1> QED
  BY <1>3, <1>4

LEMMA StartupTypes == ASSUME TypeOK, [Next]_vars PROVE TypeOK'
<1>1. LockTypeOK'
  <2>1. [LockNext]_lockVars
    BY StartupLockSteps
  <2> QED
    BY <2>1, LockTyped DEF TypeOK
<1>2. CASE UNCHANGED vars
  BY <1>1, <1>2 DEF vars, TypeOK
<1>3. ASSUME NEW p \in Processes, Program(p) PROVE TypeOK'
  <2>1. origin' = origin
    BY <1>3 DEF Program, Start, TakeLock, Quit, QuitDone, Crash, ReadHistory, ReadLegacy,
                ReadApplied, ReadFresh, ReadAppliedAgain, Ensure, RunStatement, Finish, Fail, Goto
  <2>2. ASSUME NEW j \in Job, job' = [job EXCEPT ![p] = j], db' \in Database PROVE TypeOK'
    BY <1>1, <2>1, <2>2 DEF TypeOK
  <2>3. db \in Database
    BY DEF TypeOK
  <2>4. /\ NoJob \in Job /\ job[p] \in Job
        /\ \A v \in Versions : [NoJob EXCEPT !.step = "history", !.version = v] \in Job
    BY JobNumbers DEF TypeOK, NoJob, Job, JobSteps
  <2>5. CASE Start(p)
    BY <2>2, <2>3, <2>4, <2>5 DEF Start
  <2>6. CASE TakeLock(p)
    <3>1. CASE job' = job
      BY <1>1, <2>1, <2>6, <3>1 DEF TypeOK, TakeLock
    <3>2. CASE job' = [job EXCEPT ![p].step = "ensure"]
      <4>1. [job[p] EXCEPT !.step = "ensure"] \in Job
        BY <2>4 DEF Job, JobSteps
      <4>2. job' = [job EXCEPT ![p] = [job[p] EXCEPT !.step = "ensure"]]
        BY <3>2
      <4> QED
        BY <2>2, <2>3, <2>6, <4>1, <4>2 DEF TakeLock
    <3> QED
      BY <2>6, <3>1, <3>2 DEF TakeLock
  <2>7. CASE Quit(p) \/ QuitDone(p) \/ Crash(p)
    <3>1. [job[p] EXCEPT !.step = "end"] \in Job
      BY <2>4 DEF Job, JobSteps
    <3> QED
      BY <2>2, <2>3, <2>4, <2>7, <3>1 DEF Quit, QuitDone, Crash, To
  <2>8. CASE ReadHistory(p) \/ ReadLegacy(p) \/ Fail(p)
    <3>1. /\ \A s \in {"applied", "legacy"} : [job[p] EXCEPT !.step = s] \in Job
          /\ \A c \in {1, 4} : [job[p] EXCEPT !.step = "end", !.code = c] \in Job
      BY <2>4, JobNumbers DEF Job, JobSteps
    <3>2. \E j \in Job : job' = [job EXCEPT ![p] = j]
      BY <2>8, <3>1 DEF ReadHistory, ReadLegacy, Fail, Goto, To, Halt
    <3>3. db' = db
      BY <2>8 DEF ReadHistory, ReadLegacy, Fail
    <3> QED
      BY <2>2, <2>3, <3>2, <3>3
  <2>9. CASE ReadApplied(p)
    <3>1. /\ [job[p] EXCEPT !.step = "end", !.code = 5] \in Job
          /\ [[job[p] EXCEPT !.step = "fresh"] EXCEPT !.applied = db.finished] \in Job
      BY <2>3, <2>4, JobNumbers DEF JobSteps, Job, Database
    <3> QED
      BY <2>2, <2>3, <2>9, <3>1 DEF ReadApplied, Goto, To, Halt
  <2>10. CASE ReadFresh(p) \/ ReadAppliedAgain(p)
    <3>1. /\ [job[p] EXCEPT !.step = "end", !.code = 6] \in Job
          /\ [job[p] EXCEPT !.step = "applied again"] \in Job
      BY <2>4, JobNumbers DEF JobSteps, Job
    <3>2. Decided(p, TRUE) \in Job /\ Decided(p, FALSE) \in Job
      BY <2>4, DecidedFacts
    <3>3. \E j \in Job : job' = [job EXCEPT ![p] = j]
      BY <2>10, <3>1, <3>2 DEF ReadFresh, ReadAppliedAgain, Goto, To, Halt
    <3>4. db' = db
      BY <2>10 DEF ReadFresh, ReadAppliedAgain
    <3> QED
      BY <2>2, <2>3, <3>3, <3>4
  <2>11. CASE Ensure(p)
    <3>1. [job[p] EXCEPT !.step = "apply"] \in Job
      BY <2>4 DEF JobSteps, Job
    <3>2. db' \in Database
      BY <2>11, DatabaseMoves DEF Ensure, EnsureTable
    <3> QED
      BY <2>2, <2>11, <3>1, <3>2 DEF Ensure, Goto, To
  <2>12. CASE RunStatement(p)
    <3>0. job[p].at \in 0..Statements /\ job[p].at + 1 <= Statements
      BY <2>4, <2>12 DEF RunStatement, Job
    <3>1. job[p].at + 1 \in 0..Statements
      BY <3>0, VersionFacts
    <3>2. [job[p] EXCEPT !.at = job[p].at + 1] \in Job
      BY <2>4, <3>1 DEF Job
    <3>3. db' \in Database
      <4>1. PICK m \in Migrations : \E done \in AfterStatement(m, job[p].at + 1) :
               db' = [db EXCEPT !.done = done, !.redone = Redone(m, job[p].at + 1)]
        BY <2>12 DEF RunStatement
      <4>2. PICK done \in AfterStatement(m, job[p].at + 1) :
               db' = [db EXCEPT !.done = done, !.redone = Redone(m, job[p].at + 1)]
        BY <4>1
      <4>3. /\ done \in [Migrations -> 0..Statements]
            /\ Redone(m, job[p].at + 1) \in SUBSET Migrations
        BY <3>1, StatementMoves
      <4> QED
        BY <4>2, <4>3, DatabaseMoves
    <3> QED
      BY <2>2, <2>12, <3>2, <3>3 DEF RunStatement, Goto
  <2>13. CASE Finish(p)
    <3>1. PICK m \in Migrations, next \in {"apply", "up", "end"} :
             /\ db' = [db EXCEPT !.finished = @ \cup {m}]
             /\ Goto(p, [To(p, next) EXCEPT !.names = job[p].names \ {m}, !.at = 0])
      BY <2>13 DEF Finish
    <3>2. [[job[p] EXCEPT !.step = next] EXCEPT !.names = job[p].names \ {m}, !.at = 0] \in Job
      BY <2>4, JobNumbers DEF JobSteps, Job
    <3>3. db' \in Database
      BY <3>1, DatabaseMoves
    <3> QED
      BY <2>2, <3>1, <3>2, <3>3 DEF Goto, To
  <2> QED
    BY <1>3, <2>5, <2>6, <2>7, <2>8, <2>9, <2>10, <2>11, <2>12, <2>13 DEF Program
<1> QED
  BY <1>2, <1>3 DEF Next

LEMMA StartupBegins == Init => TypeOK
<1>1. LockInit => LockTypeOK
  BY DEF LockInit, LockTypeOK, Off, Process, LockSteps, Roles
<1>2. NoJob \in Job
  BY JobNumbers DEF NoJob, Job, JobSteps
<1> QED
  BY <1>1, <1>2, OriginsTyped DEF Init, TypeOK

\* The database, the lock files and what the programs know are well formed.
THEOREM StartupTyped == Spec => []TypeOK
BY StartupBegins, StartupTypes, PTL DEF Spec

-------------------------------------------------------------------------------
\* Every migration that is marked as finished has all its statements, unless a
\* statement of it or of an earlier one ran again.
Sound ==
    \A m \in db.finished : db.done[m] = Statements \/ \E k \in db.redone : k <= m

\* What a server knows of the database from its first query to the end: it
\* holds the lock, so nobody else adds to it.
Knows(p) ==
    /\ job[p].step \in {"fresh", "applied again", "ensure", "apply", "up"} => HasLock(p)
    /\ job[p].step \in {"fresh", "applied again"} =>
          job[p].applied = db.finished /\ db.finished \subseteq Files(job[p].version)
    /\ job[p].step \in {"ensure", "apply"} =>
          db.finished \cup job[p].names = Files(job[p].version)
    /\ job[p].step = "up" => db.finished = Files(job[p].version)

\* What holds of sp-migrate too, which may apply what is applied already: what it
\* has run itself is in effect, and whoever applies has found a sound database.
Honest(p) ==
    /\ job[p].at > 0 => job[p].step \in {"apply", "end"}
    /\ job[p].step \in {"ensure", "apply"} => HasLock(p)
    /\ job[p].step = "apply" =>
          \A m \in Migrations : IsNext(m, job[p].names) => db.done[m] >= job[p].at
    /\ job[p].step \in {"lock", "ensure", "apply", "up"} => Sound

\* sp-migrate takes the lock after its decision.
Waits(p) == ~IsServer(p) /\ proc[p].step \in AcquiringSteps => job[p].step = "lock"

Settled(p) == Honest(p) /\ Waits(p) /\ (IsServer(p) => Knows(p))

\* An unsound database is one that has lost its tables: nobody touches it.  The
\* first migration never runs again, or a new database could not be told.
SchemaInv ==
    /\ TypeOK
    /\ Sound \/ Fresh
    /\ 1 \notin db.redone
    /\ \A p \in Processes : Settled(p)

\* A program changes its own job and its own process.
LEMMA OthersStay ==
    ASSUME TypeOK, NEW p \in Processes, Program(p), NEW q \in Processes, q # p
    PROVE  proc'[q] = proc[q] /\ job'[q] = job[q]
<1>1. proc \in [Processes -> Process] /\ job \in [Processes -> Job]
  BY DEF TypeOK, LockTypeOK
<1>2. proc'[q] = proc[q]
  <2>1. \/ proc' = proc
        \/ \E x : proc' = [proc EXCEPT ![p] = x]
        \/ \E s : proc' = [proc EXCEPT ![p].step = s]
    BY DEF Program, Start, TakeLock, Quit, QuitDone, Crash, ReadHistory, ReadLegacy,
           ReadApplied, ReadFresh, ReadAppliedAgain, Ensure, RunStatement, Finish, Fail,
           Goto, lockVars, Launch, Acquire, EnterLock, CheckServer, CheckMigrate, Check,
           CheckServerAgain, CheckMigrateAgain, Write, WriteFails, ReadBack, SetStep,
           Leave, Unlink, Die
  <2> QED
    BY <1>1, <2>1
<1>3. job'[q] = job[q]
  <2>1. \/ job' = job
        \/ \E x : job' = [job EXCEPT ![p] = x]
        \/ \E s : job' = [job EXCEPT ![p].step = s]
    BY DEF Program, Start, TakeLock, Quit, QuitDone, Crash, ReadHistory, ReadLegacy,
           ReadApplied, ReadFresh, ReadAppliedAgain, Ensure, RunStatement, Finish, Fail,
           Goto
  <2> QED
    BY <1>1, <2>1
<1> QED
  BY <1>2, <1>3

\* A step that leaves the database alone concerns nobody else.
LEMMA LookingIsHarmless ==
    ASSUME SchemaInv, TypeOK', NEW p \in Processes, Program(p), db' = db, Settled(p)'
    PROVE  SchemaInv'
<1>1. ASSUME NEW q \in Processes, q # p PROVE Settled(q)'
  <2>1. proc'[q] = proc[q] /\ job'[q] = job[q] /\ Settled(q)
    BY <1>1, OthersStay DEF SchemaInv
  <2> QED
    BY <2>1 DEF Settled, Honest, Waits, Knows, Sound, IsServer, HasLock
<1>2. (Sound \/ Fresh)'
  BY DEF SchemaInv, Sound, Fresh
<1>3. 1 \notin db'.redone
  BY DEF SchemaInv
<1> QED
  BY <1>1, <1>2, <1>3 DEF SchemaInv

\* What a program may conclude from a query.
LEMMA GoingOn ==
    ASSUME SchemaInv, TypeOK', NEW p \in Processes, Program(p), db' = db,
           NEW s \in {"history", "legacy", "applied", "fresh", "applied again", "ensure", "apply"},
           At(p, s), NEW j, Goto(p, j),
           j.at > 0 => j.step = "end",
           j.step # "apply",
           j.step = "ensure" => IsServer(p),
           j.step \in {"lock", "ensure", "up"} => Sound,
           IsServer(p) /\ j.step \in {"fresh", "applied again"} =>
              j.applied = db.finished /\ db.finished \subseteq Files(j.version),
           IsServer(p) /\ j.step = "ensure" => db.finished \cup j.names = Files(j.version),
           IsServer(p) /\ j.step = "up" => db.finished = Files(j.version)
    PROVE  SchemaInv'
<1>1. job'[p] = j /\ proc' = proc
  BY DEF Goto, lockVars, SchemaInv, TypeOK
<1>2. HasLock(p) \/ proc[p].step = "running"
  BY DEF At
<1>3. IsServer(p) => HasLock(p)
  BY DEF At
<1>4. proc[p].step \notin AcquiringSteps
  BY <1>2 DEF HasLock, AcquiringSteps
<1>5. Honest(p)'
  BY <1>1, <1>3 DEF Honest, Sound, HasLock
<1>6. Waits(p)'
  BY <1>1, <1>4 DEF Waits
<1>7. IsServer(p)' => Knows(p)'
  BY <1>1, <1>3 DEF Knows, IsServer, HasLock
<1> QED
  BY <1>5, <1>6, <1>7, LookingIsHarmless DEF Settled

\* The end of a decision, when applied is what the database says and a new
\* database has no history.
LEMMA Deciding ==
    ASSUME SchemaInv, TypeOK', NEW p \in Processes, Program(p), db' = db,
           NEW s \in {"fresh", "applied again"}, At(p, s), NEW fresh \in BOOLEAN,
           Goto(p, Decided(p, fresh)), Sound
    PROVE  SchemaInv'
<1> DEFINE d == Decided(p, fresh)
           pending == Files(job[p].version) \ job[p].applied
<1>1. job[p] \in Job /\ job[p].step = s
  BY DEF SchemaInv, TypeOK, At
<1>2. /\ d.version = job[p].version /\ d.at = job[p].at
      /\ d.applied = job[p].applied
      /\ d.step \in {"up", "end", "ensure", "lock"}
      /\ d.step = "up" => pending = {}
      /\ d.step = "ensure" => IsServer(p) /\ d.names = pending
  BY <1>1, DecidedFacts
<1>3. IsServer(p) => job[p].applied = db.finished /\ db.finished \subseteq Files(job[p].version)
  BY <1>1 DEF SchemaInv, Settled, Knows
<1>4. ~(job[p].at > 0)
  BY <1>1 DEF SchemaInv, Settled, Honest
<1>5. /\ ~(d.at > 0) /\ d.step \notin {"apply", "fresh", "applied again"}
      /\ IsServer(p) /\ d.step = "ensure" => db.finished \cup d.names = Files(d.version)
      /\ IsServer(p) /\ d.step = "up" => db.finished = Files(d.version)
  <2>1. ~(d.at > 0) /\ d.step \notin {"apply", "fresh", "applied again"}
    BY <1>2, <1>4
  <2>2. ASSUME IsServer(p), d.step = "ensure" PROVE db.finished \cup d.names = Files(d.version)
    <3>1. /\ d.names = Files(job[p].version) \ db.finished
          /\ db.finished \subseteq Files(job[p].version) /\ d.version = job[p].version
      BY <1>2, <1>3, <2>2
    <3> HIDE DEF d
    <3> QED
      BY <3>1
  <2>3. ASSUME IsServer(p), d.step = "up" PROVE db.finished = Files(d.version)
    <3>1. /\ Files(job[p].version) \ db.finished = {}
          /\ db.finished \subseteq Files(job[p].version) /\ d.version = job[p].version
      BY <1>2, <1>3, <2>3
    <3> HIDE DEF d
    <3> QED
      BY <3>1
  <2> QED
    BY <2>1, <2>2, <2>3
<1>6. d.step = "ensure" => IsServer(p)
  BY <1>2
<1>7. Goto(p, d)
  OBVIOUS
<1> HIDE DEF d
<1> QED
  BY <1>5, <1>6, <1>7, GoingOn

LEMMA QueriesSettle ==
    ASSUME SchemaInv, TypeOK', NEW p \in Processes, Program(p),
           \/ ReadHistory(p) \/ ReadLegacy(p) \/ ReadApplied(p)
           \/ ReadFresh(p) \/ ReadAppliedAgain(p) \/ Fail(p)
    PROVE  SchemaInv'
<1>0. job[p] \in Job /\ Honest(p) /\ (IsServer(p) => Knows(p)) /\ (Sound \/ Fresh)
  BY DEF SchemaInv, TypeOK, Settled
<1>1. CASE ReadHistory(p) \/ ReadLegacy(p)
  <2>1. PICK s \in {"history", "legacy"}, j \in {To(p, "applied"), To(p, "legacy"), Halt(p, 4)} :
           At(p, s) /\ Goto(p, j)
    BY <1>1 DEF ReadHistory, ReadLegacy
  <2>4. j.step \in {"applied", "legacy", "end"} /\ j.at = job[p].at
    BY <1>0, <2>1 DEF To, Halt, Job
  <2>2. ~(j.at > 0)
    BY <1>0, <2>1, <2>4 DEF Honest, At
  <2>3. db' = db
    BY <1>1 DEF ReadHistory, ReadLegacy
  <2> QED
    BY <2>1, <2>2, <2>3, <2>4, GoingOn
<1>2. CASE ReadApplied(p)
  <2> DEFINE j == IF db.finished \subseteq Files(job[p].version)
                  THEN [To(p, "fresh") EXCEPT !.applied = db.finished] ELSE Halt(p, 5)
  <2>1. At(p, "applied") /\ Goto(p, j) /\ db' = db
    BY <1>2 DEF ReadApplied
  <2>2. /\ j.at = job[p].at /\ j.version = job[p].version /\ j.step \in {"fresh", "end"}
        /\ j.step = "fresh" => /\ j.applied = db.finished
                               /\ db.finished \subseteq Files(job[p].version)
    BY <1>0 DEF To, Halt, Job
  <2>3. ~(job[p].at > 0)
    BY <1>0, <2>1 DEF Honest, At
  <2> HIDE DEF j
  <2> QED
    BY <2>1, <2>2, <2>3, GoingOn
<1>3. CASE ReadFresh(p) /\ Fresh
  <2> DEFINE j == To(p, "applied again")
  <2>1. At(p, "fresh") /\ Goto(p, j) /\ db' = db
    BY <1>3 DEF ReadFresh
  <2>2. /\ j.at = job[p].at /\ j.version = job[p].version /\ j.step = "applied again"
        /\ j.applied = job[p].applied
    BY <1>0 DEF To, Job
  <2>3. job[p].step = "fresh"
    BY <2>1 DEF At
  <2>4. /\ ~(job[p].at > 0)
        /\ IsServer(p) => job[p].applied = db.finished /\ db.finished \subseteq Files(job[p].version)
    BY <1>0, <2>3 DEF Honest, Knows
  <2> HIDE DEF j
  <2> QED
    BY <2>1, <2>2, <2>4, GoingOn
<1>4. CASE ReadFresh(p) /\ ~Fresh
  BY <1>0, <1>4, Deciding DEF ReadFresh
<1>5. CASE ReadAppliedAgain(p) /\ db.finished # {}
  <2>1. At(p, "applied again") /\ Goto(p, Halt(p, 6)) /\ db' = db
    BY <1>5 DEF ReadAppliedAgain
  <2>2. Halt(p, 6).step = "end"
    BY <1>0 DEF Halt, Job
  <2> QED
    BY <2>1, <2>2, GoingOn
<1>6. CASE ReadAppliedAgain(p) /\ db.finished = {}
  <2>1. Sound
    BY <1>6 DEF Sound
  <2> QED
    BY <1>6, <2>1, Deciding DEF ReadAppliedAgain
<1>7. CASE Fail(p)
  <2>1. PICK s \in {"ensure", "apply"} : At(p, s)
    BY <1>7 DEF Fail
  <2>2. Goto(p, Halt(p, 1)) /\ db' = db
    BY <1>7 DEF Fail
  <2>3. Halt(p, 1).step = "end"
    BY <1>0 DEF Halt, Job
  <2> QED
    BY <2>1, <2>2, <2>3, GoingOn
<1> QED
  BY <1>1, <1>2, <1>3, <1>4, <1>5, <1>6, <1>7

\* Who builds the schema holds the lock, and is the only server that knows it.
LEMMA BuildingIsAlone ==
    ASSUME SchemaInv, TypeOK', Sure, NEW p \in Processes, Program(p),
           HasLock(p), Sound', Settled(p)', 1 \notin db'.redone
    PROVE  SchemaInv'
<1>1. ASSUME NEW q \in Processes, q # p PROVE Settled(q)'
  <2>1. proc'[q] = proc[q] /\ job'[q] = job[q] /\ Settled(q)
    BY <1>1, OthersStay DEF SchemaInv
  <2>2. ~HasLock(q)
    <3>1. HasLock(q) => proc[p].step = "held" /\ proc[q].step = "held"
      BY DEF Sure, Good, HasLock
    <3> QED
      BY <1>1, <3>1 DEF Sure, IInv, Apart, Owning
  <2>3. Honest(q)'
    BY <2>1, <2>2 DEF Settled, Honest
  <2>4. Waits(q)'
    BY <2>1 DEF Settled, Waits, IsServer
  <2>5. IsServer(q)' => Knows(q)'
    BY <2>1, <2>2 DEF Settled, Knows, IsServer
  <2> QED
    BY <2>3, <2>4, <2>5 DEF Settled
<1> QED
  BY <1>1 DEF SchemaInv

\* What a program that builds leaves behind for itself.
LEMMA BuildersOwn ==
    ASSUME SchemaInv, NEW p \in Processes, NEW s \in {"ensure", "apply"}, At(p, s),
           NEW j, Goto(p, j), Sound',
           j.at > 0 => j.step \in {"apply", "end"},
           j.step = "apply" =>
              \A m \in Migrations : IsNext(m, j.names) => db'.done[m] >= j.at,
           j.step \in {"apply", "up", "end"},
           IsServer(p) /\ j.step = "apply" => db'.finished \cup j.names = Files(j.version),
           IsServer(p) /\ j.step = "up" => db'.finished = Files(j.version)
    PROVE  Settled(p)'
<1>1. job'[p] = j /\ proc' = proc /\ HasLock(p)
  BY DEF Goto, lockVars, SchemaInv, TypeOK, At
<1>2. Honest(p)'
  BY <1>1 DEF Honest, HasLock
<1>3. Waits(p)'
  BY <1>1 DEF Waits, HasLock, AcquiringSteps
<1>4. IsServer(p)' => Knows(p)'
  BY <1>1 DEF Knows, IsServer, HasLock
<1> QED
  BY <1>2, <1>3, <1>4 DEF Settled

LEMMA EnsureSettles ==
    ASSUME SchemaInv, TypeOK', Sure, NEW p \in Processes, Program(p), Ensure(p)
    PROVE  SchemaInv'
<1>1. /\ At(p, "ensure") /\ HasLock(p) /\ job[p].step = "ensure" /\ Goto(p, To(p, "apply"))
      /\ db' = [db EXCEPT !.hasHistory = TRUE]
  BY DEF Ensure, EnsureTable, At
<1>2. job[p] \in Job /\ db \in Database /\ Settled(p)
  BY DEF SchemaInv, TypeOK
<1>3. db'.done = db.done /\ db'.finished = db.finished /\ db'.redone = db.redone
  BY <1>1, <1>2 DEF Database
<1>4. /\ To(p, "apply").step = "apply" /\ To(p, "apply").at = job[p].at
      /\ To(p, "apply").names = job[p].names /\ To(p, "apply").version = job[p].version
  BY <1>2 DEF To, Job
<1>5. ~(job[p].at > 0) /\ Sound /\ Sound'
  BY <1>1, <1>2, <1>3 DEF Settled, Honest, Sound
<1>6. IsServer(p) => db.finished \cup job[p].names = Files(job[p].version)
  BY <1>1, <1>2 DEF Settled, Knows
<1>7. \A m \in Migrations : db'.done[m] >= job[p].at
  <2>1. ASSUME NEW m \in Migrations PROVE db.done[m] \in Nat
    BY <1>2, VersionFacts DEF Database
  <2>2. job[p].at \in Nat
    BY <1>2, VersionFacts DEF Job
  <2> QED
    BY <1>3, <1>5, <2>1, <2>2
<1>8. Settled(p)'
  <2> DEFINE j == To(p, "apply")
  <2>1. Goto(p, j) /\ j.step = "apply" /\ j.at = job[p].at /\ j.names = job[p].names
        /\ j.version = job[p].version
    BY <1>1, <1>4
  <2> HIDE DEF j
  <2> QED
    BY <1>1, <1>3, <1>5, <1>6, <1>7, <2>1, BuildersOwn
<1>9. 1 \notin db'.redone
  BY <1>3 DEF SchemaInv
<1> QED
  BY <1>1, <1>5, <1>8, <1>9, BuildingIsAlone

LEMMA StatementSettles ==
    ASSUME SchemaInv, TypeOK', Sure, NEW p \in Processes, Program(p), RunStatement(p)
    PROVE  SchemaInv'
<1> DEFINE i == job[p].at + 1
           j == [job[p] EXCEPT !.at = i]
<1>1. /\ At(p, "apply") /\ HasLock(p) /\ job[p].step = "apply" /\ Goto(p, j)
      /\ i <= Statements
  BY DEF RunStatement, At
<1>2. PICK m \in Migrations :
         /\ IsNext(m, job[p].names)
         /\ m = 1 => i > db.done[1]
         /\ \E done \in AfterStatement(m, i) :
               db' = [db EXCEPT !.done = done, !.redone = Redone(m, i)]
  BY DEF RunStatement
<1>3. PICK done \in AfterStatement(m, i) :
          db' = [db EXCEPT !.done = done, !.redone = Redone(m, i)]
  BY <1>2
<1>4. job[p] \in Job /\ db \in Database /\ Settled(p)
  BY DEF SchemaInv, TypeOK
<1>5. job[p].at \in Nat /\ i \in Nat /\ \A n \in Migrations : db.done[n] \in 0..Statements
  BY <1>4, VersionFacts DEF Job, Database
<1>6. db'.finished = db.finished /\ db'.done = done /\ db'.redone = Redone(m, i)
  BY <1>4, <1>3 DEF Database
<1>7. Sound
  BY <1>1, <1>4 DEF Settled, Honest
<1>8. /\ done[m] >= i
      /\ \A n \in Migrations : n < m => done[n] = db.done[n]
      /\ i > db.done[m] => \A n \in Migrations : n # m => done[n] = db.done[n]
  <2>1. CASE i > db.done[m]
    <3>1. done = [db.done EXCEPT ![m] = i] /\ db.done \in [Migrations -> 0..Statements]
      BY <1>4, <2>1 DEF AfterStatement, Database
    <3> QED
      BY <1>5, <3>1, VersionFacts
  <2>2. CASE ~(i > db.done[m])
    <3>1. /\ done[m] \in {i, db.done[m]}
          /\ \A n \in Migrations : n < m => done[n] = db.done[n]
      BY <2>2 DEF AfterStatement
    <3> QED
      BY <1>5, <2>2, <3>1, VersionFacts
  <2> QED
    BY <2>1, <2>2
<1>9. Sound'
  <2>1. ASSUME NEW n \in db.finished
        PROVE  done[n] = Statements \/ \E k \in Redone(m, i) : k <= n
    <3>1. n \in Migrations /\ db.redone \subseteq Redone(m, i)
      BY <1>4 DEF Database, Redone
    <3>2. db.done[n] = Statements \/ \E k \in db.redone : k <= n
      BY <1>7 DEF Sound
    <3>3. CASE \E k \in db.redone : k <= n
      BY <3>1, <3>3
    <3>4. CASE db.done[n] = Statements /\ i > db.done[m]
      <4>1. n # m
        BY <1>1, <1>5, <3>4, VersionFacts
      <4> QED
        BY <1>8, <3>1, <3>4, <4>1
    <3>5. CASE db.done[n] = Statements /\ ~(i > db.done[m]) /\ n < m
      BY <1>8, <3>1, <3>5
    <3>6. CASE ~(i > db.done[m]) /\ ~(n < m)
      <4>1. i <= db.done[m] /\ m <= n /\ n >= m
        BY <1>5, <3>1, <3>6, VersionFacts
      <4>2. m \in Redone(m, i)
        BY <4>1 DEF Redone
      <4> QED
        BY <4>1, <4>2
    <3> QED
      BY <3>2, <3>3, <3>4, <3>5, <3>6
  <2> QED
    BY <1>6, <2>1 DEF Sound
<1>10. 1 \notin db'.redone
  <2>1. 1 \notin db.redone
    BY DEF SchemaInv
  <2>2. m = 1 => Redone(m, i) = db.redone
    BY <1>2, <1>5, VersionFacts DEF Redone
  <2> QED
    BY <1>6, <2>1, <2>2 DEF Redone
<1>11. /\ j.at = i /\ j.step = "apply" /\ j.names = job[p].names /\ j.version = job[p].version
  BY <1>1, <1>4 DEF Job
<1>12. \A n \in Migrations : IsNext(n, job[p].names) => db'.done[n] >= i
  <2>1. ASSUME NEW n \in Migrations, IsNext(n, job[p].names) PROVE n = m
    BY <1>2, <2>1, VersionFacts DEF IsNext
  <2> QED
    BY <1>6, <1>8, <2>1
<1>13. IsServer(p) => db.finished \cup job[p].names = Files(job[p].version)
  BY <1>1, <1>4 DEF Settled, Knows
<1>14. Settled(p)'
  <2> HIDE DEF j, i
  <2> QED
    BY <1>1, <1>6, <1>9, <1>11, <1>12, <1>13, BuildersOwn
<1> QED
  BY <1>1, <1>9, <1>14, <1>10, BuildingIsAlone

LEMMA FinishSettles ==
    ASSUME SchemaInv, TypeOK', Sure, NEW p \in Processes, Program(p), Finish(p)
    PROVE  SchemaInv' /\ Sound'
<1>1. /\ At(p, "apply") /\ HasLock(p) /\ job[p].step = "apply" /\ job[p].at = Statements
  BY DEF Finish, At, AllRun
<1>2. PICK m \in Migrations :
         LET rest == job[p].names \ {m}
             next == IF rest # {} THEN "apply" ELSE IF IsServer(p) THEN "up" ELSE "end"
         IN  /\ IsNext(m, job[p].names)
             /\ db' = [db EXCEPT !.finished = @ \cup {m}]
             /\ Goto(p, [To(p, next) EXCEPT !.names = rest, !.at = 0])
  BY DEF Finish
<1> DEFINE rest == job[p].names \ {m}
           next == IF rest # {} THEN "apply" ELSE IF IsServer(p) THEN "up" ELSE "end"
           j == [To(p, next) EXCEPT !.names = rest, !.at = 0]
<1>3. job[p] \in Job /\ db \in Database /\ Settled(p)
  BY DEF SchemaInv, TypeOK
<1>4. /\ db'.done = db.done /\ db'.finished = db.finished \cup {m}
      /\ db'.redone = db.redone
  BY <1>2, <1>3 DEF Database
<1>5. \A n \in Migrations : db.done[n] \in 0..Statements
  BY <1>3 DEF Database
<1>6. Sound'
  <2>1. Sound /\ db.done[m] >= Statements
    BY <1>1, <1>2, <1>3 DEF Settled, Honest
  <2>2. db.done[m] = Statements
    BY <1>5, <2>1, VersionFacts
  <2> QED
    BY <1>4, <2>1, <2>2 DEF Sound
<1>7. \A n \in Migrations : db'.done[n] >= 0
  BY <1>4, <1>5, VersionFacts
<1>8. j.at = 0 /\ j.step = next /\ j.names = rest /\ j.version = job[p].version
  BY <1>3 DEF To, Job
<1>9. IsServer(p) => db.finished \cup job[p].names = Files(job[p].version)
  BY <1>1, <1>3 DEF Settled, Knows
<1>10. /\ next \in {"apply", "up", "end"}
       /\ IsServer(p) => db'.finished \cup rest = Files(j.version)
       /\ IsServer(p) /\ next = "up" => db'.finished = Files(j.version)
  <2>1. m \in job[p].names
    BY <1>2 DEF IsNext
  <2>2. db'.finished \cup rest = db.finished \cup job[p].names
    BY <1>4, <2>1
  <2>3. next = "up" => rest = {}
    OBVIOUS
  <2> QED
    BY <1>8, <1>9, <2>2, <2>3
<1>11. Settled(p)'
  <2>1. Goto(p, j)
    BY <1>2
  <2> HIDE DEF j, next, rest
  <2>2. /\ ~(j.at > 0) /\ j.step \in {"apply", "up", "end"}
        /\ \A n \in Migrations : IsNext(n, j.names) => db'.done[n] >= j.at
        /\ IsServer(p) /\ j.step = "apply" => db'.finished \cup j.names = Files(j.version)
        /\ IsServer(p) /\ j.step = "up" => db'.finished = Files(j.version)
    BY <1>7, <1>8, <1>10
  <2> QED
    BY <1>1, <1>6, <2>1, <2>2, BuildersOwn
<1>12. 1 \notin db'.redone
  BY <1>4 DEF SchemaInv
<1> QED
  BY <1>1, <1>6, <1>11, <1>12, BuildingIsAlone

\* A step of the lock that does not change what the program knows.
LEMMA LockSettles ==
    ASSUME SchemaInv, TypeOK', NEW p \in Processes, Program(p),
           \/ Start(p) \/ TakeLock(p) \/ Quit(p) \/ QuitDone(p) \/ Crash(p)
    PROVE  SchemaInv'
<1>0. /\ job \in [Processes -> Job] /\ proc \in [Processes -> Process]
      /\ Honest(p) /\ Waits(p) /\ (IsServer(p) => Knows(p))
  BY DEF SchemaInv, TypeOK, LockTypeOK, Settled
<1>1. db' = db
  BY DEF Start, TakeLock, Quit, QuitDone, Crash
<1>2. CASE Start(p)
  <2>0. PICK v \in Versions :
           job' = [job EXCEPT ![p] = [NoJob EXCEPT !.step = "history", !.version = v]]
    BY <1>2 DEF Start
  <2>1. /\ job'[p].step = "history" /\ ~(job'[p].at > 0)
        /\ proc'[p].step = "running"
    <3>1. job'[p] = [NoJob EXCEPT !.step = "history", !.version = v]
      BY <1>0, <2>0
    <3>2. job'[p].step = "history" /\ job'[p].at = 0
      BY <3>1 DEF NoJob
    <3>3. proc'[p].step = "running"
      <4>1. Launch(p) /\ LockTypeOK
        BY <1>2 DEF Start, SchemaInv, TypeOK
      <4> QED
        BY <4>1 DEF Launch, LockTypeOK
    <3> QED
      BY <3>2, <3>3
  <2>2. Settled(p)'
    BY <2>1 DEF Settled, Honest, Waits, Knows, AcquiringSteps
  <2> QED
    BY <1>1, <2>2, LookingIsHarmless
<1>3. CASE TakeLock(p)
  <2>1. PICK s \in LockSteps : SetStep(p, s)
    BY <1>3 DEF TakeLock, Acquire, EnterLock, CheckServer, CheckMigrate, CheckServerAgain,
                CheckMigrateAgain, Check, Write, WriteFails, ReadBack, LockSteps, AcquiringSteps
  <2>2. proc'[p].step = s /\ proc'[p].role = proc[p].role
    BY <1>0, <2>1 DEF SetStep, Process
  <2>3. proc[p].step \in AcquiringSteps \cup {"running"}
    BY <1>3 DEF TakeLock, Acquire, EnterLock, CheckServer, CheckMigrate, CheckServerAgain,
                CheckMigrateAgain, Check, Write, WriteFails, ReadBack, AcquiringSteps
  <2>4. ~HasLock(p)
    BY <2>3 DEF HasLock, AcquiringSteps
  <2>5. ~IsServer(p) => job[p].step = "lock"
    BY <1>0, <1>3, <2>3 DEF TakeLock, Waits
  <2>6. CASE job' = job
    <3>1. Honest(p)'
      BY <1>0, <1>1, <2>4, <2>6 DEF Honest, Sound
    <3>2. IsServer(p)' => Knows(p)'
      BY <1>0, <1>1, <2>2, <2>4, <2>6 DEF Knows, IsServer
    <3>3. Waits(p)'
      BY <2>2, <2>5, <2>6 DEF Waits, IsServer
    <3> QED
      BY <1>1, <3>1, <3>2, <3>3, LookingIsHarmless DEF Settled
  <2>7. CASE /\ job' = [job EXCEPT ![p].step = "ensure"] /\ HasLock(p)' /\ ~IsServer(p)
    <3>1. job'[p].step = "ensure" /\ job'[p].at = job[p].at
      BY <1>0, <2>7 DEF Job
    <3>2. Honest(p)'
      BY <1>0, <1>1, <2>5, <2>7, <3>1 DEF Honest, Sound
    <3>3. Waits(p)' /\ ~IsServer(p)'
      BY <2>2, <2>7 DEF Waits, IsServer, HasLock, AcquiringSteps
    <3> QED
      BY <1>1, <3>2, <3>3, LookingIsHarmless DEF Settled
  <2> QED
    BY <1>3, <2>6, <2>7 DEF TakeLock
<1>4. CASE Quit(p) \/ QuitDone(p) \/ Crash(p)
  <2>1. job'[p].step \in {"none", "end"} /\ (job'[p].at > 0 => job'[p].step = "end")
    BY <1>0, <1>4 DEF Quit, QuitDone, Crash, To, NoJob, Job
  <2>2. proc'[p].step \in {"unlink", "off"}
    <3>1. CASE Leave(p)
      BY <1>0, <3>1 DEF Leave, SetStep, Off, Process
    <3>2. CASE Unlink(p) \/ Die(p)
      BY <1>0, <3>2 DEF Unlink, Die, Off
    <3> QED
      BY <1>4, <3>1, <3>2 DEF Quit, QuitDone, Crash
  <2>3. Settled(p)'
    BY <2>1, <2>2 DEF Settled, Honest, Waits, Knows, AcquiringSteps
  <2> QED
    BY <1>1, <2>3, LookingIsHarmless
<1> QED
  BY <1>2, <1>3, <1>4

LEMMA SchemaKeeps == ASSUME Sure, SchemaInv, [Next]_vars PROVE SchemaInv'
<1>1. TypeOK'
  BY StartupTypes DEF SchemaInv
<1>2. CASE UNCHANGED vars
  BY <1>1, <1>2 DEF vars, lockVars, SchemaInv, Settled, Honest, Waits, Knows, Sound,
                    Fresh, IsServer, HasLock
<1>3. CASE Next
  <2>1. PICK p \in Processes : Program(p)
    BY <1>3 DEF Next
  <2> QED
    BY <1>1, <2>1, QueriesSettle, EnsureSettles, StatementSettles, FinishSettles,
       LockSettles DEF Program
<1> QED
  BY <1>2, <1>3

LEMMA SchemaBegins == Init => SchemaInv
<1> SUFFICES ASSUME Init PROVE SchemaInv
  OBVIOUS
<1>1. TypeOK
  BY StartupBegins
<1>2. \A p \in Processes : Settled(p)
  <2>1. ASSUME NEW p \in Processes PROVE Settled(p)
    <3>1. job[p] = NoJob /\ proc[p] = Off
      BY DEF Init, LockInit
    <3>2. job[p].step = "none" /\ ~(job[p].at > 0) /\ proc[p].step = "off"
      BY <3>1 DEF NoJob, Off
    <3> QED
      BY <3>2 DEF Settled, Honest, Waits, Knows, AcquiringSteps
  <2> QED
    BY <2>1
<1>3. 1 \notin db.redone
  <2>1. \A v : Complete(v).redone = {}
    BY DEF Complete
  <2>2. Legacy.redone = {} /\ Emptied.redone = {}
    BY DEF Legacy, Emptied, New, Complete
  <2> QED
    BY <2>1, <2>2 DEF Init, Origins
<1>4. Sound \/ Fresh
  <2>1. ASSUME NEW v \in 0..LastMigration, db = Complete(v) PROVE Sound
    <3>1. db.finished = 1..v /\ \A m \in Migrations : m <= v => db.done[m] = Statements
      BY <2>1 DEF Complete
    <3>2. \A m \in 1..v : m \in Migrations /\ m <= v
      BY <2>1, VersionFacts DEF Migrations
    <3> QED
      BY <3>1, <3>2 DEF Sound
  <2>2. CASE db = Legacy
    <3>1. db.finished = {}
      BY <2>2 DEF Legacy, Complete
    <3> QED
      BY <3>1 DEF Sound
  <2>3. CASE db = Emptied
    <3>1. db.done[1] = 0
      BY <2>3, VersionFacts DEF Emptied, New, Complete
    <3> QED
      BY <3>1 DEF Fresh
  <2> QED
    BY <2>1, <2>2, <2>3 DEF Init, Origins
<1> QED
  BY <1>1, <1>2, <1>3, <1>4 DEF SchemaInv

(***************************************************************************)
(* A server that is up has all of its schema, statement by statement, and  *)
(* nothing it does not know (decideBoot and applyMigrations,               *)
(* migration-runner.ts): provided that lock files can be written and that  *)
(* programs do not start together, and except for what a second sp-migrate *)
(* has undone by running statements of a finished migration again.         *)
(***************************************************************************)
THEOREM ServedSchemaIsComplete ==
    ASSUME MaxAcquiring = 1, ~WritesMayFail
    PROVE  Spec => []ServesCompleteSchema
<1>1. SchemaInv => ServesCompleteSchema
  BY DEF SchemaInv, Settled, Honest, Knows, Sound, Up, ServesCompleteSchema
<1> QED
  BY <1>1, SchemaBegins, SchemaKeeps, SureHolds, PTL DEF Spec

-------------------------------------------------------------------------------
(* What a server concludes                                                 *)

\* The exit codes by which a server calls a database legacy or damaged.
Alarms == {4, 6}

LEMMA NoAlarm == \A c : c \in {0, 1, 2, 3, 5} => c \notin Alarms
BY DEF Alarms

\* What any program remembers of its own queries.
Remembers(p) ==
    /\ job[p].step # "end" => job[p].code = 0
    /\ job[p].step \notin {"none", "end"} => job[p].version \in Versions
    /\ job[p].step \in {"fresh", "applied again"} => job[p].applied \subseteq db.finished
    /\ job[p].step \in {"lock", "ensure", "apply"} =>
          Files(job[p].version) \subseteq db.finished \cup job[p].names
    /\ job[p].step = "apply" => db.hasHistory

\* What the queries of a server have told it, and is true as long as it decides.
Sees(p) ==
    /\ job[p].step \in {"legacy", "applied", "fresh", "applied again"} => HasLock(p)
    /\ job[p].step = "legacy" => ~db.hasHistory
    /\ job[p].step \in {"applied", "fresh", "applied again"} => db.hasHistory \/ Fresh
    /\ job[p].step = "applied again" => Fresh

\* A database that was built from nothing: the history comes before the first
\* table, and the first migration before the others.
Grown ==
    origin = New => /\ Sound
                    /\ db.hasHistory \/ Fresh
                    /\ db.finished # {} => 1 \in db.finished

TruthInv ==
    /\ SchemaInv
    /\ Grown
    /\ \A p \in Processes : Remembers(p) /\ (IsServer(p) => Sees(p))
    /\ NoFalseAlarm

\* What a program remembers stays true while others build the schema.
LEMMA MemoryLasts ==
    ASSUME TruthInv, Sure, NEW p \in Processes, Program(p),
           NEW q \in Processes, q # p,
           \/ db' = db
           \/ /\ HasLock(p)
              /\ db.finished \subseteq db'.finished
              /\ db.hasHistory => db'.hasHistory
    PROVE  Remembers(q)' /\ (IsServer(q)' => Sees(q)')
<1>1. proc'[q] = proc[q] /\ job'[q] = job[q] /\ Remembers(q) /\ (IsServer(q) => Sees(q))
  BY OthersStay DEF TruthInv, SchemaInv
<1>2. Remembers(q)'
  BY <1>1 DEF Remembers
<1>3. CASE db' = db
  BY <1>1, <1>2, <1>3 DEF Sees, IsServer, HasLock, Fresh
<1>4. CASE HasLock(p)
  <2>1. HasLock(q) => proc[p].step = "held" /\ proc[q].step = "held"
    BY <1>4 DEF Sure, Good, HasLock
  <2>2. ~HasLock(q)
    BY <2>1 DEF Sure, IInv, Apart, Owning
  <2>3. IsServer(q)' => Sees(q)'
    BY <1>1, <2>2 DEF Sees, IsServer
  <2> QED
    BY <1>2, <2>3
<1> QED
  BY <1>3, <1>4

\* Every step of a program, from what it does to the database and to itself.
LEMMA TruthMoves ==
    ASSUME TruthInv, SchemaInv', Sure, NEW p \in Processes, Program(p),
           \/ db' = db
           \/ /\ HasLock(p)
              /\ db.finished \subseteq db'.finished
              /\ db.hasHistory => db'.hasHistory,
           Grown', Remembers(p)', IsServer(p)' => Sees(p)',
           origin = New /\ IsServer(p)' => job'[p].code \notin Alarms
    PROVE  TruthInv'
<1>1. origin' = origin
  BY DEF Program, Start, TakeLock, Quit, QuitDone, Crash, ReadHistory, ReadLegacy,
         ReadApplied, ReadFresh, ReadAppliedAgain, Ensure, RunStatement, Finish, Fail, Goto
<1>2. ASSUME NEW q \in Processes PROVE Remembers(q)' /\ (IsServer(q)' => Sees(q)')
  <2>1. CASE q = p
    BY <2>1
  <2>2. CASE q # p
    BY <2>2, MemoryLasts
  <2> QED
    BY <2>1, <2>2
<1>3. NoFalseAlarm'
  <2> SUFFICES ASSUME NEW q \in Processes, origin = New, IsServer(q)'
               PROVE  job'[q].code \notin {4, 6}
    BY <1>1 DEF NoFalseAlarm
  <2>1. CASE q = p
    BY <2>1 DEF Alarms
  <2>2. CASE q # p
    <3>1. proc'[q] = proc[q] /\ job'[q] = job[q]
      BY <2>2, OthersStay DEF TruthInv, SchemaInv
    <3> QED
      BY <3>1 DEF TruthInv, NoFalseAlarm, IsServer
  <2> QED
    BY <2>1, <2>2
<1> QED
  BY <1>2, <1>3 DEF TruthInv

\* A program goes on after a query, or gives up.
LEMMA TruthGoesOn ==
    ASSUME TruthInv, SchemaInv', Sure, NEW p \in Processes, Program(p), db' = db,
           NEW s \in JobSteps, At(p, s), NEW j, Goto(p, j),
           j.version = job[p].version,
           j.step \notin {"none", "apply"},
           j.step # "end" => j.code = 0,
           j.step \in {"fresh", "applied again"} => j.applied \subseteq db.finished,
           j.step \in {"lock", "ensure"} => Files(j.version) \subseteq db.finished \cup j.names,
           s \notin {"none", "end"},
           IsServer(p) =>
              /\ j.step = "legacy" => ~db.hasHistory
              /\ j.step \in {"applied", "fresh", "applied again"} => db.hasHistory \/ Fresh
              /\ j.step = "applied again" => Fresh
              /\ origin = New => j.code \notin Alarms
    PROVE  TruthInv'
<1>1. job'[p] = j /\ proc' = proc /\ origin' = origin
  BY DEF Goto, lockVars, TruthInv, SchemaInv, TypeOK
<1>2. IsServer(p) => HasLock(p)
  BY DEF At
<1>3. job[p].version \in Versions
  BY DEF At, TruthInv, Remembers
<1>4. Remembers(p)'
  BY <1>1, <1>3 DEF Remembers
<1>5. IsServer(p)' => Sees(p)'
  BY <1>1, <1>2 DEF Sees, IsServer, HasLock, Fresh
<1>6. Grown'
  BY <1>1 DEF TruthInv, Grown, Sound, Fresh
<1> QED
  BY <1>1, <1>4, <1>5, <1>6, TruthMoves DEF IsServer

\* The exit code of a decision.
LEMMA DecidedCodes ==
    ASSUME NEW p \in Processes, job[p] \in Job, NEW fresh \in BOOLEAN
    PROVE  LET d == Decided(p, fresh)
               pending == Files(job[p].version) \ job[p].applied
           IN  /\ d.step # "end" => d.code = job[p].code
               /\ IsServer(p) /\ pending = {} => d.step = "up"
               /\ IsServer(p) /\ pending # {} /\ fresh => d.step = "ensure"
               /\ IsServer(p) /\ pending # {} /\ ~fresh => d.step = "end" /\ d.code = 3
<1> DEFINE d == Decided(p, fresh)
           pending == Files(job[p].version) \ job[p].applied
<1>1. CASE pending = {}
  <2>1. d = [job[p] EXCEPT !.step = IF IsServer(p) THEN "up" ELSE "end"]
    BY <1>1 DEF Decided, To
  <2> QED
    BY <1>1, <2>1 DEF Job
<1>2. CASE pending # {} /\ (IsServer(p) <=> fresh)
  <2>1. d = [[job[p] EXCEPT !.step = IF IsServer(p) THEN "ensure" ELSE "lock"]
                     EXCEPT !.names = pending]
    BY <1>2 DEF Decided, To
  <2> QED
    BY <1>2, <2>1 DEF Job
<1>3. CASE pending # {} /\ (IsServer(p) <=> ~fresh)
  <2>1. d = [job[p] EXCEPT !.step = "end", !.code = IF IsServer(p) THEN 3 ELSE 2]
    BY <1>3 DEF Decided, Halt
  <2> QED
    BY <1>3, <2>1 DEF Job
<1> QED
  BY <1>1, <1>2, <1>3

\* The two steps of a program that may be its last query.
Looked == {"fresh", "applied again"}

LEMMA FirstFile == \A v \in Versions : 1 \in Files(v)
BY MigrationsAssumption DEF Files

\* The decision of a program that has read enough.
LEMMA TruthDecides ==
    ASSUME TruthInv, SchemaInv', Sure, NEW p \in Processes, Program(p), db' = db,
           NEW s \in Looked, At(p, s), NEW fresh \in BOOLEAN,
           Goto(p, Decided(p, fresh)),
           fresh => Fresh /\ db.finished = {} /\ s # "fresh",
           ~fresh => ~Fresh /\ s = "fresh"
    PROVE  TruthInv' /\ (IsServer(p) => Says(p) = Verdict(job[p].version))
<1> DEFINE d == Decided(p, fresh)
           v == job[p].version
           pending == Files(v) \ job[p].applied
<1>1. /\ job[p] \in Job /\ job[p].step = s /\ job[p].code = 0 /\ v \in Versions
      /\ job[p].applied \subseteq db.finished
  BY DEF TruthInv, SchemaInv, TypeOK, At, Remembers, Looked
<1>2. /\ d.version = v /\ d.step \in {"up", "end", "ensure", "lock"}
      /\ d.step \in {"lock", "ensure"} => d.names = pending
      /\ d.step # "end" => d.code = 0
  BY <1>1, DecidedFacts, DecidedCodes
<1>3. /\ IsServer(p) /\ pending = {} => d.step = "up"
      /\ IsServer(p) /\ pending # {} /\ fresh => d.step = "ensure"
      /\ IsServer(p) /\ pending # {} /\ ~fresh => d.step = "end" /\ d.code = 3
  BY <1>1, DecidedCodes
<1>4. job'[p] = d /\ Goto(p, d)
  BY DEF Goto, TruthInv, SchemaInv, TypeOK
<1> HIDE DEF d
<1>5. IsServer(p) => /\ job[p].applied = db.finished /\ db.finished \subseteq Files(v)
                     /\ db.hasHistory \/ Fresh
  BY <1>1 DEF TruthInv, SchemaInv, Settled, Knows, Sees, Looked
<1>6. TruthInv'
  <2>1. d.step \in {"lock", "ensure"} => Files(d.version) \subseteq db.finished \cup d.names
    BY <1>1, <1>2
  <2>2. IsServer(p) => d.code \notin Alarms
    BY <1>2, <1>3, NoAlarm
  <2>3. s \in JobSteps /\ s \notin {"none", "end"}
    BY DEF JobSteps, Looked
  <2> QED
    BY <1>2, <1>4, <2>1, <2>2, <2>3, TruthGoesOn
<1>7. ASSUME IsServer(p) PROVE Says(p) = Verdict(v)
  <2>1. CASE pending = {}
    <3>1. db.finished = Files(v)
      BY <1>5, <1>7, <2>1
    <3>2. ~fresh
      <4>1. 1 \in Files(v)
        BY <1>1, FirstFile
      <4> QED
        BY <3>1, <4>1
    <3>3. Verdict(v) = "current"
      BY <1>5, <1>7, <3>1, <3>2 DEF Verdict
    <3>4. d.step = "up" /\ d.code = 0
      BY <1>2, <1>3, <1>7, <2>1
    <3>5. job'[p].step = "up" /\ job'[p].code = 0
      BY <1>4, <3>4
    <3>6. Says(p) = "current"
      BY <3>5 DEF Says
    <3> QED
      BY <3>3, <3>6
  <2>2. CASE pending # {} /\ fresh
    <3>1. db.finished # Files(v)
      BY <1>5, <1>7, <2>2
    <3>2. Verdict(v) = "new"
      BY <1>5, <1>7, <2>2, <3>1 DEF Verdict
    <3>3. d.step = "ensure" /\ d.code = 0
      BY <1>2, <1>3, <1>7, <2>2
    <3>4. job'[p].step = "ensure" /\ job'[p].code = 0
      BY <1>4, <3>3
    <3>5. Says(p) = "new"
      BY <3>4 DEF Says
    <3> QED
      BY <3>2, <3>5
  <2>3. CASE pending # {} /\ ~fresh
    <3>1. db.finished # Files(v)
      BY <1>5, <1>7, <2>3
    <3>2. Verdict(v) = "behind"
      BY <1>5, <1>7, <2>3, <3>1 DEF Verdict
    <3>3. d.step = "end" /\ d.code = 3
      BY <1>3, <1>7, <2>3
    <3>4. job'[p].step = "end" /\ job'[p].code = 3
      BY <1>4, <3>3
    <3>5. Says(p) = "behind"
      BY <3>4 DEF Says
    <3> QED
      BY <3>2, <3>5
  <2> QED
    BY <2>1, <2>2, <2>3
<1> QED
  BY <1>6, <1>7

\* A query is followed by the truth, or by the next query.
LEMMA QueriesTell ==
    ASSUME TruthInv, SchemaInv', Sure, NEW p \in Processes, Program(p),
           \/ ReadHistory(p) \/ ReadLegacy(p) \/ ReadApplied(p)
           \/ ReadFresh(p) \/ ReadAppliedAgain(p) \/ Fail(p)
    PROVE  TruthInv' /\ (IsServer(p) /\ Decides(p) => Says(p) = Verdict(job[p].version))
<1>0. /\ job[p] \in Job /\ job \in [Processes -> Job] /\ Remembers(p)
      /\ IsServer(p) => Sees(p) /\ Knows(p)
  BY DEF TruthInv, SchemaInv, TypeOK, Settled
<1>1. CASE ReadHistory(p)
  <2> DEFINE j == To(p, IF db.hasHistory THEN "applied" ELSE "legacy")
  <2>1. At(p, "history") /\ Goto(p, j) /\ db' = db /\ job[p].step = "history"
    BY <1>1 DEF ReadHistory, At
  <2>2. /\ j.version = job[p].version /\ j.code = job[p].code
        /\ j.step = IF db.hasHistory THEN "applied" ELSE "legacy"
    BY <1>0 DEF To, Job
  <2>3. job[p].code = 0 /\ "history" \in JobSteps
    BY <1>0, <2>1 DEF Remembers, JobSteps
  <2>4. job'[p] = j
    BY <1>0, <2>1 DEF Goto
  <2> HIDE DEF j
  <2>5. ~Decides(p)
    BY <2>2, <2>4 DEF Decides
  <2>6. j.code \notin Alarms
    BY <2>2, <2>3, NoAlarm
  <2> QED
    BY <2>1, <2>2, <2>3, <2>5, <2>6, TruthGoesOn
<1>2. CASE ReadLegacy(p)
  <2> DEFINE j == IF Fresh THEN To(p, "applied") ELSE Halt(p, 4)
  <2>1. At(p, "legacy") /\ Goto(p, j) /\ db' = db /\ job[p].step = "legacy"
    BY <1>2 DEF ReadLegacy, At
  <2>2. /\ j.version = job[p].version
        /\ Fresh => j.step = "applied" /\ j.code = job[p].code
        /\ ~Fresh => j.step = "end" /\ j.code = 4
    BY <1>0 DEF To, Halt, Job
  <2>3. job[p].code = 0 /\ "legacy" \in JobSteps
    BY <1>0, <2>1 DEF Remembers, JobSteps
  <2>4. job'[p] = j
    BY <1>0, <2>1 DEF Goto
  <2>5. IsServer(p) => ~db.hasHistory
    BY <1>0, <2>1 DEF Sees
  <2> HIDE DEF j
  <2>6. IsServer(p) /\ origin = New => Fresh
    BY <2>5 DEF TruthInv, Grown
  <2>10. Fresh => j.code \notin Alarms
    BY <2>2, <2>3, NoAlarm
  <2>7. TruthInv'
    BY <2>1, <2>2, <2>3, <2>6, <2>10, TruthGoesOn
  <2>8. CASE Fresh
    BY <2>2, <2>4, <2>7, <2>8 DEF Decides
  <2>9. CASE ~Fresh /\ IsServer(p)
    <3>1. Says(p) = "legacy"
      BY <2>2, <2>4, <2>9 DEF Says
    <3>2. Verdict(job[p].version) = "legacy"
      BY <2>5, <2>9 DEF Verdict
    <3> QED
      BY <2>7, <3>1, <3>2
  <2> QED
    BY <2>7, <2>8, <2>9
<1>3. CASE ReadApplied(p)
  <2> DEFINE known == db.finished \subseteq Files(job[p].version)
             j == IF known THEN [To(p, "fresh") EXCEPT !.applied = db.finished] ELSE Halt(p, 5)
  <2>1. At(p, "applied") /\ Goto(p, j) /\ db' = db /\ job[p].step = "applied"
    BY <1>3 DEF ReadApplied, At
  <2>2. /\ j.version = job[p].version
        /\ known => j.step = "fresh" /\ j.code = job[p].code /\ j.applied = db.finished
        /\ ~known => j.step = "end" /\ j.code = 5
    BY <1>0 DEF To, Halt, Job
  <2>3. job[p].code = 0 /\ "applied" \in JobSteps
    BY <1>0, <2>1 DEF Remembers, JobSteps
  <2>4. job'[p] = j
    BY <1>0, <2>1 DEF Goto
  <2>5. IsServer(p) => db.hasHistory \/ Fresh
    BY <1>0, <2>1 DEF Sees
  <2> HIDE DEF j
  <2>9. j.code \notin Alarms
    BY <2>2, <2>3, NoAlarm
  <2>6. TruthInv'
    BY <2>1, <2>2, <2>3, <2>5, <2>9, TruthGoesOn
  <2>7. CASE known
    BY <2>2, <2>4, <2>6, <2>7 DEF Decides
  <2>8. CASE ~known /\ IsServer(p)
    <3>1. Says(p) = "newer"
      BY <2>2, <2>4, <2>8 DEF Says
    <3>2. Verdict(job[p].version) = "newer"
      BY <2>5, <2>8 DEF Verdict
    <3> QED
      BY <2>6, <3>1, <3>2
  <2> QED
    BY <2>6, <2>7, <2>8
<1>4. CASE ReadFresh(p) /\ Fresh
  <2> DEFINE j == To(p, "applied again")
  <2>1. At(p, "fresh") /\ Goto(p, j) /\ db' = db /\ job[p].step = "fresh"
    BY <1>4 DEF ReadFresh, At
  <2>2. /\ j.version = job[p].version /\ j.code = job[p].code /\ j.step = "applied again"
        /\ j.applied = job[p].applied
    BY <1>0 DEF To, Job
  <2>3. job[p].code = 0 /\ "fresh" \in JobSteps /\ job[p].applied \subseteq db.finished
    BY <1>0, <2>1 DEF Remembers, JobSteps
  <2>4. job'[p] = j
    BY <1>0, <2>1 DEF Goto
  <2> HIDE DEF j
  <2>5. ~Decides(p)
    BY <2>2, <2>4 DEF Decides
  <2>6. j.code \notin Alarms
    <3>1. j.code = 0
      BY <2>2, <2>3
    <3> QED
      BY <3>1, NoAlarm
  <2> QED
    BY <1>4, <2>1, <2>2, <2>3, <2>5, <2>6, TruthGoesOn
<1>5. CASE ReadFresh(p) /\ ~Fresh
  <2>1. /\ At(p, "fresh") /\ Goto(p, Decided(p, FALSE)) /\ db' = db
        /\ "fresh" \in Looked
    BY <1>5 DEF ReadFresh, Looked
  <2> QED
    BY <1>5, <2>1, TruthDecides
<1>6. CASE ReadAppliedAgain(p) /\ db.finished # {}
  <2> DEFINE j == Halt(p, 6)
  <2>1. At(p, "applied again") /\ Goto(p, j) /\ db' = db /\ job[p].step = "applied again"
    BY <1>6 DEF ReadAppliedAgain, At
  <2>2. j.version = job[p].version /\ j.code = 6 /\ j.step = "end"
    BY <1>0 DEF Halt, Job
  <2>3. job'[p] = j
    BY <1>0, <2>1 DEF Goto
  <2>8. "applied again" \in JobSteps
    BY DEF JobSteps
  <2> HIDE DEF j
  <2>4. IsServer(p) => /\ Fresh
                       /\ db.finished \subseteq Files(job[p].version)
    BY <1>0, <2>1 DEF Sees, Knows
  <2>5. IsServer(p) => origin # New
    <3>1. db.done[1] = 0 => ~(Sound /\ 1 \in db.finished)
      <4>1. \A k \in db.redone : k \in Nat /\ k >= 1 /\ k # 1
        BY VersionFacts DEF TruthInv, SchemaInv, TypeOK, Database, Migrations
      <4>2. ~(\E k \in db.redone : k <= 1)
        BY <4>1
      <4> QED
        BY <4>2, MigrationsAssumption DEF Sound
    <3> QED
      BY <1>6, <2>4, <3>1 DEF TruthInv, Grown, Fresh
  <2>6. TruthInv'
    BY <2>1, <2>2, <2>3, <2>5, <2>8, TruthGoesOn
  <2>7. IsServer(p) => Says(p) = Verdict(job[p].version)
    <3>1. Says(p) = "damaged"
      BY <2>2, <2>3 DEF Says
    <3>2. IsServer(p) => Verdict(job[p].version) = "damaged"
      BY <1>6, <2>4 DEF Verdict
    <3> QED
      BY <3>1, <3>2
  <2> QED
    BY <2>6, <2>7
<1>7. CASE ReadAppliedAgain(p) /\ db.finished = {}
  <2>1. At(p, "applied again") /\ Goto(p, Decided(p, TRUE)) /\ db' = db
    BY <1>7 DEF ReadAppliedAgain
  <2>2. IsServer(p) => Fresh
    BY <1>0, <2>1 DEF Sees, At
  <2>3. CASE IsServer(p)
    <3>1. "applied again" \in Looked /\ "applied again" # "fresh"
      BY DEF Looked
    <3> QED
      BY <1>7, <2>1, <2>2, <2>3, <3>1, TruthDecides
  <2>4. CASE ~IsServer(p)
    <3> DEFINE d == Decided(p, TRUE)
    <3>1. /\ d.version = job[p].version /\ d.step \in {"up", "end", "ensure", "lock"}
          /\ d.step \notin {"ensure", "lock"} /\ (d.step # "end" => d.code = job[p].code)
      BY <1>0, <2>4, DecidedFacts, DecidedCodes
    <3>2. job[p].code = 0 /\ "applied again" \in JobSteps
      BY <1>0, <2>1 DEF Remembers, JobSteps, At
    <3>3. Goto(p, d)
      BY <2>1
    <3> HIDE DEF d
    <3> QED
      BY <2>1, <2>4, <3>1, <3>2, <3>3, TruthGoesOn
  <2> QED
    BY <2>3, <2>4
<1>8. CASE Fail(p)
  <2> DEFINE j == Halt(p, 1)
  <2>1. PICK s \in {"ensure", "apply"} : At(p, s)
    BY <1>8 DEF Fail
  <2>2. Goto(p, j) /\ db' = db /\ job[p].step = s /\ s \in JobSteps
    BY <1>8, <2>1 DEF Fail, At, JobSteps
  <2>3. j.version = job[p].version /\ j.code = 1 /\ j.step = "end"
    BY <1>0 DEF Halt, Job
  <2> HIDE DEF j
  <2>5. j.code \notin Alarms
    BY <2>3, NoAlarm
  <2>4. TruthInv'
    BY <2>1, <2>2, <2>3, <2>5, TruthGoesOn
  <2> QED
    BY <2>1, <2>2, <2>4 DEF Decides
<1> QED
  BY <1>1, <1>2, <1>3, <1>4, <1>5, <1>6, <1>7, <1>8

\* A program that builds: the history comes first, then the migrations in order.
LEMMA WorkTells ==
    ASSUME TruthInv, SchemaInv', Sure, NEW p \in Processes, Program(p),
           Ensure(p) \/ RunStatement(p) \/ Finish(p)
    PROVE  TruthInv' /\ ~Decides(p)
<1>0. /\ job[p] \in Job /\ job \in [Processes -> Job] /\ Remembers(p) /\ db \in Database
      /\ Honest(p)'
  BY DEF TruthInv, SchemaInv, TypeOK, Settled
<1>1. HasLock(p) /\ job[p].step \in {"ensure", "apply"}
  BY DEF Ensure, RunStatement, Finish, At
<1>2. ~Decides(p)
  BY <1>1 DEF Decides
<1>3. job[p].version \in Versions /\ job[p].code = 0
  BY <1>0, <1>1 DEF Remembers
<1>4. CASE Ensure(p)
  <2>1. /\ At(p, "ensure") /\ Goto(p, To(p, "apply"))
        /\ db' = [db EXCEPT !.hasHistory = TRUE]
    BY <1>4 DEF Ensure, EnsureTable
  <2>2. db'.hasHistory /\ db'.finished = db.finished
    BY <1>0, <2>1 DEF Database
  <2>3. /\ job'[p].step = "apply" /\ job'[p].code = 0
        /\ job'[p].names = job[p].names /\ job'[p].version = job[p].version
        /\ origin' = origin
    BY <1>0, <1>3, <2>1 DEF Goto, To, Job
  <2>4. Remembers(p)'
    BY <1>0, <1>1, <1>3, <2>2, <2>3 DEF Remembers
  <2>5. Sees(p)'
    BY <2>3 DEF Sees
  <2>6. Grown'
    BY <1>0, <2>2, <2>3 DEF TruthInv, Grown, Honest
  <2>7. job'[p].code \notin Alarms
    BY <2>3, NoAlarm
  <2> QED
    BY <1>1, <1>2, <2>2, <2>4, <2>5, <2>6, <2>7, TruthMoves
<1>5. CASE RunStatement(p)
  <2>1. At(p, "apply") /\ Goto(p, [job[p] EXCEPT !.at = job[p].at + 1])
    BY <1>5 DEF RunStatement
  <2>2. db'.hasHistory = db.hasHistory /\ db'.finished = db.finished
    BY <1>0, <1>5 DEF RunStatement, Database
  <2>3. /\ job'[p].step = "apply" /\ job'[p].code = 0 /\ job[p].step = "apply"
        /\ job'[p].names = job[p].names /\ job'[p].version = job[p].version
        /\ origin' = origin
    BY <1>0, <1>3, <2>1 DEF Goto, Job, At
  <2>4. Remembers(p)'
    BY <1>0, <1>1, <1>3, <2>2, <2>3 DEF Remembers
  <2>5. Sees(p)'
    BY <2>3 DEF Sees
  <2>6. Grown'
    <3>1. Sound'
      BY <1>0, <2>3 DEF Honest
    <3> QED
      BY <1>0, <2>2, <2>3, <3>1 DEF TruthInv, Grown, Remembers
  <2>7. job'[p].code \notin Alarms
    BY <2>3, NoAlarm
  <2> QED
    BY <1>1, <1>2, <2>2, <2>4, <2>5, <2>6, <2>7, TruthMoves
<1>6. CASE Finish(p)
  <2>1. PICK m \in Migrations, next \in {"apply", "up", "end"} :
           /\ IsNext(m, job[p].names)
           /\ db' = [db EXCEPT !.finished = @ \cup {m}]
           /\ Goto(p, [To(p, next) EXCEPT !.names = job[p].names \ {m}, !.at = 0])
    BY <1>6 DEF Finish
  <2>2. db'.hasHistory = db.hasHistory /\ db'.finished = db.finished \cup {m}
    BY <1>0, <2>1 DEF Database
  <2>3. /\ job'[p].step = next /\ job'[p].code = 0 /\ job[p].step = "apply"
        /\ job'[p].names = job[p].names \ {m} /\ job'[p].version = job[p].version
        /\ origin' = origin
    BY <1>0, <1>3, <1>6, <2>1 DEF Goto, Job, To, At, Finish
  <2>4. Remembers(p)'
    BY <1>0, <1>3, <2>2, <2>3 DEF Remembers
  <2>5. Sees(p)'
    BY <2>3 DEF Sees
  <2>6. Sound'
    BY <1>6, FinishSettles DEF TruthInv, SchemaInv
  <2>7. 1 \in db'.finished
    <3>1. 1 \in db.finished \cup job[p].names
      BY <1>0, <1>3, <2>3, FirstFile DEF Remembers
    <3>2. 1 \in job[p].names => m = 1
      BY <2>1, VersionFacts DEF IsNext, Migrations
    <3> QED
      BY <2>2, <3>1, <3>2
  <2>8. Grown'
    BY <1>0, <2>2, <2>3, <2>6, <2>7 DEF TruthInv, Grown, Remembers
  <2>9. job'[p].code \notin Alarms
    BY <2>3, NoAlarm
  <2> QED
    BY <1>1, <1>2, <2>2, <2>4, <2>5, <2>8, <2>9, TruthMoves
<1> QED
  BY <1>4, <1>5, <1>6

\* The steps around the decision: the start, the lock and the end.
LEMMA LockTells ==
    ASSUME TruthInv, SchemaInv', Sure, NEW p \in Processes, Program(p),
           \/ Start(p) \/ TakeLock(p) \/ Quit(p) \/ QuitDone(p) \/ Crash(p)
    PROVE  TruthInv' /\ ~(IsServer(p) /\ Decides(p))
<1>0. /\ job[p] \in Job /\ job \in [Processes -> Job] /\ proc \in [Processes -> Process]
      /\ Remembers(p) /\ (IsServer(p) => Sees(p)) /\ Waits(p)
  BY DEF TruthInv, SchemaInv, TypeOK, LockTypeOK, Settled
<1>1. db' = db /\ origin' = origin
  BY DEF Start, TakeLock, Quit, QuitDone, Crash
<1>2. Grown'
  BY <1>1 DEF TruthInv, Grown, Sound, Fresh
<1>3. CASE Start(p)
  <2>1. PICK v \in Versions :
           job' = [job EXCEPT ![p] = [NoJob EXCEPT !.step = "history", !.version = v]]
    BY <1>3 DEF Start
  <2>2. job'[p] = [NoJob EXCEPT !.step = "history", !.version = v]
    BY <1>0, <2>1
  <2>3. job'[p].step = "history" /\ job'[p].version \in Versions /\ job'[p].code = 0
    BY <2>2 DEF NoJob
  <2>4. Remembers(p)'
    BY <2>3 DEF Remembers
  <2>5. Sees(p)'
    BY <2>3 DEF Sees
  <2>6. job'[p].code \notin Alarms
    BY <2>3, NoAlarm
  <2> QED
    BY <1>1, <1>2, <2>3, <2>4, <2>5, <2>6, TruthMoves DEF Decides
<1>4. CASE TakeLock(p)
  <2>1. PICK s \in LockSteps : proc' = [proc EXCEPT ![p].step = s]
    BY <1>4 DEF TakeLock, Acquire, EnterLock, CheckServer, CheckMigrate, CheckServerAgain,
                CheckMigrateAgain, Check, Write, WriteFails, ReadBack, LockSteps, SetStep,
                AcquiringSteps
  <2>2. proc'[p].role = proc[p].role
    BY <1>0, <2>1 DEF Process
  <2>3. proc[p].step \in AcquiringSteps \cup {"running"}
    BY <1>4 DEF TakeLock, Acquire, EnterLock, CheckServer, CheckMigrate, CheckServerAgain,
                CheckMigrateAgain, Check, Write, WriteFails, ReadBack, AcquiringSteps
  <2>4. ~HasLock(p)
    BY <2>3 DEF HasLock, AcquiringSteps
  <2>5. CASE job' = job
    <3>1. Remembers(p)'
      BY <1>0, <1>1, <2>5 DEF Remembers
    <3>2. IsServer(p)' => Sees(p)'
      BY <1>0, <2>2, <2>4, <2>5 DEF Sees, IsServer
    <3>3. origin = New /\ IsServer(p)' => job'[p].code \notin Alarms
      BY <2>2, <2>5 DEF TruthInv, NoFalseAlarm, Alarms, IsServer
    <3> QED
      BY <1>1, <1>2, <2>5, <3>1, <3>2, <3>3, TruthMoves DEF Decides
  <2>6. CASE job' = [job EXCEPT ![p].step = "ensure"] /\ ~IsServer(p)
    <3>1. job[p].step = "lock"
      BY <1>0, <1>4, <2>3, <2>6 DEF TakeLock, Waits
    <3>2. /\ job'[p].step = "ensure" /\ job'[p].code = job[p].code
          /\ job'[p].names = job[p].names /\ job'[p].version = job[p].version
      BY <1>0, <2>6 DEF Job
    <3>3. Remembers(p)'
      BY <1>0, <1>1, <3>1, <3>2 DEF Remembers
    <3>4. ~IsServer(p)'
      BY <2>2, <2>6 DEF IsServer
    <3> QED
      BY <1>1, <1>2, <2>6, <3>3, <3>4, TruthMoves
  <2> QED
    BY <1>4, <2>5, <2>6 DEF TakeLock
<1>5. CASE Quit(p) \/ QuitDone(p) \/ Crash(p)
  <2>1. CASE job' = [job EXCEPT ![p] = NoJob]
    <3>1. job'[p] = NoJob
      BY <1>0, <2>1
    <3>2. job'[p].step = "none" /\ job'[p].code = 0
      BY <3>1 DEF NoJob
    <3>3. Remembers(p)' /\ Sees(p)'
      BY <3>2 DEF Remembers, Sees
    <3>4. job'[p].code \notin Alarms
      BY <3>2, NoAlarm
    <3> QED
      BY <1>1, <1>2, <3>2, <3>3, <3>4, TruthMoves DEF Decides
  <2>2. CASE Quit(p) /\ Alive(p)' /\ job' = [job EXCEPT ![p] = To(p, "end")]
    <3>1. /\ job'[p].step = "end" /\ job'[p].code = job[p].code
          /\ job'[p].version = job[p].version
      BY <1>0, <2>2 DEF To, Job
    <3>2. proc' = [proc EXCEPT ![p].step = "unlink"] /\ proc[p].step \in {"held", "unheld"}
      BY <1>0, <2>2 DEF Quit, Leave, SetStep, Alive, Off
    <3>3. proc'[p].step = "unlink" /\ proc'[p].role = proc[p].role
      BY <1>0, <3>2 DEF Process
    <3>4. proc' # proc
      BY <3>2, <3>3
    <3>5. Sees(p)'
      BY <3>1 DEF Sees
    <3>6. Remembers(p)'
      BY <3>1 DEF Remembers
    <3>7. origin = New /\ IsServer(p)' => job'[p].code \notin Alarms
      BY <3>1, <3>3 DEF TruthInv, NoFalseAlarm, Alarms, IsServer
    <3> QED
      BY <1>1, <1>2, <3>4, <3>5, <3>6, <3>7, TruthMoves DEF Decides
  <2> QED
    BY <1>5, <2>1, <2>2 DEF Quit, QuitDone, Crash
<1> QED
  BY <1>3, <1>4, <1>5

LEMMA TruthBegins == Init => TruthInv
<1> SUFFICES ASSUME Init PROVE TruthInv
  OBVIOUS
<1>1. SchemaInv
  BY SchemaBegins
<1>2. ASSUME NEW p \in Processes
      PROVE  job[p].step = "none" /\ job[p].code = 0
  <2>1. job[p] = NoJob
    BY DEF Init
  <2> QED
    BY <2>1 DEF NoJob
<1>3. Grown
  <2> SUFFICES ASSUME db = New PROVE Sound /\ Fresh /\ db.finished = {}
    BY DEF Grown, Init
  <2>1. db.finished = 1..0 /\ db.done[1] = 0
    BY VersionFacts, MigrationsAssumption DEF New, Complete, Migrations
  <2> QED
    BY <2>1 DEF Sound, Fresh
<1>4. NoFalseAlarm
  BY <1>2 DEF NoFalseAlarm
<1>5. \A p \in Processes : Remembers(p) /\ Sees(p)
  BY <1>2 DEF Remembers, Sees
<1> QED
  BY <1>1, <1>3, <1>4, <1>5 DEF TruthInv

LEMMA TruthKeeps == ASSUME Sure, TruthInv, [Next]_vars PROVE TruthInv' /\ [ServerSeesTruth]_vars
<1>1. SchemaInv'
  BY SchemaKeeps DEF TruthInv
<1>2. CASE UNCHANGED vars
  <2>1. TruthInv'
    BY <1>1, <1>2 DEF vars, lockVars, TruthInv, Grown, Sound, Fresh, Remembers, Sees,
                      NoFalseAlarm, IsServer, HasLock
  <2> QED
    BY <1>2, <2>1
<1>3. CASE Next
  <2>1. PICK p \in Processes : Program(p)
    BY <1>3 DEF Next
  <2>2. /\ TruthInv'
        /\ IsServer(p) /\ Decides(p) => Says(p) = Verdict(job[p].version)
    BY <1>1, <2>1, QueriesTell, WorkTells, LockTells DEF Program
  <2>3. ASSUME NEW q \in Processes, q # p PROVE ~Decides(q)
    <3>1. job'[q] = job[q]
      BY <2>1, <2>3, OthersStay DEF TruthInv, SchemaInv
    <3> QED
      BY <3>1 DEF Decides
  <2>4. ServerSeesTruth
    BY <2>2, <2>3 DEF ServerSeesTruth
  <2> QED
    BY <2>2, <2>4
<1> QED
  BY <1>2, <1>3

(***************************************************************************)
(* A database that was built from nothing is never called legacy or        *)
(* damaged by a server, wherever its construction was cut off              *)
(* (decideBoot, migration-runner.ts).                                      *)
(***************************************************************************)
THEOREM NoAlarmIsFalse ==
    ASSUME MaxAcquiring = 1, ~WritesMayFail
    PROVE  Spec => []NoFalseAlarm
<1>1. TruthInv => NoFalseAlarm
  BY DEF TruthInv
<1> QED
  BY <1>1, TruthBegins, TruthKeeps, SureHolds, PTL DEF Spec

(***************************************************************************)
(* What a server concludes from its queries is what one look at the        *)
(* database would have said (decideBoot, migration-runner.ts).             *)
(***************************************************************************)
THEOREM ServersSeeTheTruth ==
    ASSUME MaxAcquiring = 1, ~WritesMayFail
    PROVE  Spec => [][ServerSeesTruth]_vars
BY TruthBegins, TruthKeeps, SureHolds, PTL DEF Spec

(***************************************************************************)
(* The programs of MCStartup, for any number of processes, pids, versions  *)
(* and statements: as long as lock files can be written, no process gets a *)
(* pid that is on file and programs do not start together, no server       *)
(* concludes what was never true, calls its own unfinished work damaged or *)
(* is refused because of a lock without a living owner (decideBoot,        *)
(* migration-runner.ts; checkLock, process-lock.ts, 182-185).              *)
(***************************************************************************)
THEOREM NobodyIsEverMisled == ASSUME MaxAcquiring = 1 PROVE MCSpec => NobodyIsMisled
<1> DEFINE Inv == part = "programs" => Sure /\ TruthInv /\ OwnInv
<1>1. MCInit => Inv
  <2>1. Init => LockInit
    BY DEF Init
  <2> QED
    BY <2>1, SureBegins, TruthBegins, OwnBegins DEF MCInit
<1>2. ASSUME Sure, TruthInv, OwnInv, Next, WritesSucceed, PidsAreFresh
      PROVE  /\ Sure' /\ TruthInv' /\ OwnInv'
             /\ [ServerSeesTruth]_vars /\ NoFalseAlarm' /\ [RefusedByAnother]_lockVars
  <2>1. [LockNext]_lockVars
    BY <1>2, StartupLockSteps
  <2>2. TruthInv' /\ [ServerSeesTruth]_vars
    BY <1>2, TruthKeeps
  <2>3. NoFalseAlarm'
    BY <2>2 DEF TruthInv
  <2> QED
    BY <1>2, <2>1, <2>2, <2>3, SureKeeps, OwnKeeps, OwnRefuses
<1>3. ASSUME Sure, TruthInv, OwnInv, UNCHANGED vars
      PROVE  Sure' /\ TruthInv' /\ OwnInv'
  <2>1. UNCHANGED lockVars
    BY <1>3 DEF vars, lockVars
  <2>2. Sure'
    BY <1>3, <2>1, NextHolds DEF lockVars, Sure, Good
  <2>3. OwnInv'
    BY <1>3, <2>1 DEF lockVars, OwnInv, LockTypeOK, Alive
  <2> QED
    BY <1>3, <2>2, <2>3, TruthKeeps
<1>4. Inv /\ [MCNext]_mcVars => Inv'
  BY <1>2, <1>3 DEF MCNext, mcVars
<1>5. Inv /\ [MCNext]_mcVars =>
         [part = "programs" => ServerSeesTruth /\ NoFalseAlarm' /\ RefusedByAnother]_mcVars
  <2> SUFFICES ASSUME Inv, MCNext, part = "programs"
               PROVE  ServerSeesTruth /\ NoFalseAlarm' /\ RefusedByAnother
    OBVIOUS
  <2>1. /\ [ServerSeesTruth]_vars /\ NoFalseAlarm' /\ [RefusedByAnother]_lockVars
    BY <1>2 DEF MCNext
  <2>2. UNCHANGED vars => ServerSeesTruth
    BY DEF vars, ServerSeesTruth, Decides
  <2>3. UNCHANGED lockVars => RefusedByAnother
    BY DEF lockVars, RefusedByAnother
  <2> QED
    BY <2>1, <2>2, <2>3
<1> HIDE DEF Inv
<1> QED
  BY <1>1, <1>4, <1>5, PTL DEF MCSpec, NobodyIsMisled
===============================================================================
