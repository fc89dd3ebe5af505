--------------------------- MODULE ProcessLockProofs ---------------------------
(***************************************************************************)
(* Theorems about ProcessLock, for any number of processes and pids: when  *)
(* programs do not start together, the lock files exclude them, whatever   *)
(* is killed, whichever pid comes back and whichever write fails.          *)
(***************************************************************************)
EXTENDS ProcessLock, FiniteSetTheorems, TLAPS

\* The steps at which a process is the owner of its file.
Owning == {"held", "unlink"}

\* The steps that come after the process has seen that its file is not its.
NotItsFile == {"write", "unheld", "check server again", "check migrate again"}

\* What holds of one process and its lock file.
Alone(p) ==
    /\ Alive(p) => proc[p].pid \in Pids
    /\ proc[p].step \in Owning => file[proc[p].role] = proc[p].pid
    /\ proc[p].step \in NotItsFile => file[proc[p].role] # proc[p].pid
    /\ proc[p].step = "check migrate" /\ proc[p].role = "server" =>
          file["server"] # proc[p].pid

\* What holds of two processes.
Apart(p, q) ==
    /\ Alive(p) /\ Alive(q) => proc[p].pid # proc[q].pid
    /\ ~(proc[p].step \in AcquiringSteps /\ proc[q].step \in AcquiringSteps)
    /\ ~(proc[p].step \in Owning /\ proc[q].step \in Owning)
    /\ proc[p].step \in {"write", "read back"} => proc[q].step \notin Owning
    /\ proc[p].step = "check migrate" =>
          ~(proc[q].step \in Owning /\ proc[q].role = "server")

IInv ==
    /\ LockTypeOK
    /\ \A p \in Processes : Alone(p)
    /\ \A p \in Processes : \A q \in Processes \ {p} : Apart(p, q)

-------------------------------------------------------------------------------
\* A step of a process changes its own record only.
LEMMA SetStepFacts ==
    ASSUME LockTypeOK, NEW p \in Processes, NEW s \in LockSteps, SetStep(p, s)
    PROVE  /\ proc' \in [Processes -> Process]
           /\ proc'[p].step = s
           /\ proc'[p].role = proc[p].role
           /\ proc'[p].pid = proc[p].pid
           /\ \A q \in Processes \ {p} : proc'[q] = proc[q]
  BY DEF LockTypeOK, SetStep, Process

\* The same for the end of a process.
LEMMA OffFacts ==
    ASSUME LockTypeOK, NEW p \in Processes, proc' = [proc EXCEPT ![p] = Off]
    PROVE  /\ proc' \in [Processes -> Process]
           /\ proc'[p].step = "off"
           /\ \A q \in Processes \ {p} : proc'[q] = proc[q]
  BY DEF LockTypeOK, Process, Off, LockSteps, Roles

(***************************************************************************)
(* The invariant survives a step that changes one record and leaves both   *)
(* files alone, if it holds of that process afterwards.                    *)
(***************************************************************************)
LEMMA OneProcessMoves ==
    ASSUME IInv, NEW p \in Processes, file' = file,
           proc' \in [Processes -> Process],
           \A q \in Processes \ {p} : proc'[q] = proc[q],
           Alone(p)',
           \A q \in Processes \ {p} : Apart(p, q)' /\ Apart(q, p)'
    PROVE  IInv'
<1>1. LockTypeOK'
  BY DEF IInv, LockTypeOK
<1>2. ASSUME NEW q \in Processes PROVE Alone(q)'
  <2>1. CASE q = p
    BY <2>1
  <2>2. CASE q # p
    <3>1. Alone(q) /\ proc'[q] = proc[q]
      BY <2>2 DEF IInv
    <3> QED
      BY <3>1 DEF Alone, Alive
  <2> QED
    BY <2>1, <2>2
<1>3. ASSUME NEW q \in Processes, NEW r \in Processes \ {q} PROVE Apart(q, r)'
  <2>1. CASE q = p \/ r = p
    BY <2>1
  <2>2. CASE q # p /\ r # p
    <3>1. Apart(q, r) /\ proc'[q] = proc[q] /\ proc'[r] = proc[r]
      BY <2>2 DEF IInv
    <3> QED
      BY <3>1 DEF Apart, Alive
  <2> QED
    BY <2>1, <2>2
<1> QED
  BY <1>1, <1>2, <1>3 DEF IInv

\* A process that ends disturbs nobody.
LEMMA EndHolds ==
    ASSUME IInv, NEW p \in Processes, file' = file, proc' = [proc EXCEPT ![p] = Off]
    PROVE  IInv'
<1>1. /\ proc' \in [Processes -> Process]
      /\ proc'[p].step = "off"
      /\ \A q \in Processes \ {p} : proc'[q] = proc[q]
  BY OffFacts DEF IInv
<1>2. Alone(p)'
  BY <1>1 DEF Alone, Alive, Owning, NotItsFile
<1>3. \A q \in Processes \ {p} : Apart(p, q)' /\ Apart(q, p)'
  BY <1>1 DEF Apart, Alive, Owning, AcquiringSteps
<1> QED
  BY <1>1, <1>2, <1>3, OneProcessMoves

-------------------------------------------------------------------------------
\* Initially no process runs.
LEMMA InitHolds == LockInit => IInv
<1> SUFFICES ASSUME LockInit PROVE IInv
  OBVIOUS
<1>1. \A p \in Processes : proc[p].step = "off"
  BY DEF LockInit, Off
<1>2. LockTypeOK
  BY DEF LockInit, LockTypeOK, Off, Process, LockSteps, Roles
<1> QED
  BY <1>1, <1>2 DEF IInv, Alone, Apart, Alive, Owning, NotItsFile, AcquiringSteps

\* A new process gets a pid that no living process has.
LEMMA LaunchHolds == ASSUME IInv, NEW p \in Processes, Launch(p) PROVE IInv'
<1>1. PICK role \in Roles, pid \in Pids :
         /\ \A q \in Processes : Alive(q) => proc[q].pid # pid
         /\ proc' = [proc EXCEPT ![p] = [step |-> "running", role |-> role, pid |-> pid]]
  BY DEF Launch
<1>2. /\ proc' \in [Processes -> Process]
      /\ proc'[p].step = "running"
      /\ proc'[p].pid = pid
      /\ \A q \in Processes \ {p} : proc'[q] = proc[q]
  BY <1>1 DEF IInv, LockTypeOK, Process, LockSteps
<1>3. Alone(p)'
  BY <1>2 DEF Alone, Alive, Owning, NotItsFile
<1>4. \A q \in Processes \ {p} : Apart(p, q)' /\ Apart(q, p)'
  BY <1>1, <1>2 DEF Apart, Alive, Owning, AcquiringSteps
<1> QED
  BY <1>2, <1>3, <1>4, OneProcessMoves DEF Launch

\* With one process at a time in acquireLock, nobody else is inside.
LEMMA EnterHolds ==
    ASSUME IInv, MaxAcquiring = 1, NEW p \in Processes, EnterLock(p)
    PROVE  IInv'
<1>1. /\ file' = file
      /\ proc[p].step = "running"
      /\ SetStep(p, "check server")
      /\ Cardinality(Acquiring) < 1
  BY DEF EnterLock
<1>2. Acquiring = {}
  <2>1. IsFiniteSet(Acquiring)
    BY ProcessesAssumption, FS_Subset DEF Acquiring
  <2>2. Cardinality(Acquiring) \in Nat
    BY <2>1, FS_CardinalityType
  <2>3. Cardinality(Acquiring) = 0
    <3>1. Cardinality(Acquiring) < 1
      BY <1>1
    <3>2. \A n \in Nat : n < 1 => n = 0
      OBVIOUS
    <3> QED
      BY <2>2, <3>1, <3>2
  <2> QED
    BY <2>1, <2>3, FS_EmptySet
<1>3. /\ proc' \in [Processes -> Process]
      /\ proc'[p].step = "check server"
      /\ proc'[p].pid = proc[p].pid
      /\ \A q \in Processes \ {p} : proc'[q] = proc[q]
  BY <1>1, SetStepFacts DEF IInv, LockSteps, AcquiringSteps
<1>4. Alone(p)'
  BY <1>1, <1>3 DEF IInv, Alone, Alive, Owning, NotItsFile
<1>5. \A q \in Processes \ {p} : Apart(p, q)' /\ Apart(q, p)'
  BY <1>1, <1>2, <1>3 DEF IInv, Apart, Alive, Owning, Acquiring
<1> QED
  BY <1>1, <1>3, <1>4, <1>5, OneProcessMoves

(***************************************************************************)
(* If the lock file of a role is not locked, no process owns it: the owner *)
(* is alive and its pid is in the file.                                    *)
(***************************************************************************)
LEMMA OwnerLocks ==
    ASSUME IInv, NEW role \in Roles, ~Locked(role)
    PROVE  /\ \A q \in Processes : proc[q].step \in Owning => proc[q].role # role
           /\ \A q \in Processes : Alive(q) => file[role] # proc[q].pid
<1>1. \A q \in Processes : Alive(q) => file[role] # proc[q].pid
  BY DEF Locked
<1>2. ASSUME NEW q \in Processes, proc[q].step \in Owning, proc[q].role = role
      PROVE  FALSE
  <2>1. Alive(q) /\ file[role] = proc[q].pid
    BY <1>2 DEF IInv, Alone, Alive, Owning
  <2> QED
    BY <1>1, <2>1
<1> QED
  BY <1>1, <1>2

\* The two checks of decideLockAcquisition and their repetition.
LEMMA CheckHolds ==
    ASSUME IInv, NEW p \in Processes,
           CheckServer(p) \/ CheckMigrate(p) \/ CheckServerAgain(p) \/ CheckMigrateAgain(p)
    PROVE  IInv'
<1> DEFINE t == proc'[p].step
<1>1. /\ file' = file
      /\ proc[p].step \in AcquiringSteps
      /\ \E s \in LockSteps : SetStep(p, s)
  BY DEF CheckServer, CheckMigrate, CheckServerAgain, CheckMigrateAgain, Check,
     LockSteps, AcquiringSteps
<1>2. /\ proc' \in [Processes -> Process]
      /\ proc'[p].role = proc[p].role
      /\ proc'[p].pid = proc[p].pid
      /\ \A q \in Processes \ {p} : proc'[q] = proc[q]
  BY <1>1, SetStepFacts DEF IInv
<1>3. \/ t = "refused"
      \/ proc[p].step = "check server" /\ t = "check migrate" /\ ~Locked("server")
      \/ proc[p].step = "check migrate" /\ t = "write" /\ ~Locked("migrate")
      \/ proc[p].step = "check server again" /\ t = "check migrate again"
      \/ proc[p].step = "check migrate again" /\ t = "unheld"
  BY SetStepFacts DEF CheckServer, CheckMigrate, CheckServerAgain,
     CheckMigrateAgain, Check, IInv, LockSteps, AcquiringSteps
<1>4. Alive(p) /\ proc[p].role \in Roles
  BY <1>1 DEF Alive, AcquiringSteps, IInv, LockTypeOK, Process
<1>5. Alone(p)'
  <2>1. t = "write" => file[proc[p].role] # proc[p].pid
    <3>1. CASE proc[p].role = "server"
      BY <1>3, <3>1 DEF IInv, Alone
    <3>2. CASE proc[p].role = "migrate"
      BY <1>3, <1>4, <3>2, OwnerLocks DEF Roles
    <3> QED
      BY <1>4, <3>1, <3>2 DEF Roles
  <2>2. t = "check migrate" => file["server"] # proc[p].pid
    BY <1>3, <1>4, OwnerLocks DEF Roles
  <2>3. t \in {"check migrate again", "unheld"} => file[proc[p].role] # proc[p].pid
    BY <1>3 DEF IInv, Alone, NotItsFile
  <2>4. t \notin Owning /\ proc[p].pid \in Pids
    BY <1>3, <1>4 DEF Owning, IInv, Alone
  <2> QED
    BY <1>1, <1>2, <1>3, <2>1, <2>2, <2>3, <2>4 DEF Alone, NotItsFile
<1>6. ASSUME NEW q \in Processes \ {p}
      PROVE  Apart(p, q)' /\ Apart(q, p)'
  <2>1. Apart(p, q) /\ Apart(q, p) /\ proc'[q] = proc[q]
    BY <1>2 DEF IInv
  <2>2. t = "write" => proc[q].step \notin Owning
    <3>1. t = "write" => proc[q].role # "migrate" \/ proc[q].step \notin Owning
      BY <1>3, OwnerLocks DEF Roles
    <3>2. t = "write" => proc[q].role # "server" \/ proc[q].step \notin Owning
      BY <1>3, <2>1 DEF Apart
    <3>3. proc[q].role \in Roles
      BY DEF IInv, LockTypeOK, Process
    <3> QED
      BY <3>1, <3>2, <3>3 DEF Roles
  <2>3. t = "check migrate" =>
           ~(proc[q].step \in Owning /\ proc[q].role = "server")
    BY <1>3, OwnerLocks DEF Roles
  <2>4. t \notin Owning /\ t # "read back"
    BY <1>3 DEF Owning
  <2> QED
    BY <1>1, <1>2, <1>4, <2>1, <2>2, <2>3, <2>4 DEF Apart, Alive, Owning, AcquiringSteps
<1> QED
  BY <1>1, <1>2, <1>5, <1>6, OneProcessMoves

(***************************************************************************)
(* A write, or a failed one: nobody owns a file, so nobody can lose one.   *)
(***************************************************************************)
LEMMA WriteHolds ==
    ASSUME IInv, NEW p \in Processes, Write(p) \/ WriteFails(p)
    PROVE  IInv'
<1> DEFINE role == proc[p].role
           t == proc'[p].step
<1>1. /\ proc[p].step = "write" /\ Alive(p) /\ role \in Roles /\ proc[p].pid \in Pids
      /\ file[role] # proc[p].pid
  BY DEF Write, WriteFails, Alive, IInv, LockTypeOK, Process, Alone, NotItsFile
<1>2. /\ proc' \in [Processes -> Process]
      /\ proc'[p].role = role
      /\ proc'[p].pid = proc[p].pid
      /\ \A q \in Processes \ {p} : proc'[q] = proc[q]
      /\ t \in {"read back", "unheld"}
  BY SetStepFacts DEF Write, WriteFails, IInv, LockSteps, AcquiringSteps
<1>3. /\ file' \in [Roles -> Pids \cup {NULL}]
      /\ \A r \in Roles : file'[r] \in {file[r], NULL, proc[p].pid}
      /\ t = "unheld" => file'[role] \in {file[role], NULL}
  <2>1. CASE Write(p)
    <3>1. file' = [file EXCEPT ![role] = proc[p].pid]
      BY <2>1 DEF Write
    <3>2. file \in [Roles -> Pids \cup {NULL}]
      BY DEF IInv, LockTypeOK
    <3>3. t # "unheld"
      <4>1. LockTypeOK /\ SetStep(p, "read back") /\ "read back" \in LockSteps
        BY <2>1 DEF Write, IInv, LockSteps, AcquiringSteps
      <4> QED
        BY <4>1, SetStepFacts
    <3> QED
      BY <1>1, <3>1, <3>2, <3>3
  <2>2. CASE WriteFails(p)
    BY <1>1, <2>2 DEF WriteFails, IInv, LockTypeOK
  <2> QED
    BY <2>1, <2>2
<1>4. LockTypeOK'
  BY <1>2, <1>3 DEF LockTypeOK
<1>5. Alone(p)'
  BY <1>1, <1>2, <1>3, NullAssumption DEF Alone, Owning, NotItsFile
<1>6. ASSUME NEW q \in Processes \ {p}
      PROVE  /\ proc'[q] = proc[q]
             /\ proc[q].step \notin Owning
             /\ Apart(p, q)' /\ Apart(q, p)'
  <2>1. Apart(p, q) /\ Apart(q, p) /\ proc'[q] = proc[q]
    BY <1>2 DEF IInv
  <2>2. proc[q].step \notin Owning
    BY <1>1, <2>1 DEF Apart
  <2> QED
    BY <1>1, <1>2, <2>1, <2>2 DEF Apart, Alive, Owning, AcquiringSteps
<1>7. ASSUME NEW q \in Processes \ {p} PROVE Alone(q)'
  <2>1. /\ Alone(q) /\ Apart(p, q) /\ proc'[q] = proc[q] /\ proc[q].role \in Roles
        /\ proc[q].step \notin Owning
    BY <1>6 DEF IInv, LockTypeOK, Process
  <2>2. Alive(q) => \A r \in Roles : file[r] # proc[q].pid => file'[r] # proc[q].pid
    BY <1>1, <1>3, <2>1, NullAssumption DEF Apart, Alone
  <2>3. proc[q].step \in NotItsFile \cup {"check migrate"} => Alive(q)
    BY DEF NotItsFile, Alive
  <2> QED
    BY <2>1, <2>2, <2>3 DEF Alone, Alive, Roles
<1>8. ASSUME NEW q \in Processes, NEW r \in Processes \ {q} PROVE Apart(q, r)'
  <2>1. CASE q = p \/ r = p
    BY <1>6, <2>1
  <2>2. CASE q # p /\ r # p
    <3>1. Apart(q, r) /\ proc'[q] = proc[q] /\ proc'[r] = proc[r]
      BY <1>2, <2>2 DEF IInv
    <3> QED
      BY <3>1 DEF Apart, Alive
  <2> QED
    BY <2>1, <2>2
<1> QED
  BY <1>4, <1>5, <1>7, <1>8 DEF IInv

\* The process that reads its own pid back owns the lock.
LEMMA ReadBackHolds == ASSUME IInv, NEW p \in Processes, ReadBack(p) PROVE IInv'
<1> DEFINE t == proc'[p].step
<1>1. /\ file' = file
      /\ proc[p].step = "read back"
  BY DEF ReadBack
<1>2. /\ proc' \in [Processes -> Process]
      /\ proc'[p].role = proc[p].role
      /\ proc'[p].pid = proc[p].pid
      /\ \A q \in Processes \ {p} : proc'[q] = proc[q]
      /\ \/ t = "held" /\ file[proc[p].role] = proc[p].pid
         \/ t = "check server again" /\ file[proc[p].role] # proc[p].pid
  BY SetStepFacts DEF ReadBack, IInv, LockSteps, AcquiringSteps
<1>3. Alone(p)'
  BY <1>1, <1>2 DEF IInv, Alone, Alive, Owning, NotItsFile
<1>4. \A q \in Processes \ {p} : Apart(p, q)' /\ Apart(q, p)'
  <2>1. ASSUME NEW q \in Processes \ {p} PROVE Apart(p, q)' /\ Apart(q, p)'
    <3>1. Apart(p, q) /\ Apart(q, p)
      BY DEF IInv
    <3>2. proc'[q] = proc[q]
      BY <1>2
    <3> QED
      BY <1>1, <1>2, <3>1, <3>2 DEF Apart, Alive, Owning, AcquiringSteps
  <2> QED
    BY <2>1
<1> QED
  BY <1>1, <1>2, <1>3, <1>4, OneProcessMoves

\* removeLock: a process that goes on without a lock never reads its own pid.
LEMMA LeaveHolds == ASSUME IInv, NEW p \in Processes, Leave(p) PROVE IInv'
<1>1. CASE proc' = [proc EXCEPT ![p] = Off]
  BY <1>1, EndHolds DEF Leave
<1>2. CASE proc' # [proc EXCEPT ![p] = Off]
  <2>1. /\ file' = file
        /\ proc[p].step \in {"held", "unheld"}
        /\ OwnsFile(p)
        /\ SetStep(p, "unlink")
    BY <1>2 DEF Leave
  <2>2. proc[p].step = "held"
    BY <2>1 DEF OwnsFile, IInv, Alone, NotItsFile
  <2>3. /\ proc' \in [Processes -> Process]
        /\ proc'[p].step = "unlink"
        /\ proc'[p].role = proc[p].role
        /\ proc'[p].pid = proc[p].pid
        /\ \A q \in Processes \ {p} : proc'[q] = proc[q]
    BY <2>1, SetStepFacts DEF IInv, LockSteps, AcquiringSteps
  <2>4. Alone(p)'
    BY <2>1, <2>2, <2>3 DEF IInv, Alone, Alive, Owning, NotItsFile
  <2>5. ASSUME NEW q \in Processes \ {p} PROVE Apart(p, q)' /\ Apart(q, p)'
    <3>1. Apart(p, q) /\ Apart(q, p) /\ proc'[q] = proc[q]
      BY <2>3 DEF IInv
    <3> QED
      BY <2>2, <2>3, <3>1 DEF Apart, Alive, Owning, AcquiringSteps
  <2> QED
    BY <2>1, <2>3, <2>4, <2>5, OneProcessMoves
<1> QED
  BY <1>1, <1>2

\* The file that is removed is the file of the process that removes it.
LEMMA UnlinkHolds == ASSUME IInv, NEW p \in Processes, Unlink(p) PROVE IInv'
<1>1. /\ proc[p].step = "unlink"
      /\ file' = [file EXCEPT ![proc[p].role] = NULL]
      /\ proc' = [proc EXCEPT ![p] = Off]
  BY DEF Unlink
<1>2. /\ proc' \in [Processes -> Process]
      /\ proc'[p].step = "off"
      /\ \A q \in Processes \ {p} : proc'[q] = proc[q]
  BY <1>1, OffFacts DEF IInv
<1>3. LockTypeOK'
  BY <1>1, <1>2 DEF IInv, LockTypeOK, Process
<1>4. Alone(p)'
  BY <1>2 DEF Alone, Alive, Owning, NotItsFile
<1>5. ASSUME NEW q \in Processes \ {p} PROVE Alone(q)'
  <2>1. Alone(q) /\ Apart(p, q) /\ proc'[q] = proc[q] /\ proc[q].role \in Roles
    BY <1>2 DEF IInv, LockTypeOK, Process
  <2>2. proc[q].step \notin Owning
    BY <1>1, <2>1 DEF Apart, Owning
  <2>3. \A r \in Roles : file'[r] \in {file[r], NULL}
    BY <1>1 DEF IInv, LockTypeOK
  <2>4. Alive(q) => proc[q].pid # NULL
    BY <2>1, NullAssumption DEF Alone
  <2>5. proc[q].step \in NotItsFile \cup {"check migrate"} => Alive(q)
    BY DEF NotItsFile, Alive
  <2> QED
    BY <2>1, <2>2, <2>3, <2>4, <2>5 DEF Alone, Alive, Roles
<1>6. ASSUME NEW q \in Processes, NEW r \in Processes \ {q} PROVE Apart(q, r)'
  <2>1. Apart(q, r) /\ (q # p => proc'[q] = proc[q]) /\ (r # p => proc'[r] = proc[r])
    BY <1>2 DEF IInv
  <2> QED
    BY <1>2, <2>1 DEF Apart, Alive, Owning, AcquiringSteps
<1> QED
  BY <1>3, <1>4, <1>5, <1>6 DEF IInv

\* Every step keeps the types, whoever starts when.
LEMMA LockTyped == ASSUME LockTypeOK, [LockNext]_lockVars PROVE LockTypeOK'
<1>1. CASE UNCHANGED lockVars
  BY <1>1 DEF lockVars, LockTypeOK
<1>2. ASSUME NEW p \in Processes, Launch(p) PROVE LockTypeOK'
  BY <1>2 DEF Launch, LockTypeOK, Process, LockSteps
<1>3. ASSUME NEW p \in Processes, NEW s \in LockSteps, SetStep(p, s),
             file' \in [Roles -> Pids \cup {NULL}]
      PROVE  LockTypeOK'
  BY <1>3, SetStepFacts DEF LockTypeOK
<1>4. ASSUME NEW p \in Processes, proc' = [proc EXCEPT ![p] = Off],
             file' \in [Roles -> Pids \cup {NULL}]
      PROVE  LockTypeOK'
  BY <1>4, OffFacts DEF LockTypeOK
<1>5. ASSUME NEW p \in Processes, Acquire(p) PROVE LockTypeOK'
  <2>1. /\ file' = file \/ \E f \in {proc[p].pid, NULL} : file' = [file EXCEPT ![proc[p].role] = f]
        /\ \E s \in AcquiringSteps \cup {"refused", "unheld", "held"} : SetStep(p, s)
    BY <1>5 DEF Acquire, EnterLock, CheckServer, CheckMigrate, CheckServerAgain,
                CheckMigrateAgain, Check, Write, WriteFails, ReadBack, AcquiringSteps
  <2>2. file' \in [Roles -> Pids \cup {NULL}]
    BY <2>1 DEF LockTypeOK, Process
  <2> QED
    BY <1>3, <2>1, <2>2 DEF LockSteps
<1>6. ASSUME NEW p \in Processes, Leave(p) \/ Unlink(p) \/ Die(p) PROVE LockTypeOK'
  <2>1. file' \in [Roles -> Pids \cup {NULL}]
    BY <1>6 DEF Leave, Unlink, Die, LockTypeOK
  <2>2. SetStep(p, "unlink") \/ proc' = [proc EXCEPT ![p] = Off]
    BY <1>6 DEF Leave, Unlink, Die
  <2> QED
    BY <1>3, <1>4, <2>1, <2>2 DEF LockSteps
<1> QED
  BY <1>1, <1>2, <1>5, <1>6 DEF LockNext

\* Every step preserves the invariant, if one process at a time is inside.
LEMMA NextHolds ==
    ASSUME MaxAcquiring = 1, IInv, [LockNext]_lockVars
    PROVE  IInv'
<1>1. ASSUME NEW p \in Processes, Acquire(p) PROVE IInv'
  BY <1>1, EnterHolds, CheckHolds, WriteHolds, ReadBackHolds DEF Acquire
<1>2. ASSUME NEW p \in Processes, Launch(p) \/ Leave(p) \/ Unlink(p) PROVE IInv'
  BY <1>2, LaunchHolds, LeaveHolds, UnlinkHolds
<1>3. ASSUME NEW p \in Processes, Die(p) PROVE IInv'
  BY <1>3, EndHolds DEF Die
<1>4. CASE UNCHANGED lockVars
  BY <1>4 DEF lockVars, IInv, LockTypeOK, Alone, Apart, Alive
<1> QED
  BY <1>1, <1>2, <1>3, <1>4 DEF LockNext

-------------------------------------------------------------------------------
\* IInv holds in every reachable state.
LEMMA IInvHolds == ASSUME MaxAcquiring = 1 PROVE LockSpec => []IInv
<1>1. IInv /\ [LockNext]_lockVars => IInv'
  BY NextHolds
<1> QED
  BY <1>1, InitHolds, PTL DEF LockSpec

(***************************************************************************)
(* Processes and files keep their types, even if programs start together.  *)
(***************************************************************************)
THEOREM LockTypes == LockSpec => []LockTypeOK
<1>1. LockInit => LockTypeOK
  BY DEF LockInit, LockTypeOK, Off, Process, LockSteps, Roles
<1> QED
  BY <1>1, LockTyped, PTL DEF LockSpec

(***************************************************************************)
(* Programs that do not start together never run together without a        *)
(* warning, however they are killed and whichever pid comes back.          *)
(***************************************************************************)
THEOREM LockExcludes == ASSUME MaxAcquiring = 1 PROVE LockSpec => []MutualExclusion
<1>1. IInv => MutualExclusion
  BY DEF IInv, MutualExclusion, Holders, Apart, Owning
<1> QED
  BY <1>1, IInvHolds, PTL

(***************************************************************************)
(* The lock file names its holder as long as it holds the lock.            *)
(***************************************************************************)
THEOREM LockNamesHolder == ASSUME MaxAcquiring = 1 PROVE LockSpec => []HolderIsOnFile
<1>1. IInv => HolderIsOnFile
  BY DEF IInv, HolderIsOnFile, Holders, Alone, Owning
<1> QED
  BY <1>1, IInvHolds, PTL

(***************************************************************************)
(* Programs that do not start together keep the lock: one at most holds    *)
(* it, and its file says which.                                            *)
(***************************************************************************)
THEOREM LockKept == ASSUME MaxAcquiring = 1 PROVE LockSpec => []LockIsKept
<1>1. MutualExclusion /\ HolderIsOnFile => LockIsKept
  BY DEF LockIsKept
<1> QED
  BY <1>1, LockExcludes, LockNamesHolder, PTL

(***************************************************************************)
(* removeLock never removes the file of another process.                   *)
(***************************************************************************)
THEOREM LockRemovesOwnFile == ASSUME MaxAcquiring = 1 PROVE LockSpec => OnlyOwnFileRemoved
<1>1. IInv => [\A p \in Processes :
                 proc[p].step = "unlink" /\ ~Alive(p)' /\ file' # file =>
                     file[proc[p].role] = proc[p].pid]_lockVars
  BY DEF IInv, Alone, Owning
<1> QED
  BY <1>1, IInvHolds, PTL DEF OnlyOwnFileRemoved

-------------------------------------------------------------------------------
\* When no process is given a pid that is on file, a living process finds its
\* own in its own file only, and only once it has written it.
OwnInv ==
    /\ LockTypeOK
    /\ \A p \in Processes : Alive(p) => proc[p].pid \in Pids
    /\ \A p \in Processes : \A q \in Processes \ {p} :
          Alive(p) /\ Alive(q) => proc[p].pid # proc[q].pid
    /\ \A p \in Processes, r \in Roles :
          Alive(p) /\ file[r] = proc[p].pid =>
             r = proc[p].role /\ proc[p].step \in {"read back", "held", "unlink"}

\* A process that stays alive keeps its role and pid.
LEMMA OwnMoves ==
    ASSUME OwnInv, LockTypeOK', NEW p \in Processes, Alive(p), NEW s \in LockSteps \ {"off"},
           SetStep(p, s),
           \/ file' = file
           \/ file' = [file EXCEPT ![proc[p].role] = NULL]
           \/ file' = [file EXCEPT ![proc[p].role] = proc[p].pid] /\ s = "read back",
           \/ s \in {"read back", "held", "unlink"}
           \/ \A r \in Roles : file[r] # proc[p].pid
    PROVE  OwnInv'
<1>1. /\ proc'[p].step = s /\ proc'[p].role = proc[p].role /\ proc'[p].pid = proc[p].pid
      /\ \A q \in Processes \ {p} : proc'[q] = proc[q]
  BY SetStepFacts DEF OwnInv
<1>2. \A q \in Processes : (Alive(q)' <=> Alive(q)) /\ proc'[q].pid = proc[q].pid
                           /\ proc'[q].role = proc[q].role
  BY <1>1 DEF Alive
<1>3. ASSUME NEW q \in Processes, NEW r \in Roles, Alive(q), file'[r] = proc[q].pid
      PROVE  r = proc[q].role /\ proc'[q].step \in {"read back", "held", "unlink"}
  <2>1. proc[q].pid # NULL /\ file \in [Roles -> Pids \cup {NULL}]
    BY <1>3, NullAssumption DEF OwnInv, LockTypeOK
  <2>2. CASE file'[r] = file[r]
    <3>1. r = proc[q].role /\ proc[q].step \in {"read back", "held", "unlink"}
      BY <1>3, <2>2 DEF OwnInv
    <3> QED
      BY <1>1, <1>3, <2>2, <3>1
  <2>3. CASE file'[r] # file[r]
    <3>1. r = proc[p].role /\ file'[r] = proc[p].pid /\ s = "read back"
      BY <1>3, <2>1, <2>3
    <3>2. q = p
      BY <1>3, <3>1 DEF OwnInv
    <3> QED
      BY <1>1, <3>1, <3>2
  <2> QED
    BY <2>2, <2>3
<1>4. \A q \in Processes : Alive(q)' => proc'[q].pid \in Pids
  BY <1>2 DEF OwnInv
<1>5. ASSUME NEW q \in Processes, NEW r \in Processes \ {q}, Alive(q)', Alive(r)'
      PROVE  proc'[q].pid # proc'[r].pid
  <2>1. Alive(q) /\ Alive(r) /\ proc'[q].pid = proc[q].pid /\ proc'[r].pid = proc[r].pid
    BY <1>2, <1>5
  <2>2. proc[q].pid # proc[r].pid
    BY <2>1 DEF OwnInv
  <2> QED
    BY <2>1, <2>2
<1>6. ASSUME NEW q \in Processes, NEW r \in Roles, Alive(q)', file'[r] = proc'[q].pid
      PROVE  r = proc'[q].role /\ proc'[q].step \in {"read back", "held", "unlink"}
  <2>1. Alive(q) /\ file'[r] = proc[q].pid
    BY <1>2, <1>6
  <2> QED
    BY <1>2, <1>3, <2>1
<1> QED
  BY <1>4, <1>5, <1>6 DEF OwnInv

LEMMA OwnKeeps == ASSUME OwnInv, [LockNext]_lockVars, PidsAreFresh PROVE OwnInv'
<1>0. LockTypeOK'
  BY LockTyped DEF OwnInv
<1>1. CASE UNCHANGED lockVars
  BY <1>1 DEF lockVars, OwnInv, LockTypeOK, Alive
<1>2. ASSUME NEW p \in Processes, Launch(p) PROVE OwnInv'
  <2>0. PICK role \in Roles, pid \in Pids :
           /\ \A q \in Processes : Alive(q) => proc[q].pid # pid
           /\ proc' = [proc EXCEPT ![p] = [step |-> "running", role |-> role, pid |-> pid]]
    BY <1>2 DEF Launch
  <2>2. /\ proc'[p] = [step |-> "running", role |-> role, pid |-> pid]
        /\ \A q \in Processes \ {p} : proc'[q] = proc[q]
    BY <2>0 DEF OwnInv, LockTypeOK
  <2>1. /\ \A q \in Processes : Alive(q) => proc[q].pid # pid
        /\ \A r \in Roles : file[r] # pid
    BY <1>2, <2>0, <2>2 DEF Launch, PidsAreFresh, Alive
  <2>3. file' = file
    BY <1>2 DEF Launch
  <2>4. proc'[p].pid = pid /\ \A q \in Processes \ {p} : Alive(q)' <=> Alive(q)
    BY <2>2 DEF Alive
  <2>5. ASSUME NEW q \in Processes, Alive(q)' PROVE proc'[q].pid \in Pids
    <3>1. q # p => Alive(q) /\ proc'[q] = proc[q]
      BY <2>2, <2>5, <2>4
    <3> QED
      BY <2>4, <3>1 DEF OwnInv
  <2>6. ASSUME NEW q \in Processes, NEW r \in Processes \ {q}, Alive(q)', Alive(r)'
        PROVE  proc'[q].pid # proc'[r].pid
    <3>1. /\ q # p => Alive(q) /\ proc'[q] = proc[q]
          /\ r # p => Alive(r) /\ proc'[r] = proc[r]
      BY <2>2, <2>6, <2>4
    <3> QED
      BY <2>1, <2>4, <3>1 DEF OwnInv
  <2>7. ASSUME NEW q \in Processes, NEW r \in Roles, Alive(q)', file'[r] = proc'[q].pid
        PROVE  r = proc'[q].role /\ proc'[q].step \in {"read back", "held", "unlink"}
    <3>1. q # p
      BY <2>1, <2>2, <2>3, <2>7
    <3>2. proc'[q] = proc[q] /\ Alive(q)
      BY <2>2, <2>7, <3>1 DEF Alive
    <3> QED
      BY <2>3, <2>7, <3>2 DEF OwnInv
  <2> QED
    BY <1>0, <2>5, <2>6, <2>7 DEF OwnInv
<1>3. ASSUME NEW p \in Processes, proc' = [proc EXCEPT ![p] = Off],
             file' = file \/ file' = [file EXCEPT ![proc[p].role] = NULL]
      PROVE  OwnInv'
  <2>1. proc'[p].step = "off" /\ \A q \in Processes \ {p} : proc'[q] = proc[q]
    BY <1>3, OffFacts DEF OwnInv
  <2>2. \A r \in Roles : file'[r] \in {file[r], NULL}
    BY <1>3 DEF OwnInv, LockTypeOK
  <2>3. \A q \in Processes : Alive(q) => proc[q].pid # NULL
    BY NullAssumption DEF OwnInv
  <2>4. \A q \in Processes : Alive(q)' => Alive(q) /\ proc'[q] = proc[q]
    BY <2>1 DEF Alive
  <2>5. /\ \A q \in Processes : Alive(q)' => proc'[q].pid \in Pids
        /\ \A q \in Processes : \A r \in Processes \ {q} :
              Alive(q)' /\ Alive(r)' => proc'[q].pid # proc'[r].pid
    BY <2>4 DEF OwnInv
  <2>6. ASSUME NEW q \in Processes, NEW r \in Roles, Alive(q)', file'[r] = proc'[q].pid
        PROVE  r = proc'[q].role /\ proc'[q].step \in {"read back", "held", "unlink"}
    <3>1. Alive(q) /\ proc'[q] = proc[q] /\ file[r] = proc[q].pid
      BY <2>2, <2>3, <2>4, <2>6
    <3> QED
      BY <3>1 DEF OwnInv
  <2> QED
    BY <1>0, <2>5, <2>6 DEF OwnInv
<1>4. ASSUME NEW p \in Processes, Acquire(p) PROVE OwnInv'
  <2>1. Alive(p) /\ (proc[p].step # "read back" => \A r \in Roles : file[r] # proc[p].pid)
    BY <1>4 DEF OwnInv, Alive, Acquire, EnterLock, CheckServer, CheckMigrate,
                CheckServerAgain, CheckMigrateAgain, Check, Write, WriteFails, ReadBack
  <2>2. CASE ReadBack(p)
    <3>1. PICK s \in {"held", "check server again"} :
             /\ SetStep(p, s) /\ file' = file
             /\ s = "held" \/ file[proc[p].role] # proc[p].pid
      BY <2>2 DEF ReadBack
    <3>2. s = "held" \/ \A r \in Roles : file[r] # proc[p].pid
      BY <2>1, <3>1 DEF OwnInv
    <3> QED
      BY <1>0, <2>1, <3>1, <3>2, OwnMoves DEF LockSteps, AcquiringSteps
  <2>3. CASE Write(p)
    <3>1. SetStep(p, "read back") /\ file' = [file EXCEPT ![proc[p].role] = proc[p].pid]
      BY <2>3 DEF Write
    <3> QED
      BY <1>0, <2>1, <3>1, OwnMoves DEF LockSteps, AcquiringSteps
  <2>4. CASE ~ReadBack(p) /\ ~Write(p)
    <3>1. PICK s \in LockSteps \ {"off"} :
             /\ SetStep(p, s)
             /\ file' = file \/ file' = [file EXCEPT ![proc[p].role] = NULL]
             /\ proc[p].step # "read back"
      BY <1>4, <2>4 DEF Acquire, EnterLock, CheckServer, CheckMigrate, CheckServerAgain,
                        CheckMigrateAgain, Check, WriteFails, LockSteps, AcquiringSteps
    <3> QED
      BY <1>0, <2>1, <3>1, OwnMoves
  <2> QED
    BY <2>2, <2>3, <2>4
<1>5. ASSUME NEW p \in Processes, Leave(p) PROVE OwnInv'
  <2>1. Alive(p) /\ file' = file
        /\ (SetStep(p, "unlink") \/ proc' = [proc EXCEPT ![p] = Off])
    BY <1>5 DEF Leave, Alive
  <2>2. "unlink" \in LockSteps \ {"off"}
    BY DEF LockSteps
  <2> QED
    BY <1>0, <1>3, <2>1, <2>2, OwnMoves
<1>6. ASSUME NEW p \in Processes, Unlink(p) \/ Die(p) PROVE OwnInv'
  BY <1>3, <1>6 DEF Unlink, Die
<1> QED
  BY <1>1, <1>2, <1>4, <1>5, <1>6 DEF LockNext

LEMMA OwnBegins == LockInit => OwnInv
BY DEF LockInit, OwnInv, LockTypeOK, Off, Process, LockSteps, Roles, Alive

LEMMA OwnRefuses == OwnInv /\ [LockNext]_lockVars => [RefusedByAnother]_lockVars
<1> SUFFICES ASSUME OwnInv, LockNext, NEW p \in Processes,
                    proc[p].step # "refused", proc'[p].step = "refused"
             PROVE  \E q \in Processes \ {p} :
                       Alive(q) /\ proc[q].pid \in {file[r] : r \in Roles}
  BY DEF RefusedByAnother
<1>1. PICK m \in Processes : Launch(m) \/ Acquire(m) \/ Leave(m) \/ Unlink(m) \/ Die(m)
  BY DEF LockNext
<1>2. m = p /\ Acquire(p)
  <2>1. proc \in [Processes -> Process]
    BY DEF OwnInv, LockTypeOK
  <2>2. m # p => proc'[p] = proc[p]
    BY <1>1, <2>1 DEF Launch, Acquire, EnterLock, CheckServer, CheckMigrate,
                      CheckServerAgain, CheckMigrateAgain, Check, Write, WriteFails,
                      ReadBack, Leave, Unlink, Die, SetStep
  <2>3. Launch(p) \/ Leave(p) \/ Unlink(p) \/ Die(p) => proc'[p].step # "refused"
    BY <2>1 DEF Launch, Leave, Unlink, Die, SetStep, Off, Process
  <2> QED
    BY <1>1, <2>2, <2>3
<1>3. PICK role \in Roles : Locked(role) /\ file[role] # proc[p].pid
  <2>1. PICK at \in AcquiringSteps \ {"read back"}, role \in Roles, next \in LockSteps \ {"refused"} :
           Check(p, at, role, next)
    <3>1. CASE EnterLock(p) \/ Write(p) \/ WriteFails(p) \/ ReadBack(p)
      <4>1. PICK s \in LockSteps \ {"refused"} : SetStep(p, s)
        BY <3>1 DEF EnterLock, Write, WriteFails, ReadBack, LockSteps, AcquiringSteps
      <4> QED
        BY <4>1, SetStepFacts DEF OwnInv
    <3>2. CASE CheckServer(p) \/ CheckMigrate(p) \/ CheckServerAgain(p) \/ CheckMigrateAgain(p)
      BY <3>2 DEF CheckServer, CheckMigrate, CheckServerAgain, CheckMigrateAgain,
                  LockSteps, AcquiringSteps, Roles
    <3> QED
      BY <1>2, <3>1, <3>2 DEF Acquire
  <2>2. proc[p].step = at /\ Alive(p)
    BY <2>1 DEF Check, Alive, AcquiringSteps
  <2>3. Locked(role)
    BY <2>1, SetStepFacts DEF Check, OwnInv
  <2> QED
    BY <2>2, <2>3 DEF OwnInv, AcquiringSteps
<1> QED
  BY <1>3 DEF Locked

\* A process comes to life by Launch only.
LEMMA FreshPids ==
    ASSUME ~StalePidsReturn, LockTypeOK, [LockNext]_lockVars
    PROVE  PidsAreFresh
<1> SUFFICES ASSUME NEW p \in Processes, NEW r \in Roles, ~Alive(p), Alive(p)'
             PROVE  file[r] # proc'[p].pid
  BY DEF PidsAreFresh
<1>1. proc[p].step = "off" /\ proc' # proc
  BY DEF Alive
<1>2. PICK m \in Processes : Launch(m) \/ Acquire(m) \/ Leave(m) \/ Unlink(m) \/ Die(m)
  BY <1>1 DEF LockNext, lockVars
<1>3. m = p
  BY <1>1, <1>2 DEF Launch, Acquire, EnterLock, CheckServer, CheckMigrate,
                    CheckServerAgain, CheckMigrateAgain, Check, Write, WriteFails,
                    ReadBack, Leave, Unlink, Die, SetStep, Alive, LockTypeOK
<1>4. Launch(p)
  BY <1>1, <1>2, <1>3 DEF Acquire, EnterLock, CheckServer, CheckMigrate, CheckServerAgain,
                          CheckMigrateAgain, Check, Write, WriteFails, ReadBack, Leave,
                          Unlink, Die, Alive
<1> QED
  BY <1>4 DEF Launch, LockTypeOK

(***************************************************************************)
(* A program is refused only because of a lock with another, living owner  *)
(* (checkLock, 182-185, isProcessAlive, 140-150), however many start       *)
(* together and whichever write fails, unless a program is given a pid     *)
(* that a lock file was left with.                                         *)
(***************************************************************************)
THEOREM LockRefusesForAnother ==
    ASSUME ~StalePidsReturn PROVE LockSpec => [][RefusedByAnother]_lockVars
<1>1. OwnInv /\ [LockNext]_lockVars => OwnInv'
  BY OwnKeeps, FreshPids DEF OwnInv
<1> QED
  BY <1>1, OwnBegins, OwnRefuses, PTL DEF LockSpec
===============================================================================
