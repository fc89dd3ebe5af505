------------------------------ MODULE JobsProofs ------------------------------
(***************************************************************************)
(* Theorems about the parts around the schedule: Backup, BackupCli,        *)
(* RateLimit and Autocomplete, each for any number of calls, days, copies, *)
(* addresses, terms and so on; and Progress, for any rows and any day.     *)
(***************************************************************************)
EXTENDS Backup, BackupCli, RateLimit, Autocomplete, Progress, FiniteSetTheorems,
        WellFoundedInduction, TLAPS

-------------------------------------------------------------------------------
(* Backup                                                                  *)

RunState == [step : BackupSteps, day : Days, copy : Versions \cup {NONE},
             sum : Versions \cup {NONE, PART}]

BackupTypeOK ==
    /\ today \in Days /\ database \in Versions
    /\ isRunning \in BOOLEAN
    /\ run \in [Runs -> RunState]
    /\ made \in [Days -> Days \cup {NoDir}]
    /\ archive \in [Days -> Versions \cup {NONE, PART}]
    /\ checksum \in [Days -> Versions \cup {NONE, PART}]
    /\ confirmed \in SUBSET Days

\* The flag keeps a second call out, and what runs is of today or yesterday.
OneRun ==
    /\ \A r \in Runs : run[r] # NoRun => isRunning /\ run[r].step # "idle"
    /\ \A q, r \in Runs : run[q] # NoRun /\ run[r] # NoRun => q = r
    /\ \A r \in Runs : run[r] # NoRun => run[r].day \in {today - 1, today}

\* What a call knows at each of its steps, before the next one.
HoldsArchive(r) ==
    LET d == run[r].day
    IN  /\ run[r].step \in {"open", "zip", "hash", "sum"} => run[r].copy \in Versions
        /\ run[r].step \in {"zip", "hash", "sum"} => d \notin confirmed
        /\ run[r].step \in {"hash", "sum"} => archive[d] = run[r].copy
        /\ run[r].step = "sum" => run[r].sum = archive[d]
        /\ run[r].step = "clean" => d \in confirmed

\* A directory is as old as its day at most.
AgesKnown == \A d \in Days : made[d] # NoDir => made[d] >= d

BackupInv ==
    /\ BackupTypeOK /\ OneRun /\ AgesKnown /\ ConfirmedIsGood
    /\ \A r \in Runs : HoldsArchive(r)

LEMMA DayFacts ==
    /\ Days \subseteq Int /\ Versions \subseteq Nat /\ 0 \in Days /\ 0 \in Versions
    /\ NONE \notin Versions /\ PART \notin Versions /\ NoDir \notin Days /\ NoRun \in RunState
    /\ NoRun.step = "idle" /\ NoRun.day = 0
BY RetentionAssumption, BackupBoundsAssumption
   DEF Days, Versions, NONE, PART, NoDir, NoRun, RunState, BackupSteps

LEMMA OneAtWork ==
    ASSUME BackupInv, NEW r \in Runs, run[r] # NoRun \/ ~isRunning
    PROVE  \A q \in Runs \ {r} : run[q] = NoRun
BY DEF BackupInv, OneRun

\* A step of the one call that runs.
LEMMA RunStep ==
    ASSUME BackupInv, NEW r \in Runs, NEW new \in RunState,
           \A q \in Runs \ {r} : run[q] = NoRun,
           run' = [run EXCEPT ![r] = new],
           isRunning' \in BOOLEAN, new # NoRun => isRunning' /\ new.step # "idle",
           new # NoRun => new.day \in {today - 1, today},
           UNCHANGED World,
           made' \in [Days -> Days \cup {NoDir}], AgesKnown',
           archive' \in [Days -> Versions \cup {NONE, PART}],
           checksum' \in [Days -> Versions \cup {NONE, PART}],
           confirmed' \in SUBSET Days, ConfirmedIsGood',
           HoldsArchive(r)'
    PROVE  BackupInv'
<1>1. \A q \in Runs : run'[q] = IF q = r THEN new ELSE NoRun
  BY DEF BackupInv, BackupTypeOK
<1>2. BackupTypeOK'
  BY <1>1, DayFacts DEF BackupInv, BackupTypeOK, World
<1>3. OneRun'
  BY <1>1 DEF OneRun, World
<1>4. ASSUME NEW q \in Runs PROVE HoldsArchive(q)'
  <2>1. CASE q = r
    BY <2>1
  <2>2. CASE q # r
    BY <1>1, <2>2, DayFacts DEF HoldsArchive
  <2> QED
    BY <2>1, <2>2
<1> QED
  BY <1>2, <1>3, <1>4 DEF BackupInv

\* A step of the call that leaves all files as they are.
LEMMA QuietStep ==
    ASSUME BackupInv, NEW r \in Runs, NEW new \in RunState,
           \A q \in Runs \ {r} : run[q] = NoRun,
           run' = [run EXCEPT ![r] = new],
           isRunning' \in BOOLEAN, new # NoRun => isRunning' /\ new.step # "idle",
           new # NoRun => new.day \in {today - 1, today},
           UNCHANGED <<World, Files, confirmed>>,
           HoldsArchive(r)'
    PROVE  BackupInv'
<1>1. AgesKnown' /\ ConfirmedIsGood'
  BY DEF BackupInv, AgesKnown, ConfirmedIsGood, IsGood, Files
<1> QED
  BY <1>1, RunStep DEF BackupInv, BackupTypeOK, Files, World

\* What a step of the call starts from.
LEMMA AtStep ==
    ASSUME BackupInv, NEW r \in Runs, NEW from \in BackupSteps \ {"idle"}, NEW new \in RunState,
           Step(r, from, new)
    PROVE  /\ run[r] \in RunState /\ run[r] # NoRun /\ run[r].step = from
           /\ run[r].day \in Days /\ run[r].day \in {today - 1, today}
           /\ \A q \in Runs \ {r} : run[q] = NoRun
           /\ isRunning /\ isRunning' \in BOOLEAN /\ (new # NoRun => isRunning')
           /\ run'[r] = new
<1>1. run[r] \in RunState /\ run[r] # NoRun /\ run[r].step = from /\ run'[r] = new
  BY DayFacts DEF BackupInv, BackupTypeOK, Step
<1>2. isRunning /\ run[r].day \in {today - 1, today}
  BY <1>1 DEF BackupInv, OneRun
<1>3. \A q \in Runs \ {r} : run[q] = NoRun
  BY <1>1, OneAtWork
<1>4. isRunning' \in BOOLEAN /\ (new # NoRun => isRunning')
  BY <1>2 DEF Step, BackupInv, BackupTypeOK
<1> QED
  BY <1>1, <1>2, <1>3, <1>4 DEF RunState

LEMMA BackupInvariant ==
    ASSUME BackupInv, [BackupNext]_backupVars
    PROVE  BackupInv'
<1> USE DayFacts
<1>1. CASE NextDay
  <2>1. \A r \in Runs : run[r] # NoRun => run[r].day \in {today' - 1, today'}
    BY <1>1, RetentionAssumption, BackupBoundsAssumption DEF NextDay, BackupInv, BackupTypeOK, Days
  <2>2. today' \in Days
    BY <1>1, BackupBoundsAssumption DEF NextDay, BackupInv, BackupTypeOK, Days
  <2>3. BackupTypeOK' /\ OneRun'
    BY <1>1, <2>1, <2>2 DEF NextDay, BackupInv, BackupTypeOK, OneRun, Files
  <2> QED
    BY <1>1, <2>3 DEF NextDay, BackupInv, AgesKnown, ConfirmedIsGood, IsGood, HoldsArchive, Files
<1>2. CASE ChangeDatabase
  <2>1. database' \in Versions
    BY <1>2, BackupBoundsAssumption DEF ChangeDatabase, BackupInv, BackupTypeOK, Versions
  <2> QED
    BY <1>2, <2>1 DEF ChangeDatabase, BackupInv, BackupTypeOK, OneRun, AgesKnown,
                      ConfirmedIsGood, IsGood, HoldsArchive, Files
<1>3. CASE RestartBackup
  BY <1>3 DEF RestartBackup, World, BackupInv, BackupTypeOK, OneRun, AgesKnown,
              ConfirmedIsGood, IsGood, HoldsArchive, Files
<1>4. ASSUME NEW r \in Runs, StartBackup(r) PROVE BackupInv'
  <2> DEFINE new == [NoRun EXCEPT !.step = "mkdir", !.day = today]
  <2>1. new \in RunState /\ new.step = "mkdir" /\ new.day = today
    BY DEF NoRun, RunState, BackupSteps, BackupInv, BackupTypeOK
  <2>2. run' = [run EXCEPT ![r] = new] /\ run'[r] = new
    BY <1>4 DEF StartBackup, BackupInv, BackupTypeOK
  <2>3. \A q \in Runs \ {r} : run[q] = NoRun
    BY <1>4, OneAtWork DEF StartBackup, MayStart
  <2>4. HoldsArchive(r)'
    BY <2>1, <2>2 DEF HoldsArchive
  <2> HIDE DEF new
  <2> QED
    BY <1>4, <2>1, <2>2, <2>3, <2>4, QuietStep DEF StartBackup
<1>5. ASSUME NEW r \in Runs, MakeDir(r) PROVE BackupInv'
  <2> DEFINE new == [run[r] EXCEPT !.step = "vacuum"]
  <2>1. run[r] \in RunState
    BY DEF BackupInv, BackupTypeOK
  <2>2. new \in RunState /\ new.step = "vacuum" /\ new.day = run[r].day
    BY <2>1 DEF RunState, BackupSteps
  <2> HIDE DEF new
  <2>3. Step(r, "mkdir", new)
    BY <1>5 DEF MakeDir, new
  <2>4. run[r].day \in Days /\ run[r].day \in {today - 1, today}
    BY <2>2, <2>3, AtStep DEF BackupSteps
  <2>5. made' \in [Days -> Days \cup {NoDir}] /\ AgesKnown'
    BY <1>5, <2>4 DEF MakeDir, Touch, BackupInv, BackupTypeOK, AgesKnown
  <2>6. HoldsArchive(r)'
    BY <2>2, <2>3, AtStep DEF HoldsArchive, BackupSteps
  <2>7. ConfirmedIsGood'
    BY <1>5 DEF MakeDir, BackupInv, ConfirmedIsGood, IsGood
  <2>8. /\ \A q \in Runs \ {r} : run[q] = NoRun
        /\ isRunning' \in BOOLEAN /\ isRunning' /\ new.day \in {today - 1, today}
        /\ run' = [run EXCEPT ![r] = new] /\ UNCHANGED World
    BY <2>2, <2>3, AtStep DEF BackupSteps, Step, NoRun
  <2> QED
    BY <1>5, <2>2, <2>5, <2>6, <2>7, <2>8, RunStep DEF MakeDir, BackupInv, BackupTypeOK
<1>6. ASSUME NEW r \in Runs, Vacuum(r) PROVE BackupInv'
  <2> DEFINE new == [run[r] EXCEPT !.step = "open", !.copy = database]
  <2>1. run[r] \in RunState /\ database \in Versions
    BY DEF BackupInv, BackupTypeOK
  <2>2. new \in RunState /\ new.step = "open" /\ new.day = run[r].day /\ new.copy \in Versions
    BY <2>1 DEF RunState, BackupSteps
  <2> HIDE DEF new
  <2>3. Step(r, "vacuum", new)
    BY <1>6 DEF Vacuum, new
  <2>4. HoldsArchive(r)'
    BY <2>2, <2>3, AtStep DEF HoldsArchive, BackupSteps
  <2>5. /\ \A q \in Runs \ {r} : run[q] = NoRun
        /\ isRunning' \in BOOLEAN /\ isRunning' /\ new.day \in {today - 1, today}
        /\ run' = [run EXCEPT ![r] = new] /\ UNCHANGED World
    BY <2>2, <2>3, AtStep DEF BackupSteps, Step, NoRun
  <2> QED
    BY <1>6, <2>2, <2>4, <2>5, QuietStep DEF Vacuum
<1>7. ASSUME NEW r \in Runs, OpenArchive(r) PROVE BackupInv'
  <2> DEFINE new == [run[r] EXCEPT !.step = "zip"]
  <2>1. run[r] \in RunState
    BY DEF BackupInv, BackupTypeOK
  <2>2. new \in RunState /\ new.step = "zip" /\ new.day = run[r].day /\ new.copy = run[r].copy
    BY <2>1 DEF RunState, BackupSteps
  <2> HIDE DEF new
  <2>3. Step(r, "open", new)
    BY <1>7 DEF OpenArchive, new
  <2>4. run[r].day \in Days /\ run[r].day \in {today - 1, today} /\ run[r].step = "open"
    BY <2>2, <2>3, AtStep DEF BackupSteps
  <2>5. made' \in [Days -> Days \cup {NoDir}] /\ AgesKnown'
    BY <1>7, <2>4 DEF OpenArchive, Touch, BackupInv, BackupTypeOK, AgesKnown
  <2>6. HoldsArchive(r)'
    BY <1>7, <2>2, <2>3, <2>4, AtStep DEF OpenArchive, HoldsArchive, BackupInv, BackupSteps
  <2>7. ConfirmedIsGood' /\ confirmed' \in SUBSET Days
    BY <1>7, <2>4 DEF OpenArchive, BackupInv, BackupTypeOK, ConfirmedIsGood, IsGood
  <2>8. archive' \in [Days -> Versions \cup {NONE, PART}] /\ UNCHANGED checksum
    BY <1>7, <2>4 DEF OpenArchive, BackupInv, BackupTypeOK
  <2> QED
    BY <2>2, <2>3, <2>5, <2>6, <2>7, <2>8, AtStep, RunStep
       DEF Step, BackupInv, BackupTypeOK, BackupSteps
<1>8. ASSUME NEW r \in Runs, CloseArchive(r) PROVE BackupInv'
  <2> DEFINE new == [run[r] EXCEPT !.step = "hash"]
  <2>1. run[r] \in RunState
    BY DEF BackupInv, BackupTypeOK
  <2>2. new \in RunState /\ new.step = "hash" /\ new.day = run[r].day /\ new.copy = run[r].copy
    BY <2>1 DEF RunState, BackupSteps
  <2> HIDE DEF new
  <2>3. Step(r, "zip", new)
    BY <1>8 DEF CloseArchive, new
  <2>4. run[r].day \in Days /\ run[r].step = "zip"
    BY <2>2, <2>3, AtStep DEF BackupSteps
  <2>5. run[r].copy \in Versions /\ run[r].day \notin confirmed
    BY <2>4 DEF BackupInv, HoldsArchive
  <2>6. archive' \in [Days -> Versions \cup {NONE, PART}] /\ archive'[run[r].day] = run[r].copy
    BY <1>8, <2>4, <2>5 DEF CloseArchive, BackupInv, BackupTypeOK
  <2>7. HoldsArchive(r)'
    BY <1>8, <2>2, <2>3, <2>4, <2>5, <2>6, AtStep DEF CloseArchive, HoldsArchive, BackupSteps
  <2>8. ConfirmedIsGood' /\ AgesKnown'
    BY <1>8, <2>4, <2>5
       DEF CloseArchive, BackupInv, BackupTypeOK, ConfirmedIsGood, IsGood, AgesKnown
  <2>9. /\ \A q \in Runs \ {r} : run[q] = NoRun
        /\ isRunning' \in BOOLEAN /\ isRunning' /\ new.day \in {today - 1, today}
        /\ run' = [run EXCEPT ![r] = new] /\ UNCHANGED World
    BY <2>2, <2>3, AtStep DEF BackupSteps, Step, NoRun
  <2> QED
    BY <1>8, <2>2, <2>6, <2>7, <2>8, <2>9, RunStep DEF CloseArchive, BackupInv, BackupTypeOK
<1>9. ASSUME NEW r \in Runs, Hash(r) PROVE BackupInv'
  <2> DEFINE new == [run[r] EXCEPT !.step = "sum", !.sum = archive[run[r].day]]
  <2>1. run[r] \in RunState
    BY DEF BackupInv, BackupTypeOK
  <2>2. run[r].step = "hash" /\ run[r].day \in Days
    BY <1>9, <2>1 DEF Hash, Step, RunState
  <2>3. /\ new \in RunState /\ new.step = "sum" /\ new.day = run[r].day /\ new.copy = run[r].copy
        /\ new.sum = archive[run[r].day]
    BY <2>1, <2>2 DEF RunState, BackupSteps, BackupInv, BackupTypeOK
  <2> HIDE DEF new
  <2>4. Step(r, "hash", new)
    BY <1>9 DEF Hash, new
  <2>5. run[r].copy \in Versions /\ run[r].day \notin confirmed /\ archive[run[r].day] = run[r].copy
    BY <2>2 DEF BackupInv, HoldsArchive
  <2>6. HoldsArchive(r)'
    BY <1>9, <2>3, <2>4, <2>5, AtStep DEF Hash, Files, HoldsArchive, BackupSteps
  <2>7. /\ \A q \in Runs \ {r} : run[q] = NoRun
        /\ isRunning' \in BOOLEAN /\ isRunning' /\ new.day \in {today - 1, today}
        /\ run' = [run EXCEPT ![r] = new] /\ UNCHANGED World
    BY <2>2, <2>3, <2>4, AtStep DEF BackupSteps, Step, NoRun
  <2> QED
    BY <1>9, <2>3, <2>6, <2>7, QuietStep DEF Hash
<1>10. ASSUME NEW r \in Runs, WriteChecksum(r) PROVE BackupInv'
  <2> DEFINE new == [run[r] EXCEPT !.step = "clean"]
  <2>1. run[r] \in RunState
    BY DEF BackupInv, BackupTypeOK
  <2>2. new \in RunState /\ new.step = "clean" /\ new.day = run[r].day
    BY <2>1 DEF RunState, BackupSteps
  <2> HIDE DEF new
  <2>3. Step(r, "sum", new)
    BY <1>10 DEF WriteChecksum, new
  <2>4. run[r].day \in Days /\ run[r].day \in {today - 1, today} /\ run[r].step = "sum"
    BY <2>2, <2>3, AtStep DEF BackupSteps
  <2>5. run[r].sum = archive[run[r].day] /\ archive[run[r].day] \in Versions
    BY <2>4 DEF BackupInv, HoldsArchive
  <2>6. made' \in [Days -> Days \cup {NoDir}] /\ AgesKnown'
    BY <1>10, <2>4 DEF WriteChecksum, Touch, BackupInv, BackupTypeOK, AgesKnown
  <2>7. /\ checksum' \in [Days -> Versions \cup {NONE, PART}] /\ confirmed' \in SUBSET Days
        /\ UNCHANGED archive
    BY <1>10, <2>4, <2>5 DEF WriteChecksum, BackupInv, BackupTypeOK
  <2>8. HoldsArchive(r)'
    BY <1>10, <2>2, <2>3, AtStep DEF WriteChecksum, HoldsArchive, BackupSteps
  <2>9. ConfirmedIsGood'
    BY <1>10, <2>4, <2>5 DEF WriteChecksum, BackupInv, BackupTypeOK, ConfirmedIsGood, IsGood
  <2> QED
    BY <2>2, <2>3, <2>6, <2>7, <2>8, <2>9, AtStep, RunStep
       DEF Step, BackupInv, BackupTypeOK, BackupSteps
<1>11. ASSUME NEW r \in Runs, CleanupOld(r) PROVE BackupInv'
  <2>1. Step(r, "clean", NoRun)
    BY <1>11 DEF CleanupOld
  <2>2. PICK gone \in SUBSET {d \in Days : IsExpired(d)} :
          /\ made'      = [d \in Days |-> IF d \in gone THEN NoDir ELSE made[d]]
          /\ archive'   = [d \in Days |-> IF d \in gone THEN NONE ELSE archive[d]]
          /\ checksum'  = [d \in Days |-> IF d \in gone THEN NONE ELSE checksum[d]]
          /\ confirmed' = confirmed \ gone
    BY <1>11 DEF CleanupOld
  <2>3. /\ made' \in [Days -> Days \cup {NoDir}]
        /\ archive' \in [Days -> Versions \cup {NONE, PART}]
        /\ checksum' \in [Days -> Versions \cup {NONE, PART}]
        /\ confirmed' \in SUBSET Days
    BY <2>2 DEF BackupInv, BackupTypeOK
  <2>4. AgesKnown' /\ ConfirmedIsGood'
    BY <2>2 DEF BackupInv, BackupTypeOK, AgesKnown, ConfirmedIsGood, IsGood
  <2>5. HoldsArchive(r)'
    BY <2>1, AtStep DEF HoldsArchive, BackupSteps
  <2> QED
    BY <2>1, <2>3, <2>4, <2>5, AtStep, RunStep DEF Step, BackupSteps
<1>12. ASSUME NEW r \in Runs, BackupFails(r) PROVE BackupInv'
  <2>1. run'[r] = NoRun
    BY <1>12 DEF BackupFails, BackupInv, BackupTypeOK
  <2>2. HoldsArchive(r)'
    BY <2>1 DEF HoldsArchive
  <2> QED
    BY <1>12, <2>2, OneAtWork, QuietStep DEF BackupFails
<1>13. CASE UNCHANGED backupVars
  BY <1>13 DEF backupVars, BackupInv, BackupTypeOK, OneRun, AgesKnown,
               ConfirmedIsGood, IsGood, HoldsArchive
<1> QED
  BY <1>1, <1>2, <1>3, <1>4, <1>5, <1>6, <1>7, <1>8, <1>9, <1>10, <1>11, <1>12, <1>13
     DEF BackupNext, RunBackup

LEMMA BackupStarts == BackupInit => BackupInv
<1> SUFFICES ASSUME BackupInit PROVE BackupInv
  OBVIOUS
<1>1. BackupTypeOK
  BY DayFacts DEF BackupInit, BackupTypeOK
<1>2. OneRun /\ AgesKnown /\ ConfirmedIsGood
  BY DEF BackupInit, OneRun, AgesKnown, ConfirmedIsGood
<1>3. \A r \in Runs : HoldsArchive(r)
  BY DayFacts DEF BackupInit, HoldsArchive
<1> QED
  BY <1>1, <1>2, <1>3 DEF BackupInv

\* A backup that ended well stays readable, with its own checksum, until
\* another run of its day opens the archive, for any number of calls and days
\* and wherever calls fail or the server dies (backup.service.ts 102-140).
THEOREM BackupConfirmed == BackupSpec => []ConfirmedIsGood
<1>1. BackupInit => BackupInv
  BY BackupStarts
<1>2. BackupInv /\ [BackupNext]_backupVars => BackupInv'
  BY BackupInvariant
<1>3. BackupInv => ConfirmedIsGood
  BY DEF BackupInv
<1> QED
  BY <1>1, <1>2, <1>3, PTL DEF BackupSpec

\* The clean-up comes after a backup that can be read, and that one is too
\* young to go: with two days of retention or more a readable backup is left
\* (backup.service.ts 154 and 169-190).
THEOREM BackupLeft == BackupSpec => LastBackupStays
<1> DEFINE Cleans == (\E r \in Runs : run[r].step = "clean" /\ run'[r] = NoRun)
                     /\ (\E d \in Days : IsGood(d))
           Left == \E d \in Days : IsGood(d)'
<1>1. ASSUME BackupInv, BackupNext, Cleans PROVE Left
  <2> USE DayFacts
  <2>1. PICK d \in Days : IsGood(d)
    BY <1>1
  <2>2. CASE UNCHANGED <<archive, checksum>>
    BY <2>1, <2>2 DEF IsGood
  <2>3. PICK r \in Runs : run[r].step = "clean" /\ run'[r] = NoRun
    BY <1>1
  <2>4. run[r] # NoRun /\ run[r].day \in Days
    BY <1>1, <2>3 DEF BackupInv, BackupTypeOK, RunState
  <2>5. \A q \in Runs \ {r} : run[q] = NoRun
    BY <1>1, <2>4, OneAtWork
  <2>6. ASSUME NEW q \in Runs, RunBackup(q), ~BackupFails(q), ~CleanupOld(q) PROVE FALSE
    <3>1. CASE q = r
      BY <2>3, <2>4, <2>6, <3>1
         DEF RunBackup, StartBackup, MakeDir, Vacuum, OpenArchive, CloseArchive, Hash, WriteChecksum, Step
    <3>2. CASE q # r
      <4>1. run[q] = NoRun
        BY <2>5, <3>2
      <4>2. StartBackup(q)
        BY <2>6, <4>1
           DEF RunBackup, StartBackup, MakeDir, Vacuum, OpenArchive, CloseArchive, Hash, WriteChecksum, Step
      <4>3. isRunning
        BY <1>1, <2>4 DEF BackupInv, OneRun
      <4> QED
        BY <4>2, <4>3 DEF StartBackup, MayStart
    <3> QED
      BY <3>1, <3>2
  <2>7. ASSUME NEW q \in Runs, CleanupOld(q) PROVE Left
    <3>1. q = r
      BY <2>5, <2>7 DEF CleanupOld, Step
    <3>2. PICK gone \in SUBSET {e \in Days : IsExpired(e)} :
            /\ archive'   = [e \in Days |-> IF e \in gone THEN NONE ELSE archive[e]]
            /\ checksum'  = [e \in Days |-> IF e \in gone THEN NONE ELSE checksum[e]]
      BY <2>7 DEF CleanupOld
    <3>3. IsGood(run[r].day)
      BY <1>1, <2>3, <2>4 DEF BackupInv, HoldsArchive, ConfirmedIsGood
    <3>4. ~IsExpired(run[r].day)
      <4>1. run[r].day \in {today - 1, today} /\ today \in Int
        BY <1>1, <2>4 DEF BackupInv, OneRun, BackupTypeOK
      <4>2. made[run[r].day] # NoDir =>
              made[run[r].day] \in Int /\ made[run[r].day] >= run[r].day
        BY <1>1, <2>4 DEF BackupInv, AgesKnown, BackupTypeOK
      <4> QED
        BY <2>4, <4>1, <4>2, RetentionAssumption DEF IsExpired
    <3>5. PICK e \in Days : e = run[r].day
      BY <2>4
    <3>6. archive'[e] = archive[e] /\ checksum'[e] = checksum[e]
      BY <3>2, <3>4, <3>5
    <3>7. IsGood(e)'
      BY <3>3, <3>5, <3>6 DEF IsGood
    <3> QED
      BY <3>7
  <2>8. \/ UNCHANGED <<archive, checksum>>
        \/ \E q \in Runs : RunBackup(q) /\ ~BackupFails(q)
    BY <1>1 DEF BackupNext, NextDay, ChangeDatabase, RestartBackup, BackupFails, Files
  <2> QED
    BY <2>2, <2>6, <2>7, <2>8
<1>2. BackupInv /\ [BackupNext]_backupVars => [Cleans => Left]_backupVars
  BY <1>1
<1>3. BackupSpec => []BackupInv
  BY BackupStarts, BackupInvariant, PTL DEF BackupSpec
<1> QED
  BY <1>2, <1>3, PTL DEF BackupSpec, LastBackupStays

-------------------------------------------------------------------------------
(* RateLimit                                                               *)

Promise == [until : Nat, emptied : Nat]

RateTypeOK ==
    /\ clock \in Nat \ {0}
    /\ bucket \in [Addresses -> [count : Nat, start : Nat]]
    /\ promised \in [Addresses -> Promise]

\* A promise is about the window that is there, or its time has come; when the
\* bucket was emptied since, the window that is there was opened later.
Outlook(p, b) ==
    /\ p.emptied <= clock
    /\ p.emptied # 0 => b = NoBucket \/ b.start >= p.emptied
    /\ p.emptied = 0 => \/ b # NoBucket /\ p.until = b.start + Window
                        \/ clock >= p.until /\ b = NoBucket

PromiseOf(a) == promised[a] # NoPromise => Outlook(promised[a], bucket[a])

RateInv == RateTypeOK /\ \A a \in Addresses : PromiseOf(a)

\* Dropping buckets leaves those as they are whose window is not over.
LEMMA GcFacts ==
    ASSUME NEW b \in [Addresses -> [count : Nat, start : Nat]]
    PROVE  /\ Gc(b) \in [Addresses -> [count : Nat, start : Nat]]
           /\ \A a \in Addresses : Gc(b)[a] = b[a] \/ (IsOver(b[a]) /\ Gc(b)[a] = NoBucket)
BY DEF Gc, NoBucket

\* What becomes of a promise.
LEMMA PromiseFacts ==
    ASSUME clock \in Nat, NEW p \in Promise
    PROVE  /\ NoPromise \in Promise
           /\ Settled(p) \in {p, NoPromise} /\ (clock >= p.until => Settled(p) = NoPromise)
           /\ \A b \in [count : Nat, start : Nat] :
                 /\ Told(p, b) \in Promise
                 /\ p # NoPromise => Told(p, b) = p
                 /\ p = NoPromise =>
                       Told(p, b).until = b.start + Window /\ Told(p, b).emptied = 0
           /\ Emptied(p) \in Promise /\ (p = NoPromise => Emptied(p) = NoPromise)
           /\ p # NoPromise => Emptied(p).emptied = clock
<1>1. Window \in Nat
  BY RateAssumption
<1> QED
  BY <1>1 DEF Promise, NoPromise, Settled, Told, Emptied

\* What is known of a promise stays true while the time goes on.
LEMMA OutlookLater ==
    ASSUME RateInv, NEW a \in Addresses, NEW b \in {bucket[a], NoBucket},
           b # bucket[a] => IsOver(bucket[a]), promised[a] # NoPromise
    PROVE  Outlook(promised[a], b)
<1>1. /\ Window \in Nat /\ clock \in Nat /\ bucket[a].start \in Nat
      /\ promised[a] \in Promise /\ Outlook(promised[a], bucket[a])
  BY RateAssumption DEF RateInv, RateTypeOK, PromiseOf
<1>2. CASE b = bucket[a]
  BY <1>1, <1>2
<1>3. CASE b # bucket[a]
  <2>1. b = NoBucket /\ clock - bucket[a].start >= Window
    BY <1>3 DEF IsOver
  <2> QED
    BY <1>1, <2>1 DEF Outlook, Promise
<1> QED
  BY <1>2, <1>3

LEMMA RateInvariant ==
    ASSUME RateInv, [RateNext]_rateVars
    PROVE  RateInv'
<1>0. /\ Window \in Nat \ {0} /\ Limit \in Nat /\ clock \in Nat \ {0}
      /\ bucket \in [Addresses -> [count : Nat, start : Nat]]
      /\ promised \in [Addresses -> Promise]
  BY RateAssumption DEF RateInv, RateTypeOK
<1>1. CASE Tick
  <2>1. clock' = clock + 1 /\ UNCHANGED <<bucket, promised>>
    BY <1>1 DEF Tick
  <2>2. ASSUME NEW a \in Addresses PROVE PromiseOf(a)'
    <3>1. promised[a] \in Promise /\ PromiseOf(a)
      BY <1>0 DEF RateInv
    <3> QED
      BY <1>0, <2>1, <3>1 DEF PromiseOf, Outlook, Promise
  <2> QED
    BY <1>0, <2>1, <2>2 DEF RateInv, RateTypeOK
<1>2. ASSUME NEW r \in Attempts, Check(r) PROVE RateInv'
  <2>1. UNCHANGED clock
    BY <1>2 DEF Check
  <2>2. PICK a \in Addresses :
          \/ /\ IsOver(bucket[a])
             /\ bucket' = Gc([bucket EXCEPT ![a] = [count |-> 1, start |-> clock]])
             /\ promised' = [promised EXCEPT ![a] = Settled(@)]
          \/ /\ ~IsOver(bucket[a])
             /\ bucket' = [bucket EXCEPT ![a] = CountOne(bucket[a])]
             /\ \/ UNCHANGED promised
                \/ promised' = [promised EXCEPT ![a] = Told(@, CountOne(bucket[a]))]
    BY <1>2 DEF Check
  <2>3. promised[a] \in Promise /\ PromiseOf(a)
    BY <1>0 DEF RateInv
  <2>4. CASE IsOver(bucket[a])
    <3> DEFINE b == [bucket EXCEPT ![a] = [count |-> 1, start |-> clock]]
    <3>1. /\ b \in [Addresses -> [count : Nat, start : Nat]]
          /\ \A c \in Addresses : c # a => b[c] = bucket[c]
          /\ b[a] = [count |-> 1, start |-> clock]
      BY <1>0
    <3>2. bucket' = Gc(b) /\ promised' = [promised EXCEPT ![a] = Settled(promised[a])]
      BY <2>2, <2>4
    <3> HIDE DEF b
    <3>3. /\ bucket' \in [Addresses -> [count : Nat, start : Nat]]
          /\ \A c \in Addresses : \/ bucket'[c] = b[c]
                                  \/ IsOver(b[c]) /\ bucket'[c] = NoBucket
      BY <3>1, <3>2, GcFacts
    <3>4. /\ promised' \in [Addresses -> Promise] /\ promised'[a] = Settled(promised[a])
          /\ \A c \in Addresses : c # a => promised'[c] = promised[c]
      BY <1>0, <2>3, <3>2, PromiseFacts
    <3>5. ASSUME NEW c \in Addresses, c # a PROVE PromiseOf(c)'
      <4>1. bucket'[c] \in {bucket[c], NoBucket} /\ (bucket'[c] # bucket[c] => IsOver(bucket[c]))
        BY <3>1, <3>3, <3>5
      <4>2. promised[c] # NoPromise => Outlook(promised[c], bucket'[c])
        BY <4>1, OutlookLater
      <4> QED
        BY <2>1, <3>4, <3>5, <4>2 DEF PromiseOf, Outlook
    <3>6. PromiseOf(a)'
      <4> SUFFICES ASSUME promised'[a] # NoPromise PROVE Outlook(promised[a], bucket[a])'
        BY DEF PromiseOf
      <4>1. promised'[a] = promised[a] /\ clock < promised[a].until /\ promised[a] # NoPromise
        BY <1>0, <2>3, <3>4, PromiseFacts DEF Promise
      <4>2. Outlook(promised[a], bucket[a])
        BY <2>3, <4>1 DEF PromiseOf
      <4>3. bucket[a].start \in Nat /\ (bucket[a] = NoBucket \/ clock - bucket[a].start >= Window)
        BY <1>0, <2>4 DEF IsOver
      <4>4. promised[a].emptied # 0
        BY <1>0, <2>3, <4>1, <4>2, <4>3 DEF Outlook, Promise
      <4>5. bucket'[a] = NoBucket \/ bucket'[a].start = clock
        BY <3>1, <3>3
      <4>6. promised[a].emptied <= clock
        BY <4>2 DEF Outlook
      <4> QED
        BY <2>1, <4>1, <4>4, <4>5, <4>6 DEF Outlook
    <3> QED
      BY <1>0, <2>1, <3>3, <3>4, <3>5, <3>6 DEF RateInv, RateTypeOK
  <2>5. CASE ~IsOver(bucket[a])
    <3> DEFINE b == CountOne(bucket[a])
    <3>1. /\ b \in [count : Nat, start : Nat] /\ b.start = bucket[a].start
          /\ b # NoBucket /\ bucket[a] # NoBucket
      BY <1>0, <2>5 DEF CountOne, NoBucket, IsOver
    <3>2. /\ bucket' = [bucket EXCEPT ![a] = b]
          /\ promised'[a] \in {promised[a], Told(promised[a], b)}
          /\ promised' = [promised EXCEPT ![a] = promised'[a]]
      BY <1>0, <2>2, <2>5
    <3> HIDE DEF b
    <3>3. /\ Told(promised[a], b) \in Promise
          /\ promised[a] # NoPromise => Told(promised[a], b) = promised[a]
          /\ promised[a] = NoPromise => /\ Told(promised[a], b).until = b.start + Window
                                        /\ Told(promised[a], b).emptied = 0
      BY <1>0, <2>3, <3>1, PromiseFacts
    <3>4. /\ bucket' \in [Addresses -> [count : Nat, start : Nat]] /\ bucket'[a] = b
          /\ promised' \in [Addresses -> Promise]
          /\ \A c \in Addresses : c # a => bucket'[c] = bucket[c] /\ promised'[c] = promised[c]
      BY <1>0, <2>3, <3>1, <3>2, <3>3
    <3>5. ASSUME NEW c \in Addresses, c # a PROVE PromiseOf(c)'
      <4>1. PromiseOf(c)
        BY DEF RateInv
      <4> QED
        BY <2>1, <3>4, <3>5, <4>1 DEF PromiseOf, Outlook
    <3>6. PromiseOf(a)'
      <4>1. CASE promised[a] = NoPromise
        <5>1. \/ promised'[a] = NoPromise
              \/ promised'[a].until = b.start + Window /\ promised'[a].emptied = 0
          BY <3>2, <3>3, <4>1
        <5> QED
          BY <1>0, <2>1, <3>1, <3>4, <5>1 DEF PromiseOf, Outlook
      <4>2. CASE promised[a] # NoPromise
        <5>1. promised'[a] = promised[a] /\ Outlook(promised[a], bucket[a])
          BY <2>3, <3>2, <3>3, <4>2 DEF PromiseOf
        <5> QED
          BY <2>1, <3>1, <3>4, <5>1 DEF PromiseOf, Outlook
      <4> QED
        BY <4>1, <4>2
    <3> QED
      BY <1>0, <2>1, <3>4, <3>5, <3>6 DEF RateInv, RateTypeOK
  <2> QED
    BY <2>4, <2>5
\* A bucket is emptied, by a success or a new start.
<1>3. ASSUME NEW c \in Addresses, bucket'[c] = NoBucket, promised'[c] = Emptied(promised[c]),
             UNCHANGED clock
      PROVE  PromiseOf(c)'
  <2>1. promised[c] \in Promise
    BY <1>0
  <2>2. CASE promised[c] = NoPromise
    BY <1>0, <1>3, <2>1, <2>2, PromiseFacts DEF PromiseOf
  <2>3. CASE promised[c] # NoPromise
    <3>1. promised'[c].emptied = clock
      BY <1>0, <1>3, <2>1, <2>3, PromiseFacts
    <3> QED
      BY <1>0, <1>3, <3>1 DEF PromiseOf, Outlook
  <2> QED
    BY <2>2, <2>3
<1>4. ASSUME NEW r \in Attempts, Succeed(r) PROVE RateInv'
  <2>1. UNCHANGED clock
    BY <1>4 DEF Succeed
  <2> DEFINE a == attempt[r]
  <2>2. /\ bucket' = [bucket EXCEPT ![a] = NoBucket]
        /\ promised' = [promised EXCEPT ![a] = Emptied(promised[a])]
    BY <1>4 DEF Succeed
  <2> HIDE DEF a
  <2>3. /\ bucket' \in [Addresses -> [count : Nat, start : Nat]]
        /\ promised' \in [Addresses -> Promise]
    <3>1. NoBucket \in [count : Nat, start : Nat]
      BY DEF NoBucket
    <3>2. a \in Addresses => Emptied(promised[a]) \in Promise
      BY <1>0, PromiseFacts
    <3> QED
      BY <1>0, <2>2, <3>1, <3>2
  <2>4. ASSUME NEW c \in Addresses PROVE PromiseOf(c)'
    <3>1. CASE c = a
      BY <1>0, <1>3, <2>1, <2>2, <3>1
    <3>2. CASE c # a
      <4>1. PromiseOf(c) /\ bucket'[c] = bucket[c] /\ promised'[c] = promised[c]
        BY <1>0, <2>2, <3>2 DEF RateInv
      <4> QED
        BY <2>1, <4>1 DEF PromiseOf, Outlook
    <3> QED
      BY <3>1, <3>2
  <2> QED
    BY <1>0, <2>1, <2>3, <2>4 DEF RateInv, RateTypeOK
<1>5. CASE RestartLimit
  <2>1. /\ bucket' = [a \in Addresses |-> NoBucket]
        /\ promised' = [a \in Addresses |-> Emptied(promised[a])]
        /\ UNCHANGED clock
    BY <1>5 DEF RestartLimit
  <2>2. bucket' \in [Addresses -> [count : Nat, start : Nat]]
    BY <2>1 DEF NoBucket
  <2>3. promised' \in [Addresses -> Promise]
    BY <1>0, <2>1, PromiseFacts
  <2>4. \A c \in Addresses : PromiseOf(c)'
    BY <1>3, <2>1
  <2> QED
    BY <1>0, <2>1, <2>2, <2>3, <2>4 DEF RateInv, RateTypeOK
<1>6. CASE UNCHANGED <<clock, bucket, promised>>
  BY <1>6 DEF RateInv, RateTypeOK, PromiseOf, Outlook
<1> QED
  BY <1>1, <1>2, <1>4, <1>5, <1>6 DEF RateNext, Fail, rateVars

(***************************************************************************)
(* When the time comes that the first refused user of an address was told, *)
(* only a window that was opened after the bucket was emptied (by a login  *)
(* that succeeded, or a new start of the server) can be in the way, for    *)
(* any number of addresses, attempts and buckets (rate-limit.ts, 36-65).   *)
(***************************************************************************)
THEOREM RateWaitKept == RateSpec => []WaitIsKept
<1>1. RateInit => RateInv
  BY DEF RateInit, RateInv, RateTypeOK, PromiseOf, NoBucket, NoPromise, Promise
<1>2. RateInv /\ [RateNext]_rateVars => RateInv'
  BY RateInvariant
<1>3. RateInv => WaitIsKept
  <2> SUFFICES ASSUME RateInv, NEW a \in Addresses, promised[a] # NoPromise,
                      clock >= promised[a].until
               PROVE  \/ IsOver(bucket[a])
                      \/ promised[a].emptied # 0 /\ bucket[a].start >= promised[a].emptied
    BY DEF WaitIsKept
  <2>1. /\ Outlook(promised[a], bucket[a]) /\ promised[a] \in Promise
        /\ clock \in Nat /\ Window \in Nat /\ bucket[a].start \in Nat
    BY RateAssumption DEF RateInv, RateTypeOK, PromiseOf
  <2> QED
    BY <2>1 DEF Outlook, IsOver, Promise
<1> QED
  BY <1>1, <1>2, <1>3, PTL DEF RateSpec

-------------------------------------------------------------------------------
(* BackupCli                                                               *)

Logs  == {NoLog} \cup [base : Nat, upTo : Nat]
Pair  == [main : Nat \cup {Gone}, wal : Logs]
Steps == {"idle", "locks", "copyMain", "copyWal", "clear", "putMain", "putWal"}

CliTypeOK ==
    /\ db \in Pair
    /\ copies \in [Names -> Pair]
    /\ alive \subseteq Roles
    /\ cli \in [op : {"none", "backup", "restore"}, step : Steps,
                from : Names \cup {Gone}, to : Names \cup {Gone}, role : SUBSET Roles]
    /\ commits \in Nat /\ overlap \in BOOLEAN

\* A main file that is gone has no log, and nobody has it open.
MainFirst ==
    /\ db.main = Gone => db.wal = NoLog /\ alive = {}
    /\ \A n \in Names : copies[n].main = Gone => copies[n] = Absent

\* What the command has found out when it comes to a step.
CliKnows ==
    /\ cli.step = "idle" <=> cli = NoCli
    /\ cli.step # "idle" => cli.op # "none" /\ cli.to \in Names
    /\ cli.step \notin {"idle", "locks"} => cli.role = {}
    /\ cli.step \in {"copyMain", "putWal"} => db.main # Gone
    /\ cli.step = "copyWal" => copies[cli.to].main # Gone
    /\ cli.op = "restore" =>
          cli.from \in Names /\ cli.from # cli.to /\ copies[cli.from] # Absent
    /\ cli.step \in {"clear", "putMain", "putWal"} => cli.op = "restore"

\* What holds beyond that while nobody starts behind its back.
CliAlone ==
    ~overlap /\ cli.step # "idle" =>
       /\ alive \subseteq cli.role
       /\ cli.step \in {"copyMain", "copyWal"} => before = Reads(db)
       /\ cli.step = "copyWal" => copies[cli.to].main = db.main
       /\ cli.step \in {"clear", "putMain", "putWal"} /\ before # Gone =>
             Reads(copies[cli.to]) = before
       /\ cli.step \in {"putMain", "putWal"} => db.wal = NoLog
       /\ cli.step = "putWal" => db.main = copies[cli.from].main

CliInv == CliTypeOK /\ MainFirst /\ CliKnows /\ CliAlone

LEMMA PairFacts ==
    /\ Gone \notin Nat /\ Broken \notin Nat /\ Broken # Gone
    /\ NoLog \in Logs /\ Absent \in Pair /\ Absent.main = Gone
    /\ NoLog.base = Gone
    /\ \A p \in Pair : p.wal \in Logs /\ p.main \in Nat \cup {Gone}
    /\ \A p \in Pair : p.wal # NoLog => p.wal.base \in Nat /\ p.wal.upTo \in Nat
    /\ \A p \in Pair, m \in Nat \cup {Gone} : [p EXCEPT !.main = m] \in Pair
    /\ \A p \in Pair, l \in Logs : [p EXCEPT !.wal = l] \in Pair
BY DEF Gone, Broken, NoLog, Logs, Absent, Pair

\* The pair is what its parts are.
LEMMA PairEqual ==
    \A p, q \in Pair : p.main = q.main /\ p.wal = q.wal => p = q
BY DEF Pair

LEMMA CliInvariant ==
    ASSUME CliInv, [CliNext]_cliVars
    PROVE  CliInv'
<1> USE PairFacts
<1>1. ASSUME NEW p \in Roles, OpenDatabase(p) PROVE CliInv'
  <2>1. db' \in Pair /\ db'.main # Gone /\ db'.wal = db.wal
        /\ (db.main # Gone => db' = db)
    BY <1>1 DEF OpenDatabase, CliInv, CliTypeOK, MainFirst, Pair
  <2>2. ~overlap' /\ cli.step # "idle" => ~overlap /\ p \in cli.role
    BY <1>1 DEF OpenDatabase, CliInv, CliKnows
  <2>3. CliTypeOK' /\ MainFirst'
    BY <1>1, <2>1 DEF OpenDatabase, CliInv, CliTypeOK, MainFirst
  <2>4. CliKnows'
    BY <1>1, <2>1 DEF OpenDatabase, CliInv, CliKnows
  <2>5. CliAlone'
    <3>1. ~overlap' /\ cli.step # "idle" => cli.step = "locks"
      BY <2>2 DEF CliInv, CliKnows
    <3> QED
      BY <1>1, <2>2, <3>1 DEF OpenDatabase, CliInv, CliAlone
  <2> QED
    BY <2>3, <2>4, <2>5 DEF CliInv
<1>2. ASSUME NEW p \in Roles, CloseDatabase(p) PROVE CliInv'
  BY <1>2 DEF CloseDatabase, CliInv, CliTypeOK, MainFirst, CliKnows, CliAlone, Reads
\* Who is alive has the database open: it is there, and nobody is alone with it.
<1>3. alive # {} => db.main # Gone
  BY DEF CliInv, MainFirst
<1>4. alive # {} /\ ~overlap /\ cli.step # "idle" => cli.step = "locks"
  BY DEF CliInv, CliKnows, CliAlone
<1>5. ASSUME alive # {}, db' \in Pair, db'.main # Gone, commits' \in Nat,
             UNCHANGED <<copies, alive, cli, overlap, before>>
      PROVE  CliInv'
  <2>1. CliTypeOK' /\ MainFirst' /\ CliKnows'
    BY <1>5 DEF CliInv, CliTypeOK, MainFirst, CliKnows
  <2>2. CliAlone'
    BY <1>4, <1>5 DEF CliInv, CliAlone
  <2> QED
    BY <2>1, <2>2 DEF CliInv
<1>6. CASE CommitRow
  <2>1. [base |-> db.main, upTo |-> commits + 1] \in Logs /\ commits + 1 \in Nat
    BY <1>3, <1>6 DEF CommitRow, CliInv, CliTypeOK, Logs
  <2>2. db' \in Pair /\ db'.main = db.main
    BY <1>6, <2>1 DEF CommitRow, CliInv, CliTypeOK, Pair
  <2> QED
    BY <1>3, <1>5, <1>6, <2>1, <2>2 DEF CommitRow
<1>7. CASE Checkpoint
  <2>1. Reads(db) \in Nat
    BY <1>7, <1>3 DEF Checkpoint, Reads, CliInv, CliTypeOK
  <2>2. db' \in Pair /\ db'.main # Gone
    BY <1>7, <2>1 DEF Checkpoint, Pair
  <2> QED
    BY <1>5, <1>7, <2>2 DEF Checkpoint, CliInv, CliTypeOK
<1>8. CASE BeginCli
  <2>1. /\ cli'.op \in {"backup", "restore"} /\ cli'.step = "locks" /\ cli'.role = Roles
        /\ cli'.to \in Free /\ cli'.from \in Names \cup {Gone}
        /\ cli'.op = "restore" => cli'.from \in Names \ Free
        /\ cli' \in [op : {"none", "backup", "restore"}, step : Steps,
                     from : Names \cup {Gone}, to : Names \cup {Gone}, role : SUBSET Roles]
    BY <1>8 DEF BeginCli, NoCli, Free, Steps
  <2>2. cli' # NoCli
    BY <2>1 DEF NoCli
  <2> QED
    BY <1>8, <2>1, <2>2 DEF BeginCli, CliInv, CliTypeOK, MainFirst, CliKnows, CliAlone, Free
<1>9. CASE CheckDatabaseLocks
  <2>1. PICK p \in cli.role :
          /\ p \notin alive
          /\ cli' = [cli EXCEPT !.role = @ \ {p},
                                !.step = IF cli.role # {p} THEN "locks"
                                         ELSE IF db.main # Gone THEN "copyMain" ELSE "clear"]
          /\ cli.role = {p} /\ db.main = Gone => cli.op = "restore"
    BY <1>9 DEF CheckDatabaseLocks, IsLocked
  <2>2. cli.step = "locks" /\ before' = Reads(db) /\ UNCHANGED <<db, copies, alive, commits, overlap>>
    BY <1>9 DEF CheckDatabaseLocks
  <2>3. /\ cli'.op = cli.op /\ cli'.from = cli.from /\ cli'.to = cli.to
        /\ cli'.role = cli.role \ {p}
        /\ \/ cli'.step = "locks"
           \/ cli'.step = "copyMain" /\ db.main # Gone /\ cli'.role = {}
           \/ cli'.step = "clear" /\ db.main = Gone /\ cli'.role = {} /\ cli.op = "restore"
        /\ cli' \in [op : {"none", "backup", "restore"}, step : Steps,
                     from : Names \cup {Gone}, to : Names \cup {Gone}, role : SUBSET Roles]
    BY <2>1 DEF CliInv, CliTypeOK, Steps
  <2>4. cli' # NoCli
    BY <2>3 DEF NoCli
  <2>5. CliTypeOK' /\ MainFirst' /\ CliKnows'
    BY <2>2, <2>3, <2>4 DEF CliInv, CliTypeOK, MainFirst, CliKnows
  <2>6. db.main = Gone => Reads(db) = Gone
    BY DEF CliInv, MainFirst, Reads
  <2>7. CliAlone'
    BY <2>1, <2>2, <2>3, <2>6 DEF CliInv, CliAlone, Reads
  <2> QED
    BY <2>5, <2>7 DEF CliInv
<1>10. CASE CopyMain
  <2> DEFINE pair == [copies[cli.to] EXCEPT !.main = db.main]
  <2>1. cli.step = "copyMain" /\ cli.to \in Names /\ db.main # Gone /\ cli.role = {}
    BY <1>10 DEF CopyMain, CliInv, CliKnows
  <2>2. pair \in Pair /\ pair.main = db.main
    BY <2>1 DEF CliInv, CliTypeOK, Pair
  <2>3. /\ copies' \in [Names -> Pair] /\ copies'[cli.to] = pair
        /\ \A n \in Names : n # cli.to => copies'[n] = copies[n]
    BY <1>10, <2>1, <2>2 DEF CopyMain, CliInv, CliTypeOK
  <2>4. /\ cli' \in [op : {"none", "backup", "restore"}, step : Steps,
                     from : Names \cup {Gone}, to : Names \cup {Gone}, role : SUBSET Roles]
        /\ cli'.step = "copyWal" /\ cli'.op = cli.op /\ cli'.from = cli.from /\ cli'.to = cli.to
        /\ cli'.role = cli.role /\ cli' # NoCli
    BY <1>10 DEF CopyMain, CliInv, CliTypeOK, Steps, NoCli
  <2> HIDE DEF pair
  <2>5. CliTypeOK' /\ MainFirst'
    BY <1>10, <2>1, <2>2, <2>3, <2>4 DEF CopyMain, Unchanged, CliInv, CliTypeOK, MainFirst
  <2>6. CliKnows'
    BY <1>10, <2>1, <2>2, <2>3, <2>4 DEF CopyMain, Unchanged, CliInv, CliKnows
  <2>7. CliAlone'
    BY <1>10, <2>1, <2>2, <2>3, <2>4 DEF CopyMain, Unchanged, CliInv, CliAlone, Reads
  <2> QED
    BY <2>5, <2>6, <2>7 DEF CliInv
<1>11. CASE CopyWal
  <2> DEFINE pair == [copies[cli.to] EXCEPT !.wal = db.wal]
  <2>1. cli.step = "copyWal" /\ cli.to \in Names /\ copies[cli.to].main # Gone /\ cli.role = {}
    BY <1>11 DEF CopyWal, CliInv, CliKnows
  <2>2. pair \in Pair /\ pair.main = copies[cli.to].main /\ pair.wal = db.wal
    BY <2>1 DEF CliInv, CliTypeOK, Pair
  <2>3. /\ copies' \in [Names -> Pair] /\ copies'[cli.to] = pair
        /\ \A n \in Names : n # cli.to => copies'[n] = copies[n]
    BY <1>11, <2>1, <2>2 DEF CopyWal, LogToCopy, CliInv, CliTypeOK
  <2>4. \/ cli' = NoCli
        \/ /\ cli' \in [op : {"none", "backup", "restore"}, step : Steps,
                        from : Names \cup {Gone}, to : Names \cup {Gone}, role : SUBSET Roles]
           /\ cli'.step = "clear" /\ cli'.op = cli.op /\ cli'.from = cli.from /\ cli'.to = cli.to
           /\ cli'.role = cli.role /\ cli' # NoCli /\ cli.op = "restore"
    <3>1. cli.op \in {"backup", "restore"}
      BY <2>1 DEF CliInv, CliTypeOK, CliKnows
    <3> QED
      BY <1>11, <3>1 DEF CopyWal, CliInv, CliTypeOK, Steps, NoCli
  <2>5. NoCli.step = "idle" /\ NoCli.op = "none"
        /\ NoCli \in [op : {"none", "backup", "restore"}, step : Steps,
                      from : Names \cup {Gone}, to : Names \cup {Gone}, role : SUBSET Roles]
    BY DEF NoCli, Steps
  <2> HIDE DEF pair
  <2>6. CliTypeOK' /\ MainFirst'
    BY <1>11, <2>1, <2>2, <2>3, <2>4, <2>5
       DEF CopyWal, Unchanged, CliInv, CliTypeOK, MainFirst
  <2>7. CliKnows'
    BY <1>11, <2>1, <2>2, <2>3, <2>4, <2>5 DEF CopyWal, Unchanged, CliInv, CliKnows
  <2>8. CliAlone'
    <3>1. ~overlap => pair = db /\ before = Reads(db)
      BY <2>1, <2>2, PairEqual DEF CliInv, CliAlone, CliTypeOK
    <3> QED
      BY <1>11, <2>1, <2>3, <2>4, <2>5, <3>1 DEF CopyWal, Unchanged, CliInv, CliAlone, Reads
  <2> QED
    BY <2>6, <2>7, <2>8 DEF CliInv
<1>12. CASE ClearSidecars
  <2>1. cli.step = "clear" /\ cli.op = "restore" /\ cli.role = {}
    BY <1>12 DEF ClearSidecars, CliInv, CliKnows
  <2>2. db' \in Pair /\ db'.main = db.main /\ db'.wal = NoLog
    BY <1>12 DEF ClearSidecars, ClearedLog, CliInv, CliTypeOK, Pair
  <2>3. /\ cli' \in [op : {"none", "backup", "restore"}, step : Steps,
                     from : Names \cup {Gone}, to : Names \cup {Gone}, role : SUBSET Roles]
        /\ cli'.step = "putMain" /\ cli'.op = cli.op /\ cli'.from = cli.from /\ cli'.to = cli.to
        /\ cli'.role = cli.role /\ cli' # NoCli
    BY <1>12 DEF ClearSidecars, CliInv, CliTypeOK, Steps, NoCli
  <2>4. CliTypeOK' /\ MainFirst' /\ CliKnows'
    BY <1>12, <2>1, <2>2, <2>3
       DEF ClearSidecars, Unchanged, CliInv, CliTypeOK, MainFirst, CliKnows
  <2>5. CliAlone'
    BY <1>12, <2>1, <2>2, <2>3 DEF ClearSidecars, Unchanged, CliInv, CliAlone, Reads
  <2> QED
    BY <2>4, <2>5 DEF CliInv
<1>13. CASE PutMain
  <2>1. /\ cli.step = "putMain" /\ cli.op = "restore" /\ cli.role = {}
        /\ cli.from \in Names /\ copies[cli.from].main # Gone
    BY <1>13 DEF PutMain, CliInv, CliKnows, MainFirst
  <2>2. db' \in Pair /\ db'.main = copies[cli.from].main /\ db'.wal = db.wal
    BY <1>13, <2>1 DEF PutMain, CliInv, CliTypeOK, Pair
  <2>3. \/ cli' = NoCli
        \/ /\ cli' \in [op : {"none", "backup", "restore"}, step : Steps,
                        from : Names \cup {Gone}, to : Names \cup {Gone}, role : SUBSET Roles]
           /\ cli'.step = "putWal" /\ cli'.op = cli.op /\ cli'.from = cli.from /\ cli'.to = cli.to
           /\ cli'.role = cli.role /\ cli' # NoCli
    BY <1>13 DEF PutMain, CliInv, CliTypeOK, Steps, NoCli
  <2>4. NoCli.step = "idle" /\ NoCli.op = "none"
        /\ NoCli \in [op : {"none", "backup", "restore"}, step : Steps,
                      from : Names \cup {Gone}, to : Names \cup {Gone}, role : SUBSET Roles]
    BY DEF NoCli, Steps
  <2>5. CliTypeOK' /\ MainFirst' /\ CliKnows'
    BY <1>13, <2>1, <2>2, <2>3, <2>4
       DEF PutMain, Unchanged, CliInv, CliTypeOK, MainFirst, CliKnows
  <2>6. CliAlone'
    BY <1>13, <2>1, <2>2, <2>3, <2>4 DEF PutMain, Unchanged, CliInv, CliAlone, Reads
  <2> QED
    BY <2>5, <2>6 DEF CliInv
\* The command ends and leaves a database that is there.
<1>14. ASSUME cli' = NoCli, UNCHANGED copies, Unchanged, db' \in Pair,
              db'.main = Gone => db'.wal = NoLog /\ alive = {}
       PROVE  CliInv'
  <2>1. NoCli.step = "idle" /\ NoCli.op = "none"
        /\ NoCli \in [op : {"none", "backup", "restore"}, step : Steps,
                      from : Names \cup {Gone}, to : Names \cup {Gone}, role : SUBSET Roles]
    BY DEF NoCli, Steps
  <2> QED
    BY <1>14, <2>1 DEF Unchanged, CliInv, CliTypeOK, MainFirst, CliKnows, CliAlone
<1>15. CASE PutWal
  <2>1. cli.op = "restore" /\ cli.from \in Names /\ copies[cli.from] \in Pair
    BY <1>15 DEF PutWal, CliInv, CliKnows, CliTypeOK
  <2>2. db' \in Pair /\ db'.main = db.main
    BY <1>15, <2>1 DEF PutWal, CliInv, CliTypeOK, Pair
  <2>3. db.main # Gone
    BY <1>15 DEF PutWal, CliInv, CliKnows
  <2> QED
    BY <1>14, <1>15, <2>2, <2>3 DEF PutWal
<1>16. CASE CliEnds
  BY <1>14, <1>16 DEF CliEnds, CliInv, CliTypeOK, MainFirst
<1>17. CASE UNCHANGED cliVars
  BY <1>17 DEF cliVars, CliInv, CliTypeOK, MainFirst, CliKnows, CliAlone, Reads
<1> QED
  BY <1>1, <1>2, <1>6, <1>7, <1>8, <1>9, <1>10, <1>11, <1>12, <1>13, <1>15, <1>16, <1>17
     DEF CliNext

LEMMA CliStarts == CliInit => CliInv
<1> SUFFICES ASSUME CliInit PROVE CliInv
  OBVIOUS
<1> USE PairFacts DEF CliInit
<1>1. NoCli.step = "idle" /\ NoCli.op = "none"
      /\ NoCli \in [op : {"none", "backup", "restore"}, step : Steps,
                    from : Names \cup {Gone}, to : Names \cup {Gone}, role : SUBSET Roles]
  BY DEF NoCli, Steps
<1>2. CliTypeOK /\ MainFirst
  BY <1>1 DEF CliTypeOK, MainFirst, Absent
<1>3. CliKnows /\ CliAlone
  BY <1>1 DEF CliKnows, CliAlone
<1> QED
  BY <1>2, <1>3 DEF CliInv

\* What sp-backup copies and puts back reads as its original, and the safety
\* copy as the database before the restore, unless a program was started after
\* its lock had been looked at; for any number of programs, copies and commits
\* (backup-cli.ts 42-56, 111-138; backup-cli-lib.ts 196-250).
THEOREM CliCopiesRead == CliSpec => CopiesReadAlike
<1> DEFINE A == ~overlap /\ ~overlap' /\ cli'.op \in {"none", cli.op} =>
          /\ cli.step = "copyWal" /\ copies' # copies => Reads(copies'[cli.to]) = Reads(db)
          /\ cli.op = "restore" /\ cli' = NoCli /\ db' # db =>
                Reads(db') = Reads(copies[cli.from])
          /\ cli.step \in {"clear", "putMain", "putWal"} /\ before # Gone =>
                Reads(copies[cli.to]) = before
<1>1. ASSUME CliInv, CliNext PROVE A
  <2> USE PairFacts
  <2> SUFFICES ASSUME ~overlap, ~overlap'
               PROVE  A
    OBVIOUS
  <2>1. cli.step = "copyWal" /\ copies' # copies => Reads(copies'[cli.to]) = Reads(db)
    <3> SUFFICES ASSUME cli.step = "copyWal", copies' # copies
                 PROVE  Reads(copies'[cli.to]) = Reads(db)
      OBVIOUS
    <3>1. CopyWal
      BY <1>1 DEF CliNext, OpenDatabase, CloseDatabase, CommitRow, Checkpoint, BeginCli,
                  CheckDatabaseLocks, CopyMain, ClearSidecars, PutMain, PutWal, CliEnds
    <3>2. cli.to \in Names /\ copies[cli.to].main = db.main
      BY <1>1 DEF CliInv, CliKnows, CliAlone
    <3>3. copies'[cli.to] \in Pair /\ copies'[cli.to].main = db.main /\ copies'[cli.to].wal = db.wal
      BY <1>1, <3>1, <3>2 DEF CopyWal, LogToCopy, CliInv, CliTypeOK, Pair
    <3> QED
      BY <3>3 DEF Reads
  <2>2. cli.op = "restore" /\ cli' = NoCli /\ db' # db => Reads(db') = Reads(copies[cli.from])
    <3> SUFFICES ASSUME cli.op = "restore", cli' = NoCli, db' # db
                 PROVE  Reads(db') = Reads(copies[cli.from])
      OBVIOUS
    <3>1. cli # NoCli
      BY DEF NoCli
    <3>2. PutMain \/ PutWal
      BY <1>1, <3>1
         DEF CliNext, OpenDatabase, CloseDatabase, CommitRow, Checkpoint, BeginCli,
             CheckDatabaseLocks, CopyMain, CopyWal, ClearSidecars, CliEnds, NoCli
    <3>3. cli.step # "idle" /\ cli.from \in Names /\ copies[cli.from] \in Pair /\ db \in Pair
      BY <1>1, <3>1 DEF CliInv, CliKnows, CliTypeOK
    <3>4. CASE PutMain
      <4>1. copies[cli.from].wal = NoLog
        BY <3>4, <3>1 DEF PutMain, NoCli
      <4>2. db'.main = copies[cli.from].main /\ db'.wal = NoLog
        BY <1>1, <3>3, <3>4 DEF PutMain, CliInv, CliAlone, Pair
      <4> QED
        BY <4>1, <4>2 DEF Reads
    <3>5. CASE PutWal
      <4>1. db'.main = copies[cli.from].main /\ db'.wal = copies[cli.from].wal
        BY <1>1, <3>3, <3>5 DEF PutWal, CliInv, CliAlone, Pair
      <4> QED
        BY <4>1 DEF Reads
    <3> QED
      BY <3>2, <3>4, <3>5
  <2>3. cli.step \in {"clear", "putMain", "putWal"} /\ before # Gone => Reads(copies[cli.to]) = before
    BY <1>1 DEF CliInv, CliAlone
  <2> QED
    BY <2>1, <2>2, <2>3
<1>2. CliInv /\ [CliNext]_cliVars => [A]_cliVars
  BY <1>1
<1>3. CliSpec => []CliInv
  BY CliStarts, CliInvariant, PTL DEF CliSpec
<1> QED
  BY <1>2, <1>3, PTL DEF CliSpec, CopiesReadAlike

-------------------------------------------------------------------------------
(* Autocomplete                                                            *)

\* Who edits nothing has marked nothing.
MarksFollowEdits == \A a \in Admins : edit[a] = NoEdit => Marked(a) = {}

\* Marks of a synchronisation are gone when it is; until something is written
\* they name the rows as they are called, and the nodes that were read are
\* those in use and more.
ReadsHold ==
    /\ sync.phase = "read" \/ sync.left = {}
    /\ sync.phase = "idle" => \A k \in Offered : term[k].seen = NoTerm
    /\ sync.phase \in {"read", "delete"} /\ ~sync.overtaken =>
          /\ \A k \in Offered : term[k].seen \in {NoTerm, k}
          /\ "nodes" \notin sync.left => node \subseteq sync.nodes

AutocompleteInv == AutocompleteTypeOK /\ MarksFollowEdits /\ ReadsHold

TermRows == [Keys -> Row \cup {NoTerm}]

LEMMA RowFacts ==
    /\ NoTerm \notin Keys /\ \A t \in Titles : Trim[t] \in Keys
    /\ \A b \in BOOLEAN : NewRow(b) \in Row /\ NewRow(b).seen = NoTerm /\ NewRow(b).target = {}
    /\ NoSync \in Sync /\ NoSync.phase = "idle" /\ NoSync.left = {} /\ ~NoSync.overtaken
    /\ NoEdit \in Edit /\ NoEdit.step = "idle"
BY TrimAssumption DEF NewRow, Row, NoSync, Sync, NoEdit, Edit

\* A row is marked as before, or not at all.
LEMMA MarksOnlyGo ==
    ASSUME AutocompleteInv, term' \in TermRows,
           \A k \in Keys : term'[k] # NoTerm =>
              \/ term'[k].target = {}
              \/ term[k] # NoTerm /\ term'[k].target \subseteq term[k].target
    PROVE  \A a \in Admins : /\ Marked(a)' \subseteq Marked(a)
                             /\ \A j, k \in Marked(a)' : j = k
<1>1. \A a \in Admins : Marked(a)' \subseteq Marked(a)
  BY DEF Marked, Offered
<1> QED
  BY <1>1 DEF AutocompleteInv, AutocompleteTypeOK

\* A synchronisation may go on with what it has read.
LEMMA StillHold ==
    ASSUME AutocompleteInv, UNCHANGED sync, node' \subseteq node,
           \A k \in Keys : term'[k] # NoTerm =>
              \/ term'[k].seen = NoTerm
              \/ term[k] # NoTerm /\ term'[k].seen = term[k].seen
    PROVE  ReadsHold'
BY DEF AutocompleteInv, ReadsHold, Offered

\* Once it has been overtaken it need not hold what it has read.
LEMMA Overtaken ==
    ASSUME AutocompleteInv, Overtake,
           sync.phase = "idle" => \A k \in Offered' : term'[k].seen = NoTerm
    PROVE  sync' \in Sync /\ ReadsHold'
<1>1. sync' \in Sync /\ sync'.phase = sync.phase /\ sync'.left = sync.left
      /\ (sync.phase # "idle" => sync'.overtaken)
  BY DEF Overtake, AutocompleteInv, AutocompleteTypeOK, Sync
<1> QED
  BY <1>1 DEF AutocompleteInv, ReadsHold

\* The end of an edit, whatever has become of the rows.
LEMMA EndEditFacts ==
    ASSUME AutocompleteInv, NEW a \in Admins, NEW terms \in TermRows, EndEdit(a, terms)
    PROVE  /\ term' \in TermRows /\ edit' \in [Admins -> Edit] /\ edit'[a] = NoEdit
           /\ \A b \in Admins : b # a => edit'[b] = edit[b]
           /\ \A k \in Keys : term'[k] # NoTerm =>
                 /\ terms[k] # NoTerm /\ terms[k] \in Row
                 /\ term'[k].seen = terms[k].seen /\ term'[k].target = terms[k].target \ {a}
           /\ Marked(a)' = {}
<1> USE RowFacts
<1>1. \A k \in Keys : terms[k] # NoTerm =>
         /\ terms[k] \in Row
         /\ [terms[k] EXCEPT !.target = @ \ {a}] \in Row
         /\ [terms[k] EXCEPT !.target = @ \ {a}].seen = terms[k].seen
         /\ [terms[k] EXCEPT !.target = @ \ {a}].target = terms[k].target \ {a}
  BY DEF TermRows, Row
<1>2. \A k \in Keys : term'[k] = IF terms[k] = NoTerm THEN NoTerm
                                 ELSE [terms[k] EXCEPT !.target = @ \ {a}]
  BY DEF EndEdit
<1>3. term' \in TermRows
  BY <1>1, <1>2 DEF EndEdit, TermRows
<1>4. \A k \in Keys : term'[k] # NoTerm =>
                 /\ terms[k] # NoTerm /\ terms[k] \in Row
                 /\ term'[k].seen = terms[k].seen /\ term'[k].target = terms[k].target \ {a}
  BY <1>1, <1>2
<1>5. /\ edit' \in [Admins -> Edit] /\ edit'[a] = NoEdit
      /\ \A b \in Admins : b # a => edit'[b] = edit[b]
  BY DEF EndEdit, AutocompleteInv, AutocompleteTypeOK
<1>6. Marked(a)' = {}
  BY <1>4 DEF Marked, Offered
<1> QED
  BY <1>3, <1>4, <1>5, <1>6

\* The same when no row moves: rows are left out, or new.
LEMMA EndEditInPlace ==
    ASSUME AutocompleteInv, NEW a \in Admins, NEW terms \in TermRows, EndEdit(a, terms),
           \A k \in Keys : terms[k] # NoTerm => terms[k] = term[k] \/ terms[k] = NewRow(TRUE)
    PROVE  /\ term' \in TermRows /\ edit' \in [Admins -> Edit]
           /\ \A k \in Keys : term'[k] # NoTerm =>
                 \/ term'[k].seen = NoTerm
                 \/ term[k] # NoTerm /\ term'[k].seen = term[k].seen
           /\ MarksFollowEdits'
           /\ \A b \in Admins : \A j, k \in Marked(b)' : j = k
<1> USE RowFacts
<1>0. /\ term' \in TermRows /\ edit' \in [Admins -> Edit] /\ edit'[a] = NoEdit
      /\ \A b \in Admins : b # a => edit'[b] = edit[b]
      /\ \A k \in Keys : term'[k] # NoTerm =>
            /\ terms[k] # NoTerm /\ term'[k].seen = terms[k].seen
            /\ term'[k].target = terms[k].target \ {a}
      /\ Marked(a)' = {}
  BY EndEditFacts
<1>1. \A k \in Keys : term'[k] # NoTerm =>
         /\ \/ term'[k].target = {}
            \/ term[k] # NoTerm /\ term'[k].target \subseteq term[k].target
         /\ \/ term'[k].seen = NoTerm
            \/ term[k] # NoTerm /\ term'[k].seen = term[k].seen
  <2> SUFFICES ASSUME NEW k \in Keys, term'[k] # NoTerm
               PROVE  /\ \/ term'[k].target = {}
                         \/ term[k] # NoTerm /\ term'[k].target \subseteq term[k].target
                      /\ \/ term'[k].seen = NoTerm
                         \/ term[k] # NoTerm /\ term'[k].seen = term[k].seen
    OBVIOUS
  <2>1. terms[k] # NoTerm /\ term'[k].seen = terms[k].seen /\ term'[k].target = terms[k].target \ {a}
    BY <1>0
  <2>2. CASE terms[k] = term[k]
    BY <2>1, <2>2
  <2>3. CASE terms[k] = NewRow(TRUE)
    BY <2>1, <2>3
  <2> QED
    BY <2>1, <2>2, <2>3
<1>2. \A b \in Admins : /\ Marked(b)' \subseteq Marked(b)
                        /\ \A j, k \in Marked(b)' : j = k
  BY <1>0, <1>1, MarksOnlyGo
<1>3. MarksFollowEdits'
  BY <1>0, <1>2 DEF MarksFollowEdits, AutocompleteInv
<1> QED
  BY <1>0, <1>1, <1>2, <1>3

\* A step that has nothing to do with edits, and marks nothing.
LEMMA NoEditStep ==
    ASSUME AutocompleteInv, UNCHANGED edit, node' \subseteq Titles, collecting' \subseteq Titles,
           term' \in TermRows, sync' \in Sync, ReadsHold',
           \A k \in Keys : term'[k] # NoTerm =>
              \/ term'[k].target = {}
              \/ term[k] # NoTerm /\ term'[k].target \subseteq term[k].target
    PROVE  AutocompleteInv'
<1>1. \A a \in Admins : /\ Marked(a)' \subseteq Marked(a)
                        /\ \A j, k \in Marked(a)' : j = k
  BY MarksOnlyGo
<1>2. MarksFollowEdits'
  BY <1>1 DEF MarksFollowEdits, AutocompleteInv
<1> QED
  BY <1>1, <1>2 DEF AutocompleteInv, AutocompleteTypeOK, TermRows

\* The marks of a synchronisation go with it.
LEMMA EndSyncStep ==
    ASSUME AutocompleteInv, NEW keys \in SUBSET Keys, EndSync(keys)
    PROVE  AutocompleteInv'
<1> USE RowFacts
<1>1. \A k \in Keys : term[k] # NoTerm =>
         /\ [term[k] EXCEPT !.seen = NoTerm] \in Row
         /\ [term[k] EXCEPT !.seen = NoTerm].seen = NoTerm
         /\ [term[k] EXCEPT !.seen = NoTerm].target = term[k].target
  BY DEF AutocompleteInv, AutocompleteTypeOK, Row
<1>2. \A k \in Keys : term'[k] = IF k \in keys /\ term[k] = NoTerm THEN NewRow(FALSE)
                                 ELSE IF term[k] = NoTerm THEN NoTerm
                                 ELSE [term[k] EXCEPT !.seen = NoTerm]
  BY DEF EndSync
<1>3. term' \in TermRows
  BY <1>1, <1>2 DEF EndSync, TermRows
<1>4. \A k \in Keys : term'[k] # NoTerm =>
         /\ term'[k].seen = NoTerm
         /\ \/ term'[k].target = {}
            \/ term[k] # NoTerm /\ term'[k].target \subseteq term[k].target
  BY <1>1, <1>2
<1>5. sync' \in Sync /\ ReadsHold'
  BY <1>4 DEF EndSync, ReadsHold, Offered
<1> QED
  BY <1>3, <1>4, <1>5, NoEditStep DEF EndSync, AutocompleteInv, AutocompleteTypeOK

\* One row of the fallback.
LEMMA NextRowStep ==
    ASSUME AutocompleteInv, NEW t \in Titles, NEW keys \in SUBSET Keys,
           sync.phase = "rows", NextRow(t, keys)
    PROVE  AutocompleteInv'
<1> USE RowFacts
<1>1. CASE sync.rows = {t}
  BY <1>1, EndSyncStep DEF NextRow
<1>2. CASE sync.rows # {t}
  <2>1. \A k \in Keys : term'[k] = IF k \in keys /\ term[k] = NoTerm THEN NewRow(FALSE) ELSE term[k]
    BY <1>2 DEF NextRow
  <2>2. term' \in TermRows
    BY <1>2, <2>1 DEF NextRow, TermRows, AutocompleteInv, AutocompleteTypeOK
  <2>3. sync' \in Sync /\ sync'.phase = "rows" /\ sync'.left = {}
    BY <1>2 DEF NextRow, Sync, AutocompleteInv, AutocompleteTypeOK, ReadsHold
  <2>4. ReadsHold'
    BY <2>3 DEF ReadsHold
  <2>5. \A k \in Keys : term'[k] # NoTerm =>
           \/ term'[k].target = {}
           \/ term[k] # NoTerm /\ term'[k].target \subseteq term[k].target
    BY <2>1
  <2> QED
    BY <1>2, <2>2, <2>3, <2>4, <2>5, NoEditStep DEF NextRow, AutocompleteInv, AutocompleteTypeOK
<1> QED
  BY <1>1, <1>2

LEMMA AutocompleteInvariant ==
    ASSUME AutocompleteInv, [AutocompleteNext]_autocompleteVars
    PROVE  AutocompleteInv'
<1> USE RowFacts
<1>0. /\ node \subseteq Titles /\ collecting \subseteq Titles /\ sync \in Sync
      /\ term \in TermRows /\ edit \in [Admins -> Edit]
      /\ \A k \in Keys : term[k] # NoTerm => term[k] \in Row
  BY DEF AutocompleteInv, AutocompleteTypeOK, TermRows
<1>1. CASE AddNode
  <2>1. sync' \in Sync /\ ReadsHold'
    BY <1>1, Overtaken DEF AddNode, Offered, AutocompleteInv, ReadsHold
  <2> QED
    BY <1>0, <1>1, <2>1, NoEditStep DEF AddNode
<1>2. CASE DropNode
  <2>1. ReadsHold'
    BY <1>2, StillHold DEF DropNode
  <2> QED
    BY <1>0, <1>2, <2>1, NoEditStep DEF DropNode
<1>3. ASSUME NEW t \in Titles, Collect(t) PROVE AutocompleteInv'
  <2>1. term' \in TermRows /\ \A k \in Keys : term'[k] \in {term[k], NewRow(FALSE)}
    <3>1. CASE UNCHANGED term
      BY <1>0, <3>1
    <3>2. CASE term' = [term EXCEPT ![Trim[t]] = IF @ = NoTerm THEN NewRow(FALSE) ELSE @]
      BY <1>0, <3>2 DEF TermRows
    <3> QED
      BY <1>3, <3>1, <3>2 DEF Collect
  <2>2. \A k \in Keys : term'[k] # NoTerm =>
           /\ \/ term'[k].seen = NoTerm
              \/ term[k] # NoTerm /\ term'[k].seen = term[k].seen
           /\ \/ term'[k].target = {}
              \/ term[k] # NoTerm /\ term'[k].target \subseteq term[k].target
    BY <2>1
  <2>3. ReadsHold'
    BY <1>3, <2>2, StillHold DEF Collect
  <2> QED
    BY <1>0, <1>3, <2>1, <2>2, <2>3, NoEditStep DEF Collect
<1>4. ASSUME NEW t \in Titles, InsertRow(t) \/ RowFails(t) PROVE AutocompleteInv'
  <2>1. sync.phase = "rows" /\ (NextRow(t, {Trim[t]}) \/ NextRow(t, {}))
    BY <1>4 DEF InsertRow, RowFails
  <2>2. {Trim[t]} \in SUBSET Keys /\ {} \in SUBSET Keys
    OBVIOUS
  <2> QED
    BY <2>1, <2>2, NextRowStep
\* A step of an edit that writes no row.
<1>5. ASSUME NEW a \in Admins, NEW new \in Edit, edit[a] # NoEdit \/ Marked(a) = {}, new # NoEdit,
             edit' = [edit EXCEPT ![a] = new], UNCHANGED <<node, collecting, term, sync>>
      PROVE  AutocompleteInv'
  <2>1. edit' \in [Admins -> Edit] /\ \A b \in Admins : edit'[b] = NoEdit => edit[b] = NoEdit
    BY <1>0, <1>5
  <2> QED
    BY <1>5, <2>1
       DEF AutocompleteInv, AutocompleteTypeOK, MarksFollowEdits, ReadsHold, Marked, Offered
<1>6. ASSUME NEW a \in Admins, CreateAdminTerm(a) PROVE AutocompleteInv'
  <2>1. PICK k \in Keys : edit' = [edit EXCEPT ![a] = [step |-> "write", op |-> "create", key |-> k]]
    BY <1>6 DEF CreateAdminTerm
  <2>2. [step |-> "write", op |-> "create", key |-> k] \in Edit
        /\ [step |-> "write", op |-> "create", key |-> k] # NoEdit
    BY DEF Edit, NoEdit
  <2>3. Marked(a) = {}
    BY <1>6 DEF CreateAdminTerm, AutocompleteInv, MarksFollowEdits
  <2> QED
    BY <1>5, <1>6, <2>1, <2>2, <2>3 DEF CreateAdminTerm
<1>7. ASSUME NEW a \in Admins, FindTerm(a) PROVE AutocompleteInv'
  <2>1. PICK k \in Offered, new \in Edit :
          /\ new # NoEdit /\ edit' = [edit EXCEPT ![a] = new]
          /\ term' = [term EXCEPT ![k].target = @ \cup {a}]
    BY <1>7 DEF FindTerm, Edit, NoEdit
  <2>2. Marked(a) = {} /\ UNCHANGED <<node, collecting, sync>>
    BY <1>7 DEF FindTerm, AutocompleteInv, MarksFollowEdits
  <2>3. k \in Keys /\ term[k] \in Row
    BY <1>0 DEF Offered
  <2>4. /\ term' \in TermRows
        /\ \A j \in Keys : j # k => term'[j] = term[j]
        /\ term'[k] \in Row /\ term'[k].seen = term[k].seen /\ term'[k].target = term[k].target \cup {a}
    BY <1>0, <2>1, <2>3 DEF TermRows, Row
  <2>5. ReadsHold'
    BY <2>1, <2>2, <2>4, StillHold DEF Offered
  <2>6. edit' \in [Admins -> Edit] /\ \A b \in Admins : edit'[b] = NoEdit => b # a /\ edit[b] = NoEdit
    BY <1>0, <2>1
  <2>7. Marked(a)' \subseteq {k} /\ \A b \in Admins : b # a => Marked(b)' \subseteq Marked(b)
    BY <2>1, <2>2, <2>4 DEF Marked, Offered
  <2>8. MarksFollowEdits'
    BY <2>6, <2>7 DEF AutocompleteInv, MarksFollowEdits
  <2>9. \A b \in Admins : \A i, j \in Marked(b)' : i = j
    BY <2>7 DEF AutocompleteInv, AutocompleteTypeOK
  <2> QED
    BY <1>0, <2>2, <2>4, <2>5, <2>6, <2>8, <2>9
       DEF AutocompleteInv, AutocompleteTypeOK, TermRows
<1>8. ASSUME NEW a \in Admins, FindDuplicate(a) PROVE AutocompleteInv'
  <2> DEFINE new == [edit[a] EXCEPT !.step = "write"]
  <2>1. new \in Edit /\ new # NoEdit /\ edit' = [edit EXCEPT ![a] = new]
    BY <1>0, <1>8 DEF FindDuplicate, Edit, NoEdit
  <2>2. edit[a] # NoEdit
    BY <1>8 DEF FindDuplicate
  <2> QED
    BY <1>5, <1>8, <2>1, <2>2 DEF FindDuplicate
<1>9. ASSUME NEW a \in Admins, InsertTerm(a) PROVE AutocompleteInv'
  <2> DEFINE terms == [term EXCEPT ![edit[a].key] = NewRow(TRUE)]
  <2>1. terms \in TermRows /\ \A k \in Keys : terms[k] \in {term[k], NewRow(TRUE)}
    BY <1>0 DEF TermRows
  <2> HIDE DEF terms
  <2>2. EndEdit(a, terms) /\ Overtake /\ UNCHANGED <<node, collecting>>
    BY <1>9 DEF InsertTerm, EndEdit, terms
  <2>3. /\ term' \in TermRows /\ edit' \in [Admins -> Edit]
        /\ \A k \in Keys : term'[k] # NoTerm =>
              \/ term'[k].seen = NoTerm
              \/ term[k] # NoTerm /\ term'[k].seen = term[k].seen
        /\ MarksFollowEdits'
        /\ \A b \in Admins : \A j, k \in Marked(b)' : j = k
    BY <2>1, <2>2, EndEditInPlace
  <2>4. sync.phase = "idle" => \A k \in Offered' : term'[k].seen = NoTerm
    BY <2>3 DEF AutocompleteInv, ReadsHold, Offered
  <2>5. sync' \in Sync /\ ReadsHold'
    BY <2>2, <2>4, Overtaken
  <2> QED
    BY <1>0, <2>2, <2>3, <2>5 DEF AutocompleteInv, AutocompleteTypeOK, TermRows
<1>10. ASSUME NEW a \in Admins, RenameTerm(a) PROVE AutocompleteInv'
  <2>1. PICK k \in Marked(a) :
          /\ edit[a].key \in (Keys \ Offered) \cup {k}
          /\ EndEdit(a, [[term EXCEPT ![k] = NoTerm] EXCEPT ![edit[a].key] = term[k]])
    BY <1>10 DEF RenameTerm
  <2> DEFINE key == edit[a].key
             terms == [[term EXCEPT ![k] = NoTerm] EXCEPT ![key] = term[k]]
  <2>2. k \in Offered /\ k \in Keys /\ key \in Keys /\ (key = k \/ term[key] = NoTerm)
    BY <2>1 DEF Marked, Offered
  <2>3. /\ terms \in TermRows /\ terms[key] = term[k]
        /\ \A j \in Keys : j # key => terms[j] = IF j = k THEN NoTerm ELSE term[j]
    BY <1>0, <2>2 DEF TermRows
  <2> HIDE DEF terms, key
  <2>4. EndEdit(a, terms) /\ Overtake /\ UNCHANGED <<node, collecting>>
    BY <1>10, <2>1 DEF RenameTerm, EndEdit, terms, key
  <2>5. /\ term' \in TermRows /\ edit' \in [Admins -> Edit] /\ edit'[a] = NoEdit
        /\ \A b \in Admins : b # a => edit'[b] = edit[b]
        /\ \A j \in Keys : term'[j] # NoTerm =>
              /\ terms[j] # NoTerm /\ terms[j] \in Row
              /\ term'[j].seen = terms[j].seen /\ term'[j].target = terms[j].target \ {a}
        /\ Marked(a)' = {}
    BY <2>3, <2>4, EndEditFacts
  <2>6. \A b \in Admins : \A j \in Marked(b)' :
           (j = key /\ k \in Marked(b)) \/ (j # key /\ j # k /\ j \in Marked(b))
    <3> SUFFICES ASSUME NEW b \in Admins, NEW j \in Marked(b)'
                 PROVE  (j = key /\ k \in Marked(b)) \/ (j # key /\ j # k /\ j \in Marked(b))
      OBVIOUS
    <3>1. /\ j \in Keys /\ terms[j] # NoTerm /\ b \in terms[j].target
      BY <2>5 DEF Marked, Offered
    <3>2. CASE j = key
      <4>1. terms[j] = term[k]
        BY <2>3, <3>2
      <4>2. b \in term[k].target
        BY <3>1, <4>1
      <4>3. k \in Marked(b)
        BY <2>2, <4>2 DEF Marked
      <4> QED
        BY <3>2, <4>3
    <3>3. CASE j # key
      BY <2>3, <3>1, <3>3 DEF Marked, Offered
    <3> QED
      BY <3>2, <3>3
  <2>7. \A b \in Admins : \A i, j \in Marked(b)' : i = j
    BY <2>6 DEF AutocompleteInv, AutocompleteTypeOK
  <2>8. MarksFollowEdits'
    BY <2>5, <2>6 DEF MarksFollowEdits, AutocompleteInv
  <2>9. sync.phase = "idle" => \A j \in Offered' : term'[j].seen = NoTerm
    BY <2>2, <2>3, <2>5 DEF AutocompleteInv, ReadsHold, Offered
  <2>10. sync' \in Sync /\ ReadsHold'
    BY <2>4, <2>9, Overtaken
  <2> QED
    BY <1>0, <2>4, <2>5, <2>7, <2>8, <2>10 DEF AutocompleteInv, AutocompleteTypeOK, TermRows
<1>11. ASSUME NEW a \in Admins, DeleteTerm(a) \/ EditFails(a) PROVE AutocompleteInv'
  <2>1. PICK terms \in TermRows :
          /\ \A k \in Keys : terms[k] # NoTerm => terms[k] = term[k]
          /\ EndEdit(a, terms)
    <3>1. \A k \in Keys : [term EXCEPT ![k] = NoTerm] \in TermRows
          /\ \A j \in Keys : [term EXCEPT ![k] = NoTerm][j] # NoTerm =>
                                [term EXCEPT ![k] = NoTerm][j] = term[j]
      BY <1>0 DEF TermRows
    <3>2. CASE DeleteTerm(a)
      BY <3>1, <3>2 DEF DeleteTerm, Marked, Offered
    <3>3. CASE EditFails(a)
      BY <1>0, <3>3 DEF EditFails
    <3> QED
      BY <1>11, <3>2, <3>3
  <2>2. UNCHANGED <<node, collecting, sync>>
    BY <1>11 DEF DeleteTerm, EditFails, EndEdit
  <2>3. /\ term' \in TermRows /\ edit' \in [Admins -> Edit]
        /\ \A k \in Keys : term'[k] # NoTerm =>
              \/ term'[k].seen = NoTerm
              \/ term[k] # NoTerm /\ term'[k].seen = term[k].seen
        /\ MarksFollowEdits'
        /\ \A b \in Admins : \A j, k \in Marked(b)' : j = k
    BY <2>1, EndEditInPlace
  <2>4. ReadsHold'
    BY <2>2, <2>3, StillHold
  <2> QED
    BY <1>0, <2>2, <2>3, <2>4 DEF AutocompleteInv, AutocompleteTypeOK, TermRows
<1>12. CASE StartSync
  <2>1. sync' \in Sync /\ sync'.phase = "read" /\ sync'.left = {"terms", "nodes"}
    BY <1>12 DEF StartSync, NoSync, Sync
  <2>2. ReadsHold'
    BY <1>12, <2>1 DEF StartSync, AutocompleteInv, ReadsHold, Offered
  <2> QED
    BY <1>0, <1>12, <2>1, <2>2, NoEditStep DEF StartSync
<1>13. CASE ReadTerms
  <2>1. sync.phase = "read" /\ "terms" \in sync.left
    BY <1>13 DEF ReadTerms, AutocompleteInv, ReadsHold
  <2>2. /\ sync' \in Sync /\ sync'.left = sync.left \ {"terms"} /\ sync'.nodes = sync.nodes
        /\ sync'.phase \in {"read", "delete"} /\ sync'.overtaken = sync.overtaken
        /\ (sync'.phase = "read" \/ sync'.left = {})
    BY <1>0, <1>13, <2>1 DEF ReadTerms, Read, Sync, Offered
  <2>3. \A k \in Keys : term'[k] = IF term[k] = NoTerm THEN NoTerm ELSE [term[k] EXCEPT !.seen = k]
    BY <1>13 DEF ReadTerms
  <2>4. \A k \in Keys : term[k] # NoTerm =>
           /\ [term[k] EXCEPT !.seen = k] \in Row /\ [term[k] EXCEPT !.seen = k].seen = k
           /\ [term[k] EXCEPT !.seen = k].target = term[k].target
    BY <1>0 DEF Row
  <2>5. term' \in TermRows
    BY <1>13, <2>3, <2>4 DEF ReadTerms, TermRows
  <2>6. \A k \in Keys : term'[k] # NoTerm =>
           term[k] # NoTerm /\ term'[k].seen = k /\ term'[k].target = term[k].target
    BY <2>3, <2>4
  <2>7. ReadsHold'
    BY <1>13, <2>1, <2>2, <2>6 DEF ReadTerms, AutocompleteInv, ReadsHold, Offered
  <2> QED
    BY <1>0, <1>13, <2>2, <2>5, <2>6, <2>7, NoEditStep DEF ReadTerms
<1>14. CASE ReadNodes
  <2>1. sync.phase = "read" /\ "nodes" \in sync.left
    BY <1>14 DEF ReadNodes, AutocompleteInv, ReadsHold
  <2>2. /\ sync' \in Sync /\ sync'.left = sync.left \ {"nodes"} /\ sync'.nodes = node
        /\ sync'.phase \in {"read", "delete"} /\ sync'.overtaken = sync.overtaken
        /\ (sync'.phase = "read" \/ sync'.left = {})
    BY <1>0, <1>14, <2>1 DEF ReadNodes, Read, Sync
  <2>3. ReadsHold'
    BY <1>14, <2>1, <2>2 DEF ReadNodes, AutocompleteInv, ReadsHold, Offered
  <2> QED
    BY <1>0, <1>14, <2>2, <2>3, NoEditStep DEF ReadNodes
<1>15. CASE DeleteStale
  <2>1. sync' \in Sync /\ sync'.phase = "insert" /\ sync'.left = {}
    BY <1>0, <1>15 DEF DeleteStale, Sync, AutocompleteInv, ReadsHold
  <2>2. term' \in TermRows /\ \A k \in Keys : term'[k] # NoTerm => term'[k] = term[k]
    BY <1>0, <1>15 DEF DeleteStale, TermRows
  <2>3. ReadsHold'
    BY <2>1 DEF ReadsHold
  <2> QED
    BY <1>0, <1>15, <2>1, <2>2, <2>3, NoEditStep DEF DeleteStale
<1>16. CASE InsertMissing
  <2>1. PICK missing \in SUBSET Titles : EndSync({Trim[t] : t \in missing}) \/ FallBack(missing)
    BY <1>0, <1>16 DEF InsertMissing, Sync
  <2>2. CASE EndSync({Trim[t] : t \in missing})
    <3>1. {Trim[t] : t \in missing} \in SUBSET Keys
      BY <2>1
    <3> QED
      BY <2>2, <3>1, EndSyncStep
  <2>3. CASE FallBack(missing)
    <3>1. sync' \in Sync /\ sync'.phase = "rows" /\ sync'.left = {}
      BY <1>0, <1>16, <2>3 DEF FallBack, InsertMissing, Sync, AutocompleteInv, ReadsHold
    <3>2. ReadsHold'
      BY <3>1 DEF ReadsHold
    <3> QED
      BY <1>0, <2>3, <3>1, <3>2, NoEditStep DEF FallBack
  <2> QED
    BY <2>1, <2>2, <2>3
<1>17. CASE SyncFails
  BY <1>17, EndSyncStep DEF SyncFails, ResetSyncing
<1>18. CASE RestartAutocomplete
  <2>1. \A k \in Keys : term'[k] = IF term[k] = NoTerm THEN NoTerm ELSE NewRow(term[k].system)
    BY <1>18 DEF RestartAutocomplete
  <2>2. \A k \in Keys : term[k] # NoTerm => term[k].system \in BOOLEAN
    BY <1>0 DEF Row
  <2>3. term' \in TermRows /\ \A k \in Keys : term'[k] # NoTerm =>
                                 term'[k].seen = NoTerm /\ term'[k].target = {}
    BY <1>18, <2>1, <2>2 DEF RestartAutocomplete, TermRows
  <2>4. sync' \in Sync /\ ReadsHold'
    BY <1>18, <2>3 DEF RestartAutocomplete, ReadsHold, Offered
  <2>5. edit' \in [Admins -> Edit]
    BY <1>18 DEF RestartAutocomplete
  <2>6. \A a \in Admins : Marked(a)' = {}
    BY <2>3 DEF Marked, Offered
  <2>7. node' \subseteq Titles /\ collecting' \subseteq Titles
    BY <1>0, <1>18 DEF RestartAutocomplete
  <2> QED
    BY <2>3, <2>4, <2>5, <2>6, <2>7
       DEF AutocompleteInv, AutocompleteTypeOK, MarksFollowEdits, TermRows
<1>19. CASE UNCHANGED autocompleteVars
  BY <1>19 DEF autocompleteVars, AutocompleteInv, AutocompleteTypeOK, MarksFollowEdits,
               ReadsHold, Marked, Offered
<1> QED
  BY <1>1, <1>2, <1>3, <1>4, <1>6, <1>7, <1>8, <1>9, <1>10, <1>11, <1>12, <1>13, <1>14,
     <1>15, <1>16, <1>17, <1>18, <1>19
     DEF AutocompleteNext, EditTerm

LEMMA AutocompleteStarts == AutocompleteInit => AutocompleteInv
BY RowFacts DEF AutocompleteInit, AutocompleteInv, AutocompleteTypeOK, MarksFollowEdits,
                ReadsHold, Marked, Offered

LEMMA AutocompleteAlways == AutocompleteSpec => []AutocompleteInv
BY AutocompleteStarts, AutocompleteInvariant, PTL DEF AutocompleteSpec

\* Rows, edits and the synchronisation are well formed, and an edit marks one
\* row at most, whatever interleaves.
THEOREM AutocompleteTyped == AutocompleteSpec => []AutocompleteTypeOK
<1>1. AutocompleteInv => AutocompleteTypeOK
  BY DEF AutocompleteInv
<1> QED
  BY <1>1, AutocompleteAlways, PTL

\* What the synchronisation deletes by the ids that it has read is no term of
\* an administrator, and no title in use unless a node or a term was written
\* since it began to read; for any number of titles, terms and administrators
\* (autocomplete.service.ts 345-358).
THEOREM SyncSpares == AutocompleteSpec => SyncSparesUsed
<1> DEFINE A == sync.phase = "delete" /\ sync'.phase = "insert" =>
                   \A k \in Offered : term'[k] = NoTerm =>
                      ~term[k].system /\ (k \in Used => sync.overtaken)
<1>1. ASSUME AutocompleteInv, AutocompleteNext PROVE A
  <2> USE RowFacts
  <2> SUFFICES ASSUME sync.phase = "delete", sync'.phase = "insert",
                      NEW k \in Offered, term'[k] = NoTerm
               PROVE  ~term[k].system /\ (k \in Used => sync.overtaken)
    OBVIOUS
  <2>1. DeleteStale
    <3>1. ~Overtake /\ sync' # sync /\ sync' # NoSync
      BY <1>1 DEF Overtake, AutocompleteInv, AutocompleteTypeOK, Sync
    <3>2. ASSUME NEW t \in Titles PROVE ~Collect(t) /\ ~InsertRow(t) /\ ~RowFails(t)
      BY <3>1 DEF Collect, InsertRow, RowFails
    <3>3. ASSUME NEW a \in Admins PROVE ~EditTerm(a)
      BY <3>1 DEF EditTerm, CreateAdminTerm, FindTerm, FindDuplicate, InsertTerm, RenameTerm,
                  DeleteTerm, EditFails
    <3>4. ~ReadTerms /\ ~ReadNodes
      BY <1>1 DEF ReadTerms, ReadNodes, AutocompleteInv, ReadsHold
    <3>5. ~AddNode /\ ~DropNode /\ ~StartSync /\ ~InsertMissing /\ ~SyncFails
          /\ ~RestartAutocomplete
      BY <3>1 DEF AddNode, DropNode, StartSync, InsertMissing, SyncFails, ResetSyncing, EndSync,
                  RestartAutocomplete
    <3> QED
      BY <1>1, <3>2, <3>3, <3>4, <3>5 DEF AutocompleteNext
  <2>2. k \in Keys /\ term[k] # NoTerm
    BY DEF Offered
  <2>3. IsStale(term[k])
    BY <1>1, <2>1, <2>2 DEF DeleteStale
  <2>4. ASSUME k \in Used, ~sync.overtaken PROVE FALSE
    <3>1. PICK t \in node : Trim[t] = k
      BY <2>4 DEF Used
    <3>2. term[k].seen = k /\ t \in sync.nodes
      BY <1>1, <2>3, <2>4 DEF IsStale, AutocompleteInv, ReadsHold
    <3> QED
      BY <2>3, <3>1, <3>2 DEF IsStale
  <2> QED
    BY <2>3, <2>4, <1>1, <2>2
       DEF IsStale, AutocompleteInv, AutocompleteTypeOK, Sync
<1>2. AutocompleteInv /\ [AutocompleteNext]_autocompleteVars => [A]_autocompleteVars
  BY <1>1
<1> QED
  BY <1>2, AutocompleteAlways, PTL DEF AutocompleteSpec, SyncSparesUsed
-------------------------------------------------------------------------------
(* Progress: what is needed of numbers, finite sets and sums               *)

\* Induction, for a set of numbers.
LEMMA AllNumbers ==
    ASSUME NEW S, 0 \in S, \A n \in Nat : n \in S => n + 1 \in S
    PROVE  Nat \subseteq S
<1> SUFFICES ASSUME Nat \ S # {} PROVE FALSE
  OBVIOUS
<1> DEFINE Others == Nat \ S
<1>1. Others \subseteq Nat /\ Others # {}
  OBVIOUS
<1> HIDE DEF Others
<1>2. PICK n \in Others : \A m \in Others : ~(<<m, n>> \in OpToRel(<, Nat))
  BY <1>1, NatLessThanWellFounded, WFMin
<1> USE DEF Others
<1>3. \A m \in Others : ~(m < n)
  BY <1>2 DEF OpToRel
<1>4. n # 0 /\ n \in Nat
  OBVIOUS
<1>5. n - 1 \in Nat /\ n - 1 < n /\ (n - 1) + 1 = n
  BY <1>4
<1>6. n - 1 \in S
  BY <1>3, <1>5
<1> QED
  BY <1>5, <1>6

\* Induction, for a set of subsets.
LEMMA AllSubsets ==
    ASSUME NEW D, IsFiniteSet(D), NEW W, {} \in W,
           \A S \in SUBSET D : \A x \in D \ S : S \in W => S \cup {x} \in W
    PROVE  SUBSET D \subseteq W
<1> DEFINE Sizes == {k \in Nat : \A S \in SUBSET D : Cardinality(S) = k => S \in W}
<1>0. \A S \in SUBSET D : IsFiniteSet(S) /\ Cardinality(S) \in Nat
  BY FS_Subset, FS_CardinalityType
<1>1. 0 \in Sizes
  <2>1. \A S \in SUBSET D : Cardinality(S) = 0 => S = {}
    BY <1>0, FS_EmptySet
  <2> QED
    BY <2>1
<1>2. \A k \in Nat : k \in Sizes => k + 1 \in Sizes
  <2> SUFFICES ASSUME NEW k \in Nat, k \in Sizes, NEW S \in SUBSET D, Cardinality(S) = k + 1
               PROVE  S \in W
    OBVIOUS
  <2>1. S # {}
    BY FS_EmptySet
  <2>2. PICK x \in S : TRUE
    BY <2>1
  <2>3. Cardinality(S \ {x}) = k
    BY <1>0, <2>2, FS_RemoveElement
  <2>4. S \ {x} \in W /\ S \ {x} \in SUBSET D /\ x \in D \ (S \ {x})
    BY <2>3
  <2>5. (S \ {x}) \cup {x} \in W
    BY <2>4
  <2>6. (S \ {x}) \cup {x} = S
    OBVIOUS
  <2> QED
    BY <2>5, <2>6
<1> HIDE DEF Sizes
<1>3. Nat \subseteq Sizes
  BY <1>1, <1>2, AllNumbers
<1> QED
  BY <1>0, <1>3 DEF Sizes

\* A table of sums: what it says of a set is one value more than of a smaller one.
IsSum(s, f) ==
    s = [S \in SUBSET DOMAIN f |->
           IF S = {} THEN 0
           ELSE LET x == CHOOSE x \in S : TRUE IN f[x] + s[S \ {x}]]

IsSumUpTo(s, f, k) ==
    \A S \in SUBSET DOMAIN f : Cardinality(S) <= k =>
       s[S] = IF S = {} THEN 0
              ELSE LET x == CHOOSE x \in S : TRUE IN f[x] + s[S \ {x}]

Numbers(f) == IsFiniteSet(DOMAIN f) /\ \A x \in DOMAIN f : f[x] \in Int

LEMMA SumExists ==
    ASSUME NEW f, Numbers(f)
    PROVE  \E s : IsSum(s, f)
<1> DEFINE D     == SUBSET DOMAIN f
           Pick(S) == CHOOSE x \in S : TRUE
           Value(s, S) == IF S = {} THEN 0 ELSE f[Pick(S)] + s[S \ {Pick(S)}]
           Good  == {k \in Nat : \E s : IsSumUpTo(s, f, k)}
<1>0. \A S \in D : IsFiniteSet(S) /\ Cardinality(S) \in Nat
  BY FS_Subset, FS_CardinalityType DEF Numbers
<1>1. \A s, k : IsSumUpTo(s, f, k) <=> \A S \in D : Cardinality(S) <= k => s[S] = Value(s, S)
  BY DEF IsSumUpTo
<1>2. \A S \in D : S # {} => /\ Pick(S) \in S /\ S \ {Pick(S)} \in D
                            /\ Cardinality(S \ {Pick(S)}) = Cardinality(S) - 1
  <2> TAKE S \in D
  <2> SUFFICES ASSUME S # {}
               PROVE  /\ Pick(S) \in S /\ S \ {Pick(S)} \in D
                      /\ Cardinality(S \ {Pick(S)}) = Cardinality(S) - 1
    OBVIOUS
  <2>1. Pick(S) \in S
    OBVIOUS
  <2> HIDE DEF Pick
  <2> QED
    BY <1>0, <2>1, FS_RemoveElement
<1> HIDE DEF Pick
<1>3. 0 \in Good
  <2> DEFINE s == [S \in D |-> 0]
  <2>1. \A S \in D : Cardinality(S) <= 0 => S = {}
    BY <1>0, FS_EmptySet
  <2>2. IsSumUpTo(s, f, 0)
    BY <1>1, <2>1
  <2> QED
    BY <2>2
<1>4. \A k \in Nat : k \in Good => k + 1 \in Good
  <2> SUFFICES ASSUME NEW k \in Nat, NEW s, IsSumUpTo(s, f, k)
               PROVE  \E t : IsSumUpTo(t, f, k + 1)
    OBVIOUS
  <2> DEFINE t == [S \in D |-> IF Cardinality(S) <= k THEN s[S] ELSE Value(s, S)]
  <2>1. ASSUME NEW S \in D, Cardinality(S) <= k + 1 PROVE t[S] = Value(t, S)
    <3>1. t[S] = Value(s, S)
      BY <1>1
    <3>2. CASE S = {}
      BY <3>1, <3>2
    <3>3. CASE S # {}
      <4>1. Cardinality(S \ {Pick(S)}) <= k /\ S \ {Pick(S)} \in D
        BY <1>0, <1>2, <2>1, <3>3
      <4>2. t[S \ {Pick(S)}] = s[S \ {Pick(S)}]
        BY <4>1
      <4> QED
        BY <3>1, <3>3, <4>2
    <3> QED
      BY <3>2, <3>3
  <2>2. IsSumUpTo(t, f, k + 1)
    BY <1>1, <2>1
  <2> QED
    BY <2>2
<1> HIDE DEF Good
<1>5. Nat \subseteq Good
  BY <1>3, <1>4, AllNumbers
<1>6. PICK s : IsSumUpTo(s, f, Cardinality(DOMAIN f))
  <2>1. Cardinality(DOMAIN f) \in Nat
    BY <1>0
  <2> QED
    BY <1>5, <2>1 DEF Good
<1>7. \A S \in D : Cardinality(S) <= Cardinality(DOMAIN f)
  BY FS_Subset DEF Numbers
<1>8. \A S \in D : s[S] = Value(s, S)
  BY <1>1, <1>6, <1>7
<1> DEFINE t == [S \in D |-> s[S]]
<1>9. \A S \in D : t[S] = Value(t, S)
  BY <1>2, <1>8
<1>10. t = [S \in D |-> Value(t, S)]
  BY <1>9
<1>11. IsSum(t, f)
  BY <1>10 DEF IsSum, Pick
<1> QED
  BY <1>11

LEMMA SumIsOne ==
    ASSUME NEW f, Numbers(f)
    PROVE  \E s : IsSum(s, f) /\ Sum(f) = s[DOMAIN f]
<1> DEFINE s == CHOOSE s : IsSum(s, f)
<1>1. IsSum(s, f)
  BY SumExists
<1>2. Sum(f) = s[DOMAIN f]
  BY DEF Sum, IsSum
<1> QED
  BY <1>1, <1>2

\* One step of a table of sums.
LEMMA SumStep ==
    ASSUME NEW f, Numbers(f), NEW s, IsSum(s, f)
    PROVE  /\ s[{}] = 0
           /\ \A S \in SUBSET DOMAIN f : S # {} =>
                 \E x \in S : x = (CHOOSE y \in S : TRUE) /\ s[S] = f[x] + s[S \ {x}]
  BY DEF IsSum

\* Induction along the sizes of sets.
LEMMA AllSizes ==
    ASSUME NEW D, IsFiniteSet(D), NEW W, {} \in W,
           \A S \in SUBSET D : S # {} /\ (\A x \in S : S \ {x} \in W) => S \in W
    PROVE  SUBSET D \subseteq W
<1> DEFINE Sizes == {k \in Nat : \A S \in SUBSET D : Cardinality(S) = k => S \in W}
<1>0. \A S \in SUBSET D : IsFiniteSet(S) /\ Cardinality(S) \in Nat
  BY FS_Subset, FS_CardinalityType
<1>1. 0 \in Sizes
  <2>1. \A S \in SUBSET D : Cardinality(S) = 0 => S = {}
    BY <1>0, FS_EmptySet
  <2> QED
    BY <2>1
<1> HIDE DEF Sizes
<1>2. ASSUME NEW k \in Nat, k \in Sizes, NEW S \in SUBSET D, Cardinality(S) = k + 1
      PROVE  S \in W
  <2>0. (S = {} => Cardinality(S) = 0) /\ IsFiniteSet(S)
    BY <1>0, FS_EmptySet
  <2>1. S # {}
    BY <1>2, <2>0
  <2>2. ASSUME NEW x \in S PROVE S \ {x} \in SUBSET D /\ Cardinality(S \ {x}) = k
    <3>1. Cardinality(S \ {x}) = Cardinality(S) - 1
      BY <2>0, FS_RemoveElement
    <3> QED
      BY <1>2, <3>1
  <2>3. \A x \in S : S \ {x} \in W
    BY <1>2, <2>2 DEF Sizes
  <2> QED
    BY <2>1, <2>3
<1>3. \A k \in Nat : k \in Sizes => k + 1 \in Sizes
  BY <1>2 DEF Sizes
<1>4. Nat \subseteq Sizes
  BY <1>1, <1>3, AllNumbers
<1> QED
  BY <1>0, <1>4 DEF Sizes

LEMMA SumTyped ==
    ASSUME NEW f, Numbers(f), NEW s, IsSum(s, f)
    PROVE  \A S \in SUBSET DOMAIN f : s[S] \in Int
<1> DEFINE W == {S \in SUBSET DOMAIN f : s[S] \in Int}
<1>1. {} \in W
  BY SumStep
<1>2. ASSUME NEW S \in SUBSET DOMAIN f, S # {}, \A x \in S : S \ {x} \in W
      PROVE  S \in W
  <2>1. PICK x \in S : s[S] = f[x] + s[S \ {x}]
    BY <1>2, SumStep
  <2>2. s[S \ {x}] \in Int /\ f[x] \in Int
    BY <1>2 DEF Numbers
  <2> QED
    BY <2>1, <2>2
<1>3. \A S \in SUBSET DOMAIN f : S # {} /\ (\A x \in S : S \ {x} \in W) => S \in W
  BY <1>2
<1> HIDE DEF W
<1>4. SUBSET DOMAIN f \subseteq W
  BY <1>1, <1>3, AllSizes DEF Numbers
<1> QED
  BY <1>4 DEF W

\* It does not matter whose turn it is.
TakesAny(s, f) == \A S \in SUBSET DOMAIN f : \A y \in S : s[S] = f[y] + s[S \ {y}]

LEMMA SumTakesAny ==
    ASSUME NEW f, Numbers(f), NEW s, IsSum(s, f)
    PROVE  TakesAny(s, f)
<1> DEFINE D == SUBSET DOMAIN f
           W == {S \in D : \A y \in S : s[S] = f[y] + s[S \ {y}]}
<1>0. (\A S \in D : s[S] \in Int) /\ \A x \in DOMAIN f : f[x] \in Int
  BY SumTyped DEF Numbers
<1>1. {} \in W
  OBVIOUS
<1>2. ASSUME NEW S \in D, S # {}, \A x \in S : S \ {x} \in W, NEW y \in S
      PROVE  s[S] = f[y] + s[S \ {y}]
  <2>1. PICK x \in S : s[S] = f[x] + s[S \ {x}]
    BY <1>2, SumStep
  <2>2. CASE x = y
    BY <2>1, <2>2
  <2>3. CASE x # y
    <3> DEFINE T == S \ {x, y}
    <3>1. (S \ {x}) \ {y} = T /\ (S \ {y}) \ {x} = T /\ T \in D
          /\ S \ {x} \in D /\ S \ {y} \in D
      OBVIOUS
    <3>2. s[S \ {x}] = f[y] + s[(S \ {x}) \ {y}] /\ s[S \ {y}] = f[x] + s[(S \ {y}) \ {x}]
      BY <1>2, <2>3
    <3>3. s[S \ {x}] = f[y] + s[T] /\ s[S \ {y}] = f[x] + s[T]
      BY <3>1, <3>2
    <3>4. s[T] \in Int /\ f[x] \in Int /\ f[y] \in Int
      BY <1>0, <3>1
    <3> HIDE DEF T
    <3> QED
      BY <2>1, <3>3, <3>4
  <2> QED
    BY <2>2, <2>3
<1>3. \A S \in D : S # {} /\ (\A x \in S : S \ {x} \in W) => S \in W
  BY <1>2
<1> HIDE DEF W
<1>4. D \subseteq W
  BY <1>1, <1>3, AllSizes DEF Numbers
<1> QED
  BY <1>4 DEF W, TakesAny

\* The part of a sum that comes from S.
Part(f, S) == Sum([x \in S |-> f[x]])

\* Two tables say the same where the values are the same.
LEMMA SumOfAPart ==
    ASSUME NEW f, Numbers(f), NEW s, IsSum(s, f), NEW S, S \subseteq DOMAIN f
    PROVE  Part(f, S) = s[S]
<1> DEFINE g == [x \in S |-> f[x]]
<1>1. DOMAIN g = S /\ \A x \in S : g[x] = f[x]
  OBVIOUS
<1>2. IsFiniteSet(S) /\ Numbers(g)
  BY FS_Subset DEF Numbers
<1>3. Part(f, S) = Sum(g)
  BY DEF Part
<1> HIDE DEF g
<1>4. PICK t : IsSum(t, g) /\ Sum(g) = t[DOMAIN g]
  BY <1>2, SumIsOne
<1> DEFINE W == {T \in SUBSET S : t[T] = s[T]}
<1>5. {} \in W
  BY <1>2, <1>4, SumStep
<1>6. ASSUME NEW T \in SUBSET S, T # {}, \A x \in T : T \ {x} \in W PROVE T \in W
  <2>0. T \in SUBSET DOMAIN f /\ T \in SUBSET DOMAIN g
    BY <1>1
  <2>1. \E x \in T : x = (CHOOSE y \in T : TRUE) /\ s[T] = f[x] + s[T \ {x}]
    BY <1>6, <2>0, SumStep
  <2>2. \E x \in T : x = (CHOOSE y \in T : TRUE) /\ t[T] = g[x] + t[T \ {x}]
    BY <1>2, <1>4, <1>6, <2>0, SumStep
  <2>3. PICK x \in T : s[T] = f[x] + s[T \ {x}] /\ t[T] = g[x] + t[T \ {x}]
    BY <2>1, <2>2
  <2>4. t[T \ {x}] = s[T \ {x}] /\ g[x] = f[x]
    BY <1>1, <1>6
  <2> QED
    BY <2>3, <2>4
<1> HIDE DEF W
<1>7. SUBSET S \subseteq W
  BY <1>2, <1>5, <1>6, AllSizes
<1>8. t[S] = s[S]
  BY <1>7 DEF W
<1> QED
  BY <1>1, <1>3, <1>4, <1>8

LEMMA PartFacts ==
    ASSUME NEW f, Numbers(f)
    PROVE  /\ Part(f, {}) = 0
           /\ \A S \in SUBSET DOMAIN f : Part(f, S) \in Int
           /\ \A S \in SUBSET DOMAIN f : \A y \in S : Part(f, S) = f[y] + Part(f, S \ {y})
<1>1. PICK s : IsSum(s, f)
  BY SumExists
<1>2. \A S \in SUBSET DOMAIN f : Part(f, S) = s[S]
  BY <1>1, SumOfAPart
<1>3. \A S \in SUBSET DOMAIN f : S \ {} = S /\ \A y \in S : S \ {y} \in SUBSET DOMAIN f
  OBVIOUS
<1>4. Part(f, {}) = 0
  BY <1>1, <1>2, SumStep
<1>5. \A S \in SUBSET DOMAIN f : s[S] \in Int
  BY <1>1, SumTyped
<1>6. \A S \in SUBSET DOMAIN f : \A y \in S : s[S] = f[y] + s[S \ {y}]
  <2>1. TakesAny(s, f)
    BY <1>1, SumTakesAny
  <2> QED
    BY <2>1 DEF TakesAny
<1>7. \A S \in SUBSET DOMAIN f : Part(f, S) \in Int
  BY <1>2, <1>5
<1>8. ASSUME NEW S \in SUBSET DOMAIN f, NEW y \in S PROVE Part(f, S) = f[y] + Part(f, S \ {y})
  <2>1. s[S] = f[y] + s[S \ {y}]
    BY <1>6
  <2>2. Part(f, S) = s[S] /\ Part(f, S \ {y}) = s[S \ {y}]
    BY <1>2, <1>3
  <2> QED
    BY <2>1, <2>2
<1> QED
  BY <1>4, <1>7, <1>8

\* One element more.
LEMMA PartAndOne ==
    ASSUME NEW f, Numbers(f), NEW S, S \subseteq DOMAIN f, NEW x, x \in DOMAIN f \ S
    PROVE  Part(f, S \cup {x}) = f[x] + Part(f, S)
<1>1. S \cup {x} \in SUBSET DOMAIN f /\ x \in S \cup {x} /\ (S \cup {x}) \ {x} = S
  OBVIOUS
<1> QED
  BY <1>1, PartFacts

\* Two sets that have nothing in common.
LEMMA PartOfUnion ==
    ASSUME NEW f, Numbers(f), NEW A, NEW B, A \subseteq DOMAIN f, B \subseteq DOMAIN f,
           A \cap B = {}
    PROVE  Part(f, A \cup B) = Part(f, A) + Part(f, B)
<1> DEFINE W == {S \in SUBSET B : Part(f, A \cup S) = Part(f, A) + Part(f, S)}
<1>0. IsFiniteSet(B) /\ \A x \in DOMAIN f : f[x] \in Int
  BY FS_Subset DEF Numbers
<1>1. {} \in W
  <2>1. A \cup {} = A
    OBVIOUS
  <2>2. Part(f, A) \in Int /\ Part(f, {}) = 0
    BY PartFacts
  <2> QED
    BY <2>1, <2>2
<1>2. ASSUME NEW S \in SUBSET B, NEW x \in B \ S, S \in W PROVE S \cup {x} \in W
  <2>1. /\ (A \cup S) \cup {x} = A \cup (S \cup {x}) /\ x \in DOMAIN f \ (A \cup S)
        /\ A \cup S \subseteq DOMAIN f /\ S \subseteq DOMAIN f /\ x \in DOMAIN f \ S
    OBVIOUS
  <2>2. Part(f, A \cup (S \cup {x})) = f[x] + Part(f, A \cup S)
    BY <2>1, PartAndOne
  <2>3. Part(f, S \cup {x}) = f[x] + Part(f, S)
    BY <2>1, PartAndOne
  <2>4. Part(f, A \cup S) = Part(f, A) + Part(f, S)
    BY <1>2
  <2>5. f[x] \in Int /\ Part(f, A) \in Int /\ Part(f, S) \in Int
    BY <1>0, <2>1, PartFacts
  <2>6. Part(f, A \cup (S \cup {x})) = Part(f, A) + Part(f, S \cup {x})
    BY <2>2, <2>3, <2>4, <2>5
  <2> QED
    BY <2>6
<1>5. \A S \in SUBSET B : \A x \in B \ S : S \in W => S \cup {x} \in W
  BY <1>2
<1> HIDE DEF W
<1>6. IsFiniteSet(B)
  BY <1>0
<1>3. SUBSET B \subseteq W
  BY <1>1, <1>5, <1>6, AllSubsets
<1> QED
  BY <1>3 DEF W

\* The sets B[c] have nothing in common.
Apart(B) == \A c, d \in DOMAIN B : c # d => B[c] \cap B[d] = {}

AllOf(B, C) == UNION {B[c] : c \in C}

LEMMA PartOfMany ==
    ASSUME NEW f, Numbers(f), NEW B, IsFiniteSet(DOMAIN B), Apart(B),
           \A c \in DOMAIN B : B[c] \subseteq DOMAIN f
    PROVE  Sum([c \in DOMAIN B |-> Part(f, B[c])]) = Part(f, AllOf(B, DOMAIN B))
<1> DEFINE C == DOMAIN B
           g == [c \in C |-> Part(f, B[c])]
           W == {S \in SUBSET C : Part(g, S) = Part(f, AllOf(B, S))}
<1>1. \A c \in C : g[c] \in Int /\ g[c] = Part(f, B[c])
  BY PartFacts
<1>2. Numbers(g) /\ DOMAIN g = C
  BY <1>1 DEF Numbers
<1>3. Sum(g) = Part(g, C)
  BY DEF Part
<1> HIDE DEF g
<1>4. {} \in W
  <2>1. AllOf(B, {}) = {}
    BY DEF AllOf
  <2> QED
    BY <1>2, <2>1, PartFacts
<1>5. ASSUME NEW S \in SUBSET C, NEW x \in C \ S, S \in W PROVE S \cup {x} \in W
  <2>1. Part(g, S \cup {x}) = g[x] + Part(g, S)
    BY <1>2, PartAndOne
  <2>2. AllOf(B, S \cup {x}) = B[x] \cup AllOf(B, S)
    BY DEF AllOf
  <2>3. B[x] \cap AllOf(B, S) = {}
    BY DEF AllOf, Apart
  <2>4. AllOf(B, S) \subseteq DOMAIN f /\ B[x] \subseteq DOMAIN f
    BY DEF AllOf
  <2>5. Part(f, AllOf(B, S \cup {x})) = Part(f, B[x]) + Part(f, AllOf(B, S))
    BY <2>2, <2>3, <2>4, PartOfUnion
  <2> QED
    BY <1>1, <1>5, <2>1, <2>5
<1> HIDE DEF W
<1>6. SUBSET C \subseteq W
  <2> HIDE DEF C
  <2>1. IsFiniteSet(C)
    BY DEF C
  <2>2. \A S \in SUBSET C : \A x \in C \ S : S \in W => S \cup {x} \in W
    BY <1>5
  <2> QED
    BY <1>4, <2>1, <2>2, AllSubsets
<1> QED
  BY <1>3, <1>6 DEF W, g

\* Ones are counted.
LEMMA PartOfOnes ==
    ASSUME NEW f, Numbers(f), NEW S, S \subseteq DOMAIN f, \A x \in S : f[x] = 1
    PROVE  Part(f, S) = Cardinality(S) /\ IsFiniteSet(S) /\ Cardinality(S) \in Nat
<1> DEFINE W == {T \in SUBSET S : Part(f, T) = Cardinality(T)}
<1>0. IsFiniteSet(S)
  BY FS_Subset DEF Numbers
<1>1. {} \in W
  BY PartFacts, FS_EmptySet
<1>2. ASSUME NEW T \in SUBSET S, NEW x \in S \ T, T \in W PROVE T \cup {x} \in W
  <2>1. T \subseteq DOMAIN f /\ x \in DOMAIN f \ T /\ f[x] = 1 /\ T \cup {x} \in SUBSET S
    OBVIOUS
  <2>2. Part(f, T \cup {x}) = 1 + Part(f, T)
    BY <2>1, PartAndOne
  <2>3. IsFiniteSet(T) /\ Cardinality(T) \in Nat
    BY <1>0, FS_Subset, FS_CardinalityType
  <2>4. Cardinality(T \cup {x}) = Cardinality(T) + 1
    BY <2>3, FS_AddElement
  <2> QED
    BY <1>2, <2>1, <2>2, <2>3, <2>4
<1> HIDE DEF W
<1>3. SUBSET S \subseteq W
  BY <1>0, <1>1, <1>2, AllSubsets
<1> QED
  BY <1>0, <1>3, FS_CardinalityType DEF W

-------------------------------------------------------------------------------
(* Progress: the rows                                                      *)

AnyRow == [kind : {"GROUP", "ITEM"}, parent : Nat \cup {None}, start : Nat \cup {None},
        end : Nat \cup {None}, progress : 0..100]

\* A parent comes before its children and is a group; an item ends after it starts.
RowsInOrder ==
    /\ todayIso \in Int
    /\ rows \in Seq(AnyRow)
    /\ \A n \in Ids : rows[n].parent \in {None, 0} \/ (rows[n].parent \in Groups /\ rows[n].parent < n)
    /\ \A n \in Groups : rows[n].start = None /\ rows[n].end = None /\ rows[n].progress = 0
    /\ \A n \in Ids : rows[n].start # None /\ rows[n].end # None => rows[n].start <= rows[n].end

LEMMA AppendRow ==
    ASSUME RowsInOrder, NEW row \in AnyRow, rows' = Append(rows, row), todayIso' = todayIso,
           row.parent \in {None, 0} \/ row.parent \in Groups,
           row.kind = "GROUP" => row.start = None /\ row.end = None /\ row.progress = 0,
           row.start # None /\ row.end # None => row.start <= row.end
    PROVE  RowsInOrder'
<1> DEFINE N == Len(rows)
<1>0. rows \in Seq(AnyRow) /\ N \in Nat /\ Ids = 1..N
  BY DEF RowsInOrder, Ids
<1>1. rows' \in Seq(AnyRow) /\ Ids' = 1..(N + 1)
      /\ (\A n \in 1..N : rows'[n] = rows[n]) /\ rows'[N + 1] = row
  BY <1>0 DEF Ids
<1>2. \A n \in Ids' : n \in Ids \/ n = N + 1
  BY <1>0, <1>1
<1>3. Groups \subseteq Groups' /\ \A n \in Groups' : n \in Groups \/ (n = N + 1 /\ row.kind = "GROUP")
  <2>1. row.kind \in {"GROUP", "ITEM"}
    BY DEF AnyRow
  <2> QED
    BY <1>0, <1>1, <1>2, <2>1 DEF Groups, Items
<1>4. \A n \in Ids' :
         rows'[n].parent \in {None, 0} \/ (rows'[n].parent \in Groups' /\ rows'[n].parent < n)
  <2> TAKE n \in Ids'
  <2>1. CASE n \in Ids
    BY <1>0, <1>1, <1>3, <2>1 DEF RowsInOrder
  <2>2. CASE n = N + 1
    <3>1. row.parent \in Groups => row.parent < N + 1
      BY <1>0 DEF Groups
    <3> QED
      BY <1>1, <1>3, <2>2, <3>1
  <2> QED
    BY <1>2, <2>1, <2>2
<1>5. \A n \in Groups' : rows'[n].start = None /\ rows'[n].end = None /\ rows'[n].progress = 0
  <2>1. Groups \subseteq Ids
    BY DEF Groups
  <2> QED
    BY <1>0, <1>1, <1>3, <2>1 DEF RowsInOrder
<1>6. \A n \in Ids' : rows'[n].start # None /\ rows'[n].end # None => rows'[n].start <= rows'[n].end
  BY <1>0, <1>1, <1>2 DEF RowsInOrder
<1> QED
  BY <1>1, <1>4, <1>5, <1>6 DEF RowsInOrder

LEMMA RowsStayInOrder == RowsInOrder /\ [ProgressNext]_progressVars => RowsInOrder'
<1> SUFFICES ASSUME RowsInOrder, [ProgressNext]_progressVars PROVE RowsInOrder'
  OBVIOUS
<1>1. CASE UNCHANGED progressVars
  BY <1>1 DEF progressVars, RowsInOrder, Ids, Groups, Items
<1>2. CASE FirstRows
  <2>1. PICK first \in {None, 0}, second \in {None, 1} :
           rows' = <<[EmptyGroup EXCEPT !.parent = first], [EmptyGroup EXCEPT !.parent = second]>>
    BY <1>2 DEF FirstRows
  <2> DEFINE a == [EmptyGroup EXCEPT !.parent = first]
             b == [EmptyGroup EXCEPT !.parent = second]
  <2>2. a \in AnyRow /\ b \in AnyRow /\ a.parent = first /\ b.parent = second
        /\ a.kind = "GROUP" /\ b.kind = "GROUP"
        /\ a.start = None /\ a.end = None /\ b.start = None /\ b.end = None
        /\ a.progress = 0 /\ b.progress = 0
    BY DEF EmptyGroup, AnyRow, None
  <2> HIDE DEF a, b
  <2>3. rows' = <<a, b>> /\ todayIso' = todayIso
    BY <1>2, <2>1 DEF FirstRows, a, b
  <2>4. rows' \in Seq(AnyRow) /\ Ids' = {1, 2} /\ rows'[1] = a /\ rows'[2] = b
    BY <2>2, <2>3 DEF Ids
  <2>5. Groups' = {1, 2}
    BY <2>2, <2>4 DEF Groups, Items
  <2> QED
    BY <2>2, <2>3, <2>4, <2>5 DEF RowsInOrder, None
<1>3. CASE AddRow
  <2>1. PICK parent \in Groups \cup {None} :
          \E row \in {AsRow(EmptyGroup, "GROUP", parent)} \cup {AsRow(w, "ITEM", parent) : w \in Works} :
             rows' = Append(rows, row)
    BY <1>3 DEF AddRow
  <2>2. PICK row \in {AsRow(EmptyGroup, "GROUP", parent)} \cup {AsRow(w, "ITEM", parent) : w \in Works} :
             rows' = Append(rows, row)
    BY <2>1
  <2>3. parent \in Nat \cup {None}
    <3>1. Ids \subseteq Nat
      BY DEF RowsInOrder, Ids
    <3> QED
      BY <3>1 DEF Groups
  <2>4. CASE row = AsRow(EmptyGroup, "GROUP", parent)
    <3>1. /\ row.kind = "GROUP" /\ row.parent = parent /\ row.start = None /\ row.end = None
          /\ row.progress = 0 /\ row \in AnyRow
      BY <2>3, <2>4 DEF AsRow, EmptyGroup, AnyRow, None
    <3> QED
      BY <1>3, <2>2, <3>1, AppendRow DEF AddRow
  <2>5. CASE \E w \in Works : row = AsRow(w, "ITEM", parent)
    <3>1. PICK w \in Works : row = AsRow(w, "ITEM", parent)
      BY <2>5
    <3>2. /\ row.kind = "ITEM" /\ row.parent = parent /\ row.start = w.start /\ row.end = w.end
          /\ row.progress = w.progress
      BY <3>1 DEF AsRow
    <3>3. /\ w.start \in Nat \cup {None} /\ w.end \in Nat \cup {None} /\ w.progress \in 0..100
          /\ w.start # None /\ w.end # None => w.start <= w.end
      BY ProgressAssumption DEF None
    <3>4. row \in AnyRow
      BY <2>3, <3>1, <3>3 DEF AsRow, AnyRow
    <3> QED
      BY <1>3, <2>2, <3>2, <3>3, <3>4, AppendRow DEF AddRow
  <2> QED
    BY <2>2, <2>4, <2>5
<1> QED
  BY <1>1, <1>2, <1>3 DEF ProgressNext

LEMMA RowsFacts ==
    ASSUME RowsInOrder
    PROVE  /\ Len(rows) \in Nat /\ Ids = 1..Len(rows) /\ IsFiniteSet(Ids)
           /\ Items \subseteq Ids /\ Groups = Ids \ Items /\ IsFiniteSet(Items)
           /\ \A n \in Ids : rows[n] \in AnyRow /\ rows[n].start \in Nat \cup {None}
                             /\ rows[n].end \in Nat \cup {None} /\ rows[n].progress \in 0..100
           /\ \A n \in Groups : rows[n].kind = "GROUP"
           /\ \A n : Children(n) \subseteq Ids /\ IsFiniteSet(Children(n))
           /\ \A n \in Ids : \A c \in Children(n) : n < c
<1>1. Len(rows) \in Nat /\ Ids = 1..Len(rows) /\ \A n \in Ids : rows[n] \in AnyRow
  BY DEF RowsInOrder, Ids
<1>2. IsFiniteSet(Ids)
  BY <1>1, FS_Interval
<1>3. Items \subseteq Ids /\ IsFiniteSet(Items) /\ Groups = Ids \ Items
  BY <1>2, FS_Subset DEF Items, Groups
<1>4. \A n : Children(n) \subseteq Ids /\ IsFiniteSet(Children(n))
  BY <1>2, FS_Subset DEF Children
<1>5. \A n \in Groups : rows[n].kind = "GROUP"
  BY <1>1 DEF Groups, Items, AnyRow
<1>6. \A n \in Ids : rows[n].start \in Nat \cup {None} /\ rows[n].end \in Nat \cup {None}
                     /\ rows[n].progress \in 0..100
  BY <1>1 DEF AnyRow
<1>7. \A n \in Ids : \A c \in Children(n) : n < c
  BY <1>1 DEF RowsInOrder, Children, None
<1> QED
  BY <1>1, <1>2, <1>3, <1>4, <1>5, <1>6, <1>7

\* Induction from the parents to the children, and the other way round.
LEMMA RowsDownwards ==
    ASSUME RowsInOrder, NEW W, \A n \in Ids : (\A p \in Ids : p < n => p \in W) => n \in W
    PROVE  Ids \subseteq W
<1> DEFINE K == {k \in Nat : \A n \in Ids : n <= k => n \in W}
<1>0. Ids \subseteq Nat \ {0}
  BY RowsFacts
<1>1. 0 \in K
  BY <1>0
<1>2. \A k \in Nat : k \in K => k + 1 \in K
  BY <1>0
<1> HIDE DEF K
<1>3. Nat \subseteq K
  BY <1>1, <1>2, AllNumbers
<1> QED
  BY <1>0, <1>3 DEF K

LEMMA RowsUpwards ==
    ASSUME RowsInOrder, NEW W, \A n \in Ids : (\A c \in Children(n) : c \in W) => n \in W
    PROVE  Ids \subseteq W
<1> DEFINE N == Len(rows)
           K == {k \in Nat : \A n \in Ids : N - n < k => n \in W}
<1>0. N \in Nat /\ Ids = 1..N /\ \A n \in Ids : \A c \in Children(n) : n < c /\ c \in Ids
  BY RowsFacts
<1>1. 0 \in K
  BY <1>0
<1>2. \A k \in Nat : k \in K => k + 1 \in K
  <2> SUFFICES ASSUME NEW k \in Nat, k \in K, NEW n \in Ids, N - n < k + 1 PROVE n \in W
    OBVIOUS
  <2>1. \A c \in Children(n) : N - c < k /\ c \in Ids
    BY <1>0
  <2>2. \A c \in Children(n) : c \in W
    BY <2>1
  <2> QED
    BY <2>2
<1> HIDE DEF K, N
<1>3. Nat \subseteq K
  BY <1>1, <1>2, AllNumbers
<1>4. \A n \in Ids : N - n < N
  BY <1>0
<1> QED
  BY <1>0, <1>3, <1>4 DEF K

-------------------------------------------------------------------------------
(* Progress: what lies below a row                                         *)

\* The items a row stands for: itself, or those below it.
Own(n) == IF n \in Items THEN {n} ELSE ItemsBelow(n)

\* m lies below n: the parent is n, or lies below n.
Hangs(n, b, m) == rows[m].parent = n \/ (rows[m].parent \in Ids /\ b[rows[m].parent])

IsBelowTable(n, b) == b = [m \in Ids |-> Hangs(n, b, m)]

Under(n) == LET b == CHOOSE b : IsBelowTable(n, b) IN {m \in Ids : b[m]}

HangsFrom(n, U, m) == rows[m].parent = n \/ (rows[m].parent \in Ids /\ rows[m].parent \in U)

LEMMA BelowExists == \A n : \E b : IsBelowTable(n, b)
<1> TAKE n
<1> DEFINE Closed(U) == \A m \in Ids : HangsFrom(n, U, m) => m \in U
           L == {m \in Ids : \A U \in SUBSET Ids : Closed(U) => m \in U}
           V == {m \in Ids : HangsFrom(n, L, m)}
           b == [m \in Ids |-> m \in L]
<1>1. Closed(L)
  BY DEF HangsFrom
<1>2. V \subseteq L
  BY <1>1
<1>3. Closed(V)
  BY <1>2 DEF HangsFrom
<1>4. V \in SUBSET Ids
  OBVIOUS
<1>5. L \subseteq V
  BY <1>3, <1>4
<1>6. \A m \in Ids : m \in L <=> HangsFrom(n, L, m)
  BY <1>2, <1>5
<1> HIDE DEF L, V, Closed
<1>9. \A p \in Ids : b[p] <=> p \in L
  OBVIOUS
<1>10. \A m \in Ids : HangsFrom(n, L, m) <=> Hangs(n, b, m)
  <2> HIDE DEF b
  <2> QED
    BY <1>9 DEF Hangs, HangsFrom
<1>7. \A m \in Ids : (m \in L) = Hangs(n, b, m)
  <2> HIDE DEF b
  <2> TAKE m \in Ids
  <2>1. m \in L <=> Hangs(n, b, m)
    BY <1>6, <1>10
  <2>2. Hangs(n, b, m) \in BOOLEAN
    BY ZenonT(30) DEF Hangs
  <2> QED
    BY <2>1, <2>2
<1>8. IsBelowTable(n, b)
  BY <1>7 DEF IsBelowTable
<1> QED
  BY <1>8

LEMMA UnderRule ==
    ASSUME NEW n
    PROVE  /\ Under(n) \subseteq Ids
           /\ \A m \in Ids : m \in Under(n) <=>
                rows[m].parent = n \/ (rows[m].parent \in Ids /\ rows[m].parent \in Under(n))
           /\ ItemsBelow(n) = {m \in Items : m \in Under(n)}
<1> DEFINE b == CHOOSE b : IsBelowTable(n, b)
<1>1. IsBelowTable(n, b)
  BY BelowExists
<1>2. ItemsBelow(n) = {m \in Items : b[m]}
  BY DEF ItemsBelow, IsBelowTable, Hangs
<1>3. Under(n) = {m \in Ids : b[m]}
  BY DEF Under
<1> HIDE DEF b
<1>4. \A m \in Ids : b[m] = Hangs(n, b, m)
  BY <1>1 DEF IsBelowTable
<1>5. \A m \in Ids : b[m] <=> Hangs(n, b, m)
  BY <1>4
<1>6. \A m \in Ids : m \in Under(n) <=> b[m]
  BY <1>3
<1>7. \A m \in Ids : m \in Under(n) <=>
                rows[m].parent = n \/ (rows[m].parent \in Ids /\ rows[m].parent \in Under(n))
  BY <1>5, <1>6 DEF Hangs
<1>8. Items \subseteq Ids
  BY DEF Items
<1> QED
  BY <1>2, <1>3, <1>6, <1>7, <1>8

\* A row with everything below it.
Self(c) == {c} \cup Under(c)

LEMMA SelfRule ==
    ASSUME RowsInOrder, NEW c \in Ids
    PROVE  /\ Self(c) \subseteq Ids
           /\ \A m \in Ids : m \in Self(c) <=>
                m = c \/ (rows[m].parent \in Ids /\ rows[m].parent \in Self(c))
<1>1. Under(c) \subseteq Ids /\ \A m \in Ids : m \in Under(c) <=>
                rows[m].parent = c \/ (rows[m].parent \in Ids /\ rows[m].parent \in Under(c))
  BY UnderRule
<1> QED
  BY <1>1 DEF Self

LEMMA UnderIsLater ==
    ASSUME RowsInOrder, NEW c \in Ids
    PROVE  /\ \A m \in Under(c) : c < m
           /\ \A m \in Self(c) : c <= m
<1> DEFINE W == {m \in Ids : m \in Under(c) => c < m}
<1>0. Ids \subseteq Nat /\ \A n \in Ids : \A d \in Children(n) : n < d
  BY RowsFacts
<1>1. Under(c) \subseteq Ids /\ \A m \in Ids : m \in Under(c) <=>
                rows[m].parent = c \/ (rows[m].parent \in Ids /\ rows[m].parent \in Under(c))
  BY UnderRule
<1>2. ASSUME NEW n \in Ids, \A p \in Ids : p < n => p \in W PROVE n \in W
  <2>1. SUFFICES ASSUME n \in Under(c) PROVE c < n
    OBVIOUS
  <2>2. CASE rows[n].parent = c
    <3>1. n \in Children(c)
      BY <2>2 DEF Children
    <3> QED
      BY <1>0, <3>1
  <2>3. CASE rows[n].parent \in Ids /\ rows[n].parent \in Under(c)
    <3>1. n \in Children(rows[n].parent)
      BY DEF Children
    <3>2. rows[n].parent < n
      BY <1>0, <2>3, <3>1
    <3>3. c < rows[n].parent
      BY <1>2, <2>3, <3>2
    <3>4. c \in Nat /\ n \in Nat /\ rows[n].parent \in Nat
      BY <1>0, <2>3
    <3> QED
      BY <3>2, <3>3, <3>4
  <2> QED
    BY <1>1, <2>1, <2>2, <2>3
<1> HIDE DEF W
<1>3. Ids \subseteq W
  BY <1>2, RowsDownwards
<1>4. \A m \in Under(c) : c < m
  BY <1>1, <1>3 DEF W
<1> QED
  BY <1>0, <1>1, <1>4 DEF Self

\* Nothing lies below an item.
LEMMA ItemsAreLast ==
    ASSUME RowsInOrder, NEW c \in Items
    PROVE  Under(c) = {}
<1> DEFINE W == {m \in Ids : m \notin Under(c)}
<1>1. Under(c) \subseteq Ids /\ \A m \in Ids : m \in Under(c) <=>
                rows[m].parent = c \/ (rows[m].parent \in Ids /\ rows[m].parent \in Under(c))
  BY UnderRule
<1>2. c \in Ids /\ c \notin Groups /\ c # None /\ c # 0 /\ Groups \subseteq Ids
  BY RowsFacts DEF None
<1>3. \A m \in Ids : \/ rows[m].parent \in {None, 0} /\ rows[m].parent \notin Ids
                     \/ rows[m].parent \in Groups /\ rows[m].parent < m
  BY RowsFacts DEF RowsInOrder, None
<1>4. ASSUME NEW n \in Ids, \A p \in Ids : p < n => p \in W PROVE n \in W
  BY <1>1, <1>2, <1>3, <1>4
<1> HIDE DEF W
<1>5. Ids \subseteq W
  BY <1>4, RowsDownwards
<1> QED
  BY <1>1, <1>5 DEF W

\* What lies below a row is what its children stand for,
LEMMA UnderIsChildren ==
    ASSUME RowsInOrder, NEW n \in Ids
    PROVE  \A m \in Ids : m \in Under(n) <=> \E c \in Children(n) : m \in Self(c)
<1> DEFINE W == {m \in Ids : m \in Under(n) <=> \E c \in Children(n) : m \in Self(c)}
<1>1. \A m \in Ids : m \in Under(n) <=>
                rows[m].parent = n \/ (rows[m].parent \in Ids /\ rows[m].parent \in Under(n))
  BY UnderRule
<1>2. Children(n) \subseteq Ids /\ \A m \in Ids : \A d \in Children(m) : m < d
  BY RowsFacts
<1>3. \A c \in Children(n) : \A m \in Ids : m \in Self(c) <=>
                m = c \/ (rows[m].parent \in Ids /\ rows[m].parent \in Self(c))
  BY <1>2, SelfRule
<1>4. ASSUME NEW m \in Ids, \A p \in Ids : p < m => p \in W PROVE m \in W
  <2>1. (\E c \in Children(n) : m \in Self(c)) <=>
           \/ m \in Children(n)
           \/ rows[m].parent \in Ids /\ \E c \in Children(n) : rows[m].parent \in Self(c)
    BY <1>3
  <2>2. m \in Children(n) <=> rows[m].parent = n
    BY DEF Children
  <2>3. rows[m].parent \in Ids => rows[m].parent < m
    BY <1>2 DEF Children
  <2>4. rows[m].parent \in Ids =>
          (rows[m].parent \in Under(n) <=> \E c \in Children(n) : rows[m].parent \in Self(c))
    BY <1>4, <2>3
  <2> QED
    BY <1>1, <2>1, <2>2, <2>4
<1> HIDE DEF W
<1>5. Ids \subseteq W
  BY <1>4, RowsDownwards
<1> QED
  BY <1>5 DEF W

\* and no two of them have a row in common.
LEMMA ChildrenApart ==
    ASSUME RowsInOrder, NEW n \in Ids, NEW c \in Children(n), NEW d \in Children(n), c # d
    PROVE  Self(c) \cap Self(d) = {}
<1> DEFINE W == {m \in Ids : ~(m \in Self(c) /\ m \in Self(d))}
<1>1. c \in Ids /\ d \in Ids /\ Ids \subseteq Nat /\ \A m \in Ids : \A e \in Children(m) : m < e
  BY RowsFacts
<1>2. /\ Self(c) \subseteq Ids
      /\ \A m \in Ids : m \in Self(c) <=>
                m = c \/ (rows[m].parent \in Ids /\ rows[m].parent \in Self(c))
      /\ \A m \in Ids : m \in Self(d) <=>
                m = d \/ (rows[m].parent \in Ids /\ rows[m].parent \in Self(d))
  BY <1>1, SelfRule
<1>3. rows[c].parent = n /\ rows[d].parent = n /\ n < c /\ n < d
  BY <1>1 DEF Children
<1>4. n \notin Self(c) /\ n \notin Self(d)
  BY <1>1, <1>3, UnderIsLater
<1>5. ASSUME NEW m \in Ids, \A p \in Ids : p < m => p \in W PROVE m \in W
  <2>1. rows[m].parent \in Ids => rows[m].parent < m
    BY <1>1 DEF Children
  <2>2. rows[m].parent \in Ids => ~(rows[m].parent \in Self(c) /\ rows[m].parent \in Self(d))
    BY <1>5, <2>1
  <2>3. ~(m \in Self(c) /\ m \in Self(d))
    BY <1>2, <1>3, <1>4, <2>2
  <2> QED
    BY <2>3
<1> HIDE DEF W
<1>6. Ids \subseteq W
  BY <1>5, RowsDownwards
<1> QED
  BY <1>2, <1>6 DEF W

\* So with the items.
LEMMA OwnFacts ==
    ASSUME RowsInOrder
    PROVE  /\ \A n \in Ids : Own(n) \subseteq Items
           /\ \A n \in Items : Own(n) = {n}
           /\ \A n \in Groups : Own(n) = ItemsBelow(n)
           /\ \A n \in Ids : \A c \in Children(n) : Own(c) \subseteq Self(c)
<1>1. \A n \in Ids : ItemsBelow(n) = {m \in Items : m \in Under(n)}
  BY UnderRule
<1>2. Groups = Ids \ Items /\ Items \subseteq Ids /\ \A n : Children(n) \subseteq Ids
  BY RowsFacts
<1> QED
  BY <1>1, <1>2 DEF Own, Self

LEMMA OwnOfGroup ==
    ASSUME RowsInOrder, NEW n \in Groups
    PROVE  Own(n) = UNION {Own(c) : c \in Children(n)}
<1>1. n \in Ids /\ Items \subseteq Ids /\ Children(n) \subseteq Ids /\ n \notin Items
  BY RowsFacts
<1>2. Own(n) = {m \in Items : m \in Under(n)}
  BY <1>1, UnderRule DEF Own
<1>3. \A m \in Ids : m \in Under(n) <=> \E c \in Children(n) : m \in Self(c)
  BY <1>1, UnderIsChildren
<1>4. \A c \in Children(n) : \A m \in Items : m \in Self(c) <=> m \in Own(c)
  <2> TAKE c \in Children(n)
  <2>1. c \in Ids
    BY <1>1
  <2>2. CASE c \in Items
    BY <2>2, ItemsAreLast DEF Own, Self
  <2>3. CASE c \notin Items
    <3>1. Own(c) = {m \in Items : m \in Under(c)}
      BY <2>1, <2>3, UnderRule DEF Own
    <3> QED
      BY <2>3, <3>1 DEF Self
  <2> QED
    BY <2>2, <2>3
<1>5. \A c \in Children(n) : Own(c) \subseteq Items
  BY <1>1, OwnFacts
<1>6. \A m \in Items : m \in Own(n) <=> \E c \in Children(n) : m \in Own(c)
  BY <1>1, <1>2, <1>3, <1>4
<1>7. Own(n) \subseteq Items
  BY <1>2
<1> QED
  BY <1>5, <1>6, <1>7

LEMMA OwnApart ==
    ASSUME RowsInOrder, NEW n \in Ids, NEW c \in Children(n), NEW d \in Children(n), c # d
    PROVE  Own(c) \cap Own(d) = {}
<1>1. Self(c) \cap Self(d) = {}
  BY ChildrenApart
<1>2. Own(c) \subseteq Self(c) /\ Own(d) \subseteq Self(d)
  BY OwnFacts
<1> QED
  BY <1>1, <1>2

-------------------------------------------------------------------------------
(* Progress: sums along the rows                                           *)

\* What the children of a group add up to is what all items below it do.
LEMMA SumBelow ==
    ASSUME RowsInOrder, NEW n \in Groups, NEW D, D \subseteq Items, NEW f, Numbers(f), DOMAIN f = D
    PROVE  Sum([c \in Children(n) |-> Part(f, D \cap Own(c))]) = Part(f, D \cap Own(n))
<1> DEFINE B == [c \in Children(n) |-> D \cap Own(c)]
<1>1. n \in Ids /\ IsFiniteSet(Children(n)) /\ Children(n) \subseteq Ids
  BY RowsFacts
<1>2. \A c, d \in Children(n) : c # d => Own(c) \cap Own(d) = {}
  BY <1>1, OwnApart
<1>3. DOMAIN B = Children(n) /\ \A c \in Children(n) : B[c] = D \cap Own(c)
  OBVIOUS
<1>4. AllOf(B, Children(n)) = D \cap Own(n)
  BY <1>3, OwnOfGroup DEF AllOf
<1>5. Sum([c \in Children(n) |-> Part(f, D \cap Own(c))]) = Sum([c \in DOMAIN B |-> Part(f, B[c])])
  BY <1>3
<1> HIDE DEF B
<1>6. Apart(B)
  BY <1>2, <1>3 DEF Apart
<1>7. \A c \in DOMAIN B : B[c] \subseteq DOMAIN f
  BY <1>3
<1>8. Sum([c \in DOMAIN B |-> Part(f, B[c])]) = Part(f, AllOf(B, DOMAIN B))
  BY <1>1, <1>3, <1>6, <1>7, PartOfMany
<1> QED
  BY <1>3, <1>4, <1>5, <1>8

\* A sum of numbers from 0 up is more than 0 when one of them is.
LEMMA PartPositive ==
    ASSUME NEW f, Numbers(f), NEW S, S \subseteq DOMAIN f, \A x \in S : f[x] >= 0
    PROVE  /\ Part(f, S) \in Nat
           /\ Part(f, S) > 0 <=> \E x \in S : f[x] > 0
<1> DEFINE W == {T \in SUBSET S : Part(f, T) \in Nat /\ (Part(f, T) > 0 <=> \E x \in T : f[x] > 0)}
<1>0. IsFiniteSet(S)
  BY FS_Subset DEF Numbers
<1>1. {} \in W
  <2>1. Part(f, {}) = 0
    BY PartFacts
  <2> QED
    BY <2>1
<1>2. ASSUME NEW T \in SUBSET S, NEW x \in S \ T, T \in W PROVE T \cup {x} \in W
  <2>1. T \subseteq DOMAIN f /\ x \in DOMAIN f \ T /\ f[x] >= 0 /\ T \cup {x} \in SUBSET S
    OBVIOUS
  <2>2. Part(f, T \cup {x}) = f[x] + Part(f, T) /\ f[x] \in Int
    BY <2>1, PartAndOne DEF Numbers
  <2>3. Part(f, T) \in Nat /\ (Part(f, T) > 0 <=> \E y \in T : f[y] > 0)
    BY <1>2
  <2>4. Part(f, T \cup {x}) \in Nat
    BY <2>1, <2>2, <2>3
  <2>5. Part(f, T \cup {x}) > 0 <=> (f[x] > 0 \/ Part(f, T) > 0)
    BY <2>1, <2>2, <2>3
  <2>6. (\E y \in T \cup {x} : f[y] > 0) <=> (f[x] > 0 \/ \E y \in T : f[y] > 0)
    OBVIOUS
  <2> QED
    BY <2>1, <2>3, <2>4, <2>5, <2>6
<1> HIDE DEF W
<1>3. SUBSET S \subseteq W
  BY <1>0, <1>1, <1>2, AllSubsets
<1>4. S \in W
  BY <1>3
<1> QED
  BY <1>4 DEF W

LEMMA RoundIsNumber ==
    ASSUME NEW n \in Nat, NEW d \in Nat, d > 0
    PROVE  Round(n, d) \in Nat
<1>1. 2 * n + d \in Nat /\ 2 * d \in Nat /\ 2 * d > 0
  OBVIOUS
<1>2. \A a \in Nat : \A b \in Nat : b > 0 => a \div b \in Nat
  OBVIOUS
<1> QED
  BY <1>1, <1>2 DEF Round

LEMMA DaysAreNumber ==
    ASSUME NEW from \in Int, NEW to \in Int
    PROVE  countWorkingDays(from, to) \in Nat
<1>1. to - 1 \in Int
  OBVIOUS
<1>2. IsFiniteSet(from .. to - 1)
  BY <1>1, FS_Interval
<1>3. IsFiniteSet({d \in from .. to - 1 : d % 7 < 5})
  BY <1>2, FS_Subset
<1> QED
  BY <1>3, FS_CardinalityType DEF countWorkingDays

LEMMA ElapsedIsNumber ==
    ASSUME NEW start \in Nat, NEW end \in Nat, todayIso \in Int, start <= todayIso, todayIso < end
    PROVE  Elapsed(start, end) \in Nat
<1> DEFINE a == countWorkingDays(start, todayIso)
           b == countWorkingDays(start, end)
<1>1. a \in Nat /\ b \in Nat
  BY DaysAreNumber
<1> HIDE DEF a, b
<1>2. CASE b > 0
  <2>1. 100 * a \in Nat
    BY <1>1
  <2>2. Round(100 * a, b) \in Nat
    BY <1>1, <1>2, <2>1, RoundIsNumber
  <2> QED
    BY <1>2, <2>2 DEF Elapsed, a, b
<1>3. CASE ~(b > 0)
  <2>1. 100 * (todayIso - start) \in Nat /\ end - start \in Nat /\ end - start > 0
    OBVIOUS
  <2>2. Round(100 * (todayIso - start), end - start) \in Nat
    BY <2>1, RoundIsNumber
  <2> QED
    BY <1>3, <2>2 DEF Elapsed, b
<1> QED
  BY <1>2, <1>3

\* An item is judged when it has both dates.
LEMMA ItemInfo ==
    ASSUME RowsInOrder, NEW n \in Items
    PROVE  LET info == getItemNodeDelayInfo(rows[n]) IN
           /\ n \in Judged(Items) => info.expected \in Nat /\ info.status \in Statuses
           /\ n \notin Judged(Items) => info.expected = None /\ info.status = "UNKNOWN"
           /\ info.actual = rows[n].progress
<1> DEFINE row == rows[n]
           e == calculateExpectedProgress(row.start, row.end)
<1>1. /\ n \in Ids /\ row.kind = "ITEM" /\ row.start \in Nat \cup {None} /\ row.end \in Nat \cup {None}
      /\ row.progress \in 0..100 /\ todayIso \in Int
  BY RowsFacts DEF Items, RowsInOrder
<1>2. n \in Judged(Items) <=> row.start # None /\ row.end # None
  BY DEF Judged
<1> HIDE DEF row
<1>3. ASSUME row.start = None \/ row.end = None PROVE e = None
  BY <1>3 DEF calculateExpectedProgress
<1>4. ASSUME row.start # None, row.end # None PROVE e \in Nat
  <2>1. row.start \in Nat /\ row.end \in Nat
    BY <1>1, <1>4
  <2>2. CASE todayIso < row.start
    <3>1. e = 0
      BY <1>1, <1>4, <2>1, <2>2 DEF calculateExpectedProgress
    <3> QED
      BY <3>1
  <2>3. CASE todayIso >= row.start /\ todayIso >= row.end
    <3>1. e = 100
      BY <1>1, <1>4, <2>1, <2>3 DEF calculateExpectedProgress
    <3> QED
      BY <3>1
  <2>4. CASE row.start <= todayIso /\ todayIso < row.end
    <3>1. e = Elapsed(row.start, row.end)
      BY <1>1, <1>4, <2>1, <2>4 DEF calculateExpectedProgress
    <3> QED
      BY <1>1, <2>1, <2>4, <3>1, ElapsedIsNumber
  <2> QED
    BY <1>1, <2>1, <2>2, <2>3, <2>4
<1>5. /\ getItemNodeDelayInfo(row).expected = e
      /\ getItemNodeDelayInfo(row).actual = row.progress
      /\ getItemNodeDelayInfo(row).status =
            IF e = None THEN "UNKNOWN"
            ELSE IF IsShortTerm(row.start, row.end) THEN ShortTermStatus(row)
            ELSE LongTermStatus(row, e - row.progress)
  BY <1>1 DEF getItemNodeDelayInfo
<1> HIDE DEF e
<1>6. ShortTermStatus(row) \in Statuses
  BY DEF ShortTermStatus, Statuses
<1>7. LongTermStatus(row, e - row.progress) \in Statuses
  BY DEF LongTermStatus, Statuses
<1>8. None \notin Nat
  BY DEF None
<1> QED
  BY <1>1, <1>2, <1>3, <1>4, <1>5, <1>6, <1>7, <1>8 DEF row

-------------------------------------------------------------------------------
(* Progress: what the recursive functions come to                          *)

Progresses == [m \in Items |-> rows[m].progress]
Ones       == [m \in Items |-> 1]

TotalsForm(n) == [sum |-> Part(Progresses, Own(n)), count |-> Part(Ones, Own(n))]

TotalsRule(t, n) ==
    IF n \in Items THEN [sum |-> rows[n].progress, count |-> 1]
    ELSE [sum   |-> Sum([c \in Children(n) |-> t[c].sum]),
          count |-> Sum([c \in Children(n) |-> t[c].count])]

IsTotals(t) == t = [n \in Ids |-> TotalsRule(t, n)]

\* The part of an item is its own number.
LEMMA PartOfOne ==
    ASSUME NEW f, Numbers(f), NEW x \in DOMAIN f
    PROVE  Part(f, {x}) = f[x]
<1>1. {x} \ {x} = {} /\ {x} \in SUBSET DOMAIN f
  OBVIOUS
<1>2. Part(f, {x}) = f[x] + Part(f, {x} \ {x})
  BY <1>1, PartFacts
<1>3. Part(f, {}) = 0 /\ f[x] \in Int
  BY PartFacts DEF Numbers
<1>4. Part(f, {x} \ {x}) = Part(f, {})
  BY <1>1
<1>5. Part(f, {x} \ {x}) = 0
  BY <1>3, <1>4
<1> QED
  BY <1>2, <1>3, <1>5

LEMMA ItemNumbers ==
    ASSUME RowsInOrder
    PROVE  /\ Numbers(Progresses) /\ DOMAIN Progresses = Items
           /\ Numbers(Ones) /\ DOMAIN Ones = Items
<1>1. IsFiniteSet(Items) /\ \A n \in Items : rows[n].progress \in 0..100
  BY RowsFacts
<1> QED
  BY <1>1 DEF Numbers, Progresses, Ones

LEMMA TotalsStep ==
    ASSUME RowsInOrder, NEW t, NEW n \in Ids, \A c \in Children(n) : t[c] = TotalsForm(c)
    PROVE  TotalsRule(t, n) = TotalsForm(n)
<1>0. /\ Numbers(Progresses) /\ DOMAIN Progresses = Items
      /\ Numbers(Ones) /\ DOMAIN Ones = Items
  BY ItemNumbers
<1>1. CASE n \in Items
  <2>1. Own(n) = {n}
    BY <1>1 DEF Own
  <2>2. Part(Progresses, {n}) = Progresses[n] /\ Part(Ones, {n}) = Ones[n]
    BY <1>0, <1>1, PartOfOne
  <2>3. Progresses[n] = rows[n].progress /\ Ones[n] = 1
    BY <1>1 DEF Progresses, Ones
  <2> QED
    BY <1>1, <2>1, <2>2, <2>3 DEF TotalsRule, TotalsForm
<1>2. CASE n \notin Items
  <2>1. n \in Groups /\ \A c \in Children(n) : c \in Ids
    BY <1>2, RowsFacts
  <2>2. \A c \in Ids : Items \cap Own(c) = Own(c)
    BY OwnFacts
  <2>3. /\ Sum([c \in Children(n) |-> Part(Progresses, Items \cap Own(c))]) = Part(Progresses, Items \cap Own(n))
        /\ Sum([c \in Children(n) |-> Part(Ones, Items \cap Own(c))]) = Part(Ones, Items \cap Own(n))
    BY <1>0, <2>1, SumBelow
  <2>4. /\ [c \in Children(n) |-> t[c].sum] = [c \in Children(n) |-> Part(Progresses, Items \cap Own(c))]
        /\ [c \in Children(n) |-> t[c].count] = [c \in Children(n) |-> Part(Ones, Items \cap Own(c))]
    <3>1. \A c \in Children(n) : t[c].sum = Part(Progresses, Own(c)) /\ t[c].count = Part(Ones, Own(c))
      <4> TAKE c \in Children(n)
      <4>1. t[c] = [sum |-> Part(Progresses, Own(c)), count |-> Part(Ones, Own(c))]
        BY DEF TotalsForm
      <4> QED
        BY <4>1
    <3>2. \A c \in Children(n) : /\ t[c].sum = Part(Progresses, Items \cap Own(c))
                                 /\ t[c].count = Part(Ones, Items \cap Own(c))
      BY <2>1, <2>2, <3>1
    <3> QED
      BY <3>2
  <2>5. Items \cap Own(n) = Own(n)
    BY <2>2
  <2> QED
    BY <1>2, <2>3, <2>4, <2>5 DEF TotalsRule, TotalsForm
<1> QED
  BY <1>1, <1>2

LEMMA TotalsAre ==
    ASSUME RowsInOrder
    PROVE  \A n \in Ids : Totals[n] = TotalsForm(n)
<1> DEFINE u == [n \in Ids |-> TotalsForm(n)]
<1>0. \A n : \A c \in Children(n) : c \in Ids
  BY RowsFacts
<1>1. \A n \in Ids : u[n] = TotalsForm(n)
  OBVIOUS
<1>2. IsTotals(u)
  <2>1. \A n \in Ids : TotalsRule(u, n) = TotalsForm(n)
    <3> HIDE DEF u
    <3> TAKE n \in Ids
    <3>1. \A c \in Children(n) : u[c] = TotalsForm(c)
      BY <1>0, <1>1
    <3> QED
      BY <3>1, TotalsStep
  <2>2. u = [n \in Ids |-> TotalsRule(u, n)]
    <3> QED
      BY <2>1
  <2> QED
    BY <2>2 DEF IsTotals
<1> HIDE DEF u
<1>3. Totals = CHOOSE t : IsTotals(t)
  BY DEF Totals, IsTotals, TotalsRule
<1>4. IsTotals(Totals)
  BY <1>2, <1>3
<1> DEFINE t == Totals
           W == {n \in Ids : t[n] = TotalsForm(n)}
<1>5. IsTotals(t)
  BY <1>4
<1> HIDE DEF t
<1>6. ASSUME NEW n \in Ids, \A c \in Children(n) : c \in W PROVE n \in W
  <2>1. \A c \in Children(n) : t[c] = TotalsForm(c)
    BY <1>6
  <2>2. TotalsRule(t, n) = TotalsForm(n)
    BY <2>1, TotalsStep
  <2>3. t[n] = TotalsRule(t, n)
    BY <1>5 DEF IsTotals
  <2> QED
    BY <2>2, <2>3
<1> HIDE DEF W
<1>7. Ids \subseteq W
  BY <1>6, RowsUpwards
<1> QED
  BY <1>7 DEF W, t

\* The items that can be judged, and what each adds.
Valid          == Judged(Items)
Expecteds      == [m \in Valid |-> getItemNodeDelayInfo(rows[m]).expected]
Actuals        == [m \in Valid |-> rows[m].progress]
Judgements     == [m \in Valid |-> 1]
WithStatus(st) == [m \in Valid |-> IF getItemNodeDelayInfo(rows[m]).status = st THEN 1 ELSE 0]

CountsOver(S) == [st \in Statuses |-> Part(WithStatus(st), S)]

AccOver(S) ==
    [expected |-> Part(Expecteds, S), actual |-> Part(Actuals, S),
     valid |-> Part(Judgements, S), counts |-> CountsOver(S)]

LEMMA ValidNumbers ==
    ASSUME RowsInOrder
    PROVE  /\ Valid \subseteq Items /\ IsFiniteSet(Valid)
           /\ Numbers(Expecteds) /\ DOMAIN Expecteds = Valid
           /\ Numbers(Actuals) /\ DOMAIN Actuals = Valid
           /\ Numbers(Judgements) /\ DOMAIN Judgements = Valid
           /\ \A st : Numbers(WithStatus(st)) /\ DOMAIN WithStatus(st) = Valid
<1>1. IsFiniteSet(Items) /\ \A n \in Items : rows[n].progress \in 0..100
  BY RowsFacts
<1>2. Valid \subseteq Items
  BY DEF Valid, Judged
<1>3. IsFiniteSet(Valid)
  BY <1>1, <1>2, FS_Subset
<1>4. \A n \in Valid : getItemNodeDelayInfo(rows[n]).expected \in Nat
  BY <1>2, ItemInfo DEF Valid
<1>5. Numbers(Expecteds) /\ DOMAIN Expecteds = Valid
  BY <1>3, <1>4 DEF Numbers, Expecteds
<1>6. Numbers(Actuals) /\ DOMAIN Actuals = Valid
  BY <1>1, <1>2, <1>3 DEF Numbers, Actuals
<1>7. Numbers(Judgements) /\ DOMAIN Judgements = Valid
  BY <1>3 DEF Numbers, Judgements
<1>8. \A st : Numbers(WithStatus(st)) /\ DOMAIN WithStatus(st) = Valid
  BY <1>3 DEF Numbers, WithStatus
<1> QED
  BY <1>2, <1>3, <1>5, <1>6, <1>7, <1>8

\* An item adds itself, when it can be judged.
LEMMA ItemAdds ==
    ASSUME RowsInOrder, NEW n \in Items
    PROVE  addToAccumulator(emptyAccumulator, getItemNodeDelayInfo(rows[n])) = AccOver(Valid \cap {n})
<1> DEFINE info == getItemNodeDelayInfo(rows[n])
           e == emptyAccumulator
<1>0. /\ n \in Valid => info.expected \in Nat /\ info.status \in Statuses
      /\ n \notin Valid => info.expected = None /\ info.status = "UNKNOWN"
      /\ info.actual = rows[n].progress
  BY ItemInfo DEF Valid
<1>1. /\ Numbers(Expecteds) /\ DOMAIN Expecteds = Valid
      /\ Numbers(Actuals) /\ DOMAIN Actuals = Valid
      /\ Numbers(Judgements) /\ DOMAIN Judgements = Valid
      /\ \A st : Numbers(WithStatus(st)) /\ DOMAIN WithStatus(st) = Valid
  BY ValidNumbers
<1>2. e.expected = 0 /\ e.actual = 0 /\ e.valid = 0 /\ e.counts = [st \in Statuses |-> 0]
  BY DEF emptyAccumulator
<1>3. rows[n].progress \in 0..100
  BY RowsFacts
<1>4. CASE n \notin Valid
  <2>1. Valid \cap {n} = {}
    BY <1>4
  <2>2. Part(Expecteds, {}) = 0 /\ Part(Actuals, {}) = 0 /\ Part(Judgements, {}) = 0
    BY <1>1, PartFacts
  <2>3. \A st : Part(WithStatus(st), {}) = 0
    BY <1>1, PartFacts
  <2>4. CountsOver({}) = [st \in Statuses |-> 0]
    BY <2>3 DEF CountsOver
  <2>5. AccOver({}) = e
    BY <2>2, <2>4 DEF AccOver, emptyAccumulator
  <2>6. addToAccumulator(e, info) = e
    BY <1>0, <1>4 DEF addToAccumulator
  <2> QED
    BY <2>1, <2>5, <2>6
<1>5. CASE n \in Valid
  <2>1. Valid \cap {n} = {n}
    BY <1>5
  <2>2. Part(Expecteds, {n}) = info.expected /\ Part(Actuals, {n}) = info.actual /\ Part(Judgements, {n}) = 1
    <3>1. /\ Part(Expecteds, {n}) = Expecteds[n] /\ Part(Actuals, {n}) = Actuals[n]
          /\ Part(Judgements, {n}) = Judgements[n]
      BY <1>1, <1>5, PartOfOne
    <3>2. Expecteds[n] = info.expected /\ Actuals[n] = rows[n].progress /\ Judgements[n] = 1
      BY <1>5 DEF Expecteds, Actuals, Judgements
    <3> QED
      BY <1>0, <3>1, <3>2
  <2>3. \A st : Part(WithStatus(st), {n}) = IF info.status = st THEN 1 ELSE 0
    <3> TAKE st
    <3>1. Part(WithStatus(st), {n}) = WithStatus(st)[n]
      BY <1>1, <1>5, PartOfOne
    <3>2. WithStatus(st)[n] = IF info.status = st THEN 1 ELSE 0
      BY <1>5 DEF WithStatus
    <3> QED
      BY <3>1, <3>2
  <2> DEFINE added == addToAccumulator(e, info)
             counts == [e.counts EXCEPT ![info.status] = @ + 1]
  <2>4. info.status # "UNKNOWN" /\ info.status \in Statuses /\ info.expected \in Int /\ info.actual \in Int
    BY <1>0, <1>3, <1>5 DEF Statuses
  <2>5. added = [expected |-> info.expected, actual |-> info.actual, valid |-> 1, counts |-> counts]
    <3> HIDE DEF info, e, counts
    <3>1. added = [expected |-> e.expected + info.expected, actual |-> e.actual + info.actual,
                   valid |-> e.valid + 1, counts |-> counts]
      BY <2>4 DEF addToAccumulator, counts
    <3> QED
      BY <1>2, <2>4, <3>1
  <2>6. counts = [st \in Statuses |-> IF info.status = st THEN 1 ELSE 0]
    <3> HIDE DEF info, e
    <3> QED
      BY <1>2, <2>4
  <2>7. CountsOver({n}) = [st \in Statuses |-> IF info.status = st THEN 1 ELSE 0]
    BY <2>3 DEF CountsOver
  <2> HIDE DEF info, e, counts, added
  <2>8. AccOver({n}) = added
    BY <2>2, <2>5, <2>6, <2>7 DEF AccOver
  <2> QED
    BY <2>1, <2>8 DEF added, e, info
<1> QED
  BY <1>4, <1>5

\* Accumulators of sets that have nothing in common.
LEMMA MergeAdds ==
    ASSUME RowsInOrder, NEW accs, NEW B, IsFiniteSet(DOMAIN B), DOMAIN accs = DOMAIN B, Apart(B),
           \A c \in DOMAIN B : B[c] \subseteq Valid /\ accs[c] = AccOver(B[c])
    PROVE  mergeAccumulators(accs) = AccOver(AllOf(B, DOMAIN B))
<1> DEFINE C == DOMAIN B
<1>1. /\ Numbers(Expecteds) /\ DOMAIN Expecteds = Valid
      /\ Numbers(Actuals) /\ DOMAIN Actuals = Valid
      /\ Numbers(Judgements) /\ DOMAIN Judgements = Valid
      /\ \A st : Numbers(WithStatus(st)) /\ DOMAIN WithStatus(st) = Valid
  BY ValidNumbers
<1>2. \A f : Numbers(f) /\ DOMAIN f = Valid =>
         Sum([c \in C |-> Part(f, B[c])]) = Part(f, AllOf(B, C))
  <2> TAKE f
  <2> HAVE Numbers(f) /\ DOMAIN f = Valid
  <2> QED
    BY PartOfMany
<1>3. \A c \in C : /\ accs[c].expected = Part(Expecteds, B[c]) /\ accs[c].actual = Part(Actuals, B[c])
                   /\ accs[c].valid = Part(Judgements, B[c]) /\ accs[c].counts = CountsOver(B[c])
  <2> TAKE c \in C
  <2>1. accs[c] = [expected |-> Part(Expecteds, B[c]), actual |-> Part(Actuals, B[c]),
                   valid |-> Part(Judgements, B[c]), counts |-> CountsOver(B[c])]
    BY DEF AccOver
  <2> QED
    BY <2>1
<1>4. \A c \in C : \A st \in Statuses : accs[c].counts[st] = Part(WithStatus(st), B[c])
  BY <1>3 DEF CountsOver
<1>5. Sum([c \in DOMAIN accs |-> accs[c].expected]) = Part(Expecteds, AllOf(B, C))
  <2>1. [c \in DOMAIN accs |-> accs[c].expected] = [c \in C |-> Part(Expecteds, B[c])]
    BY <1>3
  <2> QED
    BY <1>1, <1>2, <2>1
<1>6. Sum([c \in DOMAIN accs |-> accs[c].actual]) = Part(Actuals, AllOf(B, C))
  <2>1. [c \in DOMAIN accs |-> accs[c].actual] = [c \in C |-> Part(Actuals, B[c])]
    BY <1>3
  <2> QED
    BY <1>1, <1>2, <2>1
<1>7. Sum([c \in DOMAIN accs |-> accs[c].valid]) = Part(Judgements, AllOf(B, C))
  <2>1. [c \in DOMAIN accs |-> accs[c].valid] = [c \in C |-> Part(Judgements, B[c])]
    BY <1>3
  <2> QED
    BY <1>1, <1>2, <2>1
<1>8. [st \in Statuses |-> Sum([c \in DOMAIN accs |-> accs[c].counts[st]])] = CountsOver(AllOf(B, C))
  <2>1. ASSUME NEW st \in Statuses
        PROVE  Sum([c \in DOMAIN accs |-> accs[c].counts[st]]) = Part(WithStatus(st), AllOf(B, C))
    <3>1. [c \in DOMAIN accs |-> accs[c].counts[st]] = [c \in C |-> Part(WithStatus(st), B[c])]
      BY <1>4
    <3> QED
      BY <1>1, <1>2, <3>1
  <2> QED
    BY <2>1 DEF CountsOver
<1> QED
  BY <1>5, <1>6, <1>7, <1>8 DEF mergeAccumulators, merged, AccOver

AccRule(t, n) ==
    IF n \in Items THEN addToAccumulator(emptyAccumulator, getItemNodeDelayInfo(rows[n]))
    ELSE mergeAccumulators([c \in Children(n) |-> t[c]])

IsAccumulators(t) == t = [n \in Ids |-> AccRule(t, n)]

AccForm(n) == AccOver(Valid \cap Own(n))

LEMMA AccStep ==
    ASSUME RowsInOrder, NEW t, NEW n \in Ids, \A c \in Children(n) : t[c] = AccForm(c)
    PROVE  AccRule(t, n) = AccForm(n)
<1>1. CASE n \in Items
  <2>1. Own(n) = {n}
    BY <1>1 DEF Own
  <2>2. AccRule(t, n) = AccOver(Valid \cap {n})
    BY <1>1, ItemAdds DEF AccRule
  <2> QED
    BY <2>1, <2>2 DEF AccForm
<1>2. CASE n \notin Items
  <2> DEFINE B == [c \in Children(n) |-> Valid \cap Own(c)]
             accs == [c \in Children(n) |-> t[c]]
  <2>1. n \in Groups /\ IsFiniteSet(Children(n)) /\ \A c \in Children(n) : c \in Ids
    BY <1>2, RowsFacts
  <2>2. \A c, d \in Children(n) : c # d => Own(c) \cap Own(d) = {}
    BY OwnApart
  <2>3. DOMAIN B = Children(n) /\ DOMAIN accs = DOMAIN B /\ \A c \in Children(n) : B[c] = Valid \cap Own(c)
    OBVIOUS
  <2>4. \A c \in DOMAIN B : B[c] \subseteq Valid /\ accs[c] = AccOver(B[c])
    BY DEF AccForm
  <2>5. AccRule(t, n) = mergeAccumulators(accs)
    BY <1>2 DEF AccRule
  <2>6. AllOf(B, DOMAIN B) = Valid \cap Own(n)
    BY <2>1, <2>3, OwnOfGroup DEF AllOf
  <2> HIDE DEF B, accs
  <2>7. Apart(B)
    BY <2>2, <2>3 DEF Apart
  <2>8. mergeAccumulators(accs) = AccOver(AllOf(B, DOMAIN B))
    BY <2>1, <2>3, <2>4, <2>7, MergeAdds
  <2> QED
    BY <2>5, <2>6, <2>8 DEF AccForm
<1> QED
  BY <1>1, <1>2

LEMMA AccumulatorsAre ==
    ASSUME RowsInOrder
    PROVE  \A n \in Ids : Accumulators[n] = AccForm(n)
<1> DEFINE u == [n \in Ids |-> AccForm(n)]
<1>0. \A n : \A c \in Children(n) : c \in Ids
  BY RowsFacts
<1>1. \A n \in Ids : u[n] = AccForm(n)
  OBVIOUS
<1>2. IsAccumulators(u)
  <2>1. \A n \in Ids : AccRule(u, n) = AccForm(n)
    <3> HIDE DEF u
    <3> TAKE n \in Ids
    <3>1. \A c \in Children(n) : u[c] = AccForm(c)
      BY <1>0, <1>1
    <3> QED
      BY <3>1, AccStep
  <2>2. u = [n \in Ids |-> AccRule(u, n)]
    BY <2>1
  <2> QED
    BY <2>2 DEF IsAccumulators
<1> HIDE DEF u
<1>3. Accumulators = CHOOSE t : IsAccumulators(t)
  BY DEF Accumulators, IsAccumulators, AccRule
<1> DEFINE t == Accumulators
           W == {n \in Ids : t[n] = AccForm(n)}
<1>4. IsAccumulators(t)
  BY <1>2, <1>3
<1> HIDE DEF t
<1>5. ASSUME NEW n \in Ids, \A c \in Children(n) : c \in W PROVE n \in W
  <2>1. \A c \in Children(n) : t[c] = AccForm(c)
    BY <1>5
  <2>2. AccRule(t, n) = AccForm(n)
    BY <2>1, AccStep
  <2>3. t[n] = AccRule(t, n)
    BY <1>4 DEF IsAccumulators
  <2> QED
    BY <2>2, <2>3
<1> HIDE DEF W
<1>6. Ids \subseteq W
  BY <1>5, RowsUpwards
<1> QED
  BY <1>6 DEF W, t

-------------------------------------------------------------------------------
(* Progress: the first and the last of some days                           *)

Starts(S) == {rows[m].start : m \in S}
Ends(S)   == {rows[m].end : m \in S}

LEMMA SmallestIs ==
    ASSUME NEW X, X \subseteq Nat, NEW x \in X, \A y \in X : x <= y
    PROVE  Smallest(X) = x
<1>1. \A z \in X : (\A y \in X : z <= y) => z = x
  OBVIOUS
<1>2. X # {}
  OBVIOUS
<1> QED
  BY <1>1, <1>2 DEF Smallest

LEMMA LargestIs ==
    ASSUME NEW X, X \subseteq Nat, NEW x \in X, \A y \in X : x >= y
    PROVE  Largest(X) = x
<1>1. \A z \in X : (\A y \in X : z >= y) => z = x
  OBVIOUS
<1>2. X # {}
  OBVIOUS
<1> QED
  BY <1>1, <1>2 DEF Largest

\* Every set of days but the empty one has a first,
LEMMA SmallestFacts ==
    ASSUME NEW X, X \subseteq Nat, X # {}
    PROVE  Smallest(X) \in X /\ \A y \in X : Smallest(X) <= y
<1> DEFINE K == {k \in Nat : (\E x \in X : x <= k) => \E x \in X : \A y \in X : x <= y}
<1>1. 0 \in K
  OBVIOUS
<1>2. \A k \in Nat : k \in K => k + 1 \in K
  <2> TAKE k \in Nat
  <2> HAVE k \in K
  <2>1. CASE \E x \in X : x <= k
    BY <2>1
  <2>2. CASE ~ \E x \in X : x <= k
    <3>1. \A y \in X : k + 1 <= y
      BY <2>2
    <3>2. ASSUME NEW x \in X, x <= k + 1 PROVE \A y \in X : x <= y
      <4>1. x = k + 1
        BY <3>1, <3>2
      <4> QED
        BY <3>1, <4>1
    <3> QED
      BY <3>2
  <2> QED
    BY <2>1, <2>2
<1> HIDE DEF K
<1>3. Nat \subseteq K
  BY <1>1, <1>2, AllNumbers
<1>4. PICK x \in X : TRUE
  OBVIOUS
<1>5. x \in K /\ x <= x
  BY <1>3
<1>6. \E z \in X : \A y \in X : z <= y
  BY <1>5 DEF K
<1>7. PICK z \in X : \A y \in X : z <= y
  BY <1>6
<1>8. Smallest(X) = z
  BY <1>7, SmallestIs
<1> QED
  BY <1>7, <1>8

\* and a finite one has a last.
LEMMA LargestFacts ==
    ASSUME NEW X, X \subseteq Nat, X # {}, IsFiniteSet(X)
    PROVE  Largest(X) \in X /\ \A y \in X : Largest(X) >= y
<1> DEFINE W == {S \in SUBSET X : S # {} => \E x \in S : \A y \in S : x >= y}
<1>1. {} \in W
  OBVIOUS
<1>2. ASSUME NEW S \in SUBSET X, NEW x \in X \ S, S \in W PROVE S \cup {x} \in W
  <2>1. CASE S = {}
    BY <2>1
  <2>2. CASE S # {}
    <3>1. PICK z \in S : \A y \in S : z >= y
      BY <1>2, <2>2
    <3>2. CASE z >= x
      BY <3>1, <3>2
    <3>3. CASE ~(z >= x)
      <4>1. \A y \in S \cup {x} : x >= y
        BY <3>1, <3>3
      <4> QED
        BY <4>1
    <3> QED
      BY <3>2, <3>3
  <2> QED
    BY <2>1, <2>2
<1> HIDE DEF W
<1>3. SUBSET X \subseteq W
  BY <1>1, <1>2, AllSubsets
<1>4. X \in W
  BY <1>3
<1>5. PICK z \in X : \A y \in X : z >= y
  BY <1>4 DEF W
<1>6. Largest(X) = z
  BY <1>5, LargestIs
<1> QED
  BY <1>5, <1>6

\* A part that has something as early, or as late, as anything.
LEMMA SmallestOfPart ==
    ASSUME NEW A, A \subseteq Nat, NEW B, B \subseteq A, \A a \in A : \E b \in B : b <= a
    PROVE  Smallest(A) = Smallest(B)
<1>1. CASE A = {}
  BY <1>1
<1>2. CASE A # {}
  <2>1. B # {} /\ B \subseteq Nat
    BY <1>2
  <2>2. Smallest(B) \in B /\ \A b \in B : Smallest(B) <= b
    BY <2>1, SmallestFacts
  <2>3. \A a \in A : Smallest(B) <= a
    <3> DEFINE v == Smallest(B)
    <3>1. v \in Nat /\ \A b \in B : v <= b
      BY <2>1, <2>2
    <3> HIDE DEF v
    <3> TAKE a \in A
    <3>2. PICK b \in B : b <= a
      OBVIOUS
    <3>3. v <= b /\ b \in Nat /\ a \in Nat
      BY <2>1, <3>1
    <3>4. v <= a
      BY <3>1, <3>2, <3>3
    <3> QED
      BY <3>4 DEF v
  <2> QED
    BY <2>2, <2>3, SmallestIs
<1> QED
  BY <1>1, <1>2

LEMMA LargestOfPart ==
    ASSUME NEW A, A \subseteq Nat, IsFiniteSet(A), NEW B, B \subseteq A, \A a \in A : \E b \in B : b >= a
    PROVE  Largest(A) = Largest(B)
<1>1. CASE A = {}
  BY <1>1
<1>2. CASE A # {}
  <2>1. B # {} /\ B \subseteq Nat /\ IsFiniteSet(B)
    BY <1>2, FS_Subset
  <2>2. Largest(B) \in B /\ \A b \in B : Largest(B) >= b
    BY <2>1, LargestFacts
  <2>3. \A a \in A : Largest(B) >= a
    <3> DEFINE v == Largest(B)
    <3>1. v \in Nat /\ \A b \in B : v >= b
      BY <2>1, <2>2
    <3> HIDE DEF v
    <3> TAKE a \in A
    <3>2. PICK b \in B : b >= a
      OBVIOUS
    <3>3. v >= b /\ b \in Nat /\ a \in Nat
      BY <2>1, <3>1
    <3>4. v >= a
      BY <3>1, <3>2, <3>3
    <3> QED
      BY <3>4 DEF v
  <2> QED
    BY <2>2, <2>3, LargestIs
<1> QED
  BY <1>1, <1>2

LEMMA ItemDays ==
    ASSUME RowsInOrder, NEW S, S \subseteq Items
    PROVE  /\ Dates(Starts(S)) \subseteq Nat
           /\ Dates(Ends(S)) \subseteq Nat /\ IsFiniteSet(Dates(Ends(S)))
<1>1. \A n \in S : rows[n].start \in Nat \cup {None} /\ rows[n].end \in Nat \cup {None}
  BY RowsFacts
<1>2. IsFiniteSet(S)
  BY RowsFacts, FS_Subset
<1> DEFINE g == [m \in S |-> rows[m].end]
<1>3. g \in Surjection(S, Ends(S))
  BY DEF Surjection, Ends
<1>4. IsFiniteSet(Ends(S))
  BY <1>2, <1>3, FS_Surjection
<1>5. IsFiniteSet(Dates(Ends(S)))
  BY <1>4, FS_Subset DEF Dates
<1> QED
  BY <1>1, <1>5 DEF Dates, Starts, Ends

\* The days of an item by itself.
LEMMA DayOfOne ==
    ASSUME NEW x \in Nat \cup {None}
    PROVE  Smallest(Dates({x})) = x /\ Largest(Dates({x})) = x
<1>1. CASE x = None
  <2>1. Dates({x}) = {}
    BY <1>1 DEF Dates
  <2> QED
    BY <1>1, <2>1 DEF Smallest, Largest
<1>2. CASE x \in Nat
  <2>1. Dates({x}) = {x} /\ {x} \subseteq Nat
    BY <1>2 DEF Dates, None
  <2>2. Smallest({x}) = x
    BY <1>2, <2>1, SmallestIs
  <2>3. Largest({x}) = x
    BY <1>2, <2>1, LargestIs
  <2> QED
    BY <2>1, <2>2, <2>3
<1> QED
  BY <1>1, <1>2

\* The first of the first days of many sets is the first day of all.
LEMMA SmallestOfMany ==
    ASSUME RowsInOrder, NEW B, \A c \in DOMAIN B : B[c] \subseteq Items
    PROVE  Smallest(Dates({Smallest(Dates(Starts(B[c]))) : c \in DOMAIN B}))
             = Smallest(Dates(Starts(AllOf(B, DOMAIN B))))
<1> DEFINE first(c) == Smallest(Dates(Starts(B[c])))
           F == Dates({first(c) : c \in DOMAIN B})
           A == Dates(Starts(AllOf(B, DOMAIN B)))
<1>1. AllOf(B, DOMAIN B) \subseteq Items
  BY DEF AllOf
<1>2. A \subseteq Nat
  BY <1>1, ItemDays
<1>3. \A x : x \in A <=> \E c \in DOMAIN B : x \in Dates(Starts(B[c]))
  BY DEF AllOf, Dates, Starts
<1>4. \A c \in DOMAIN B : /\ Dates(Starts(B[c])) \subseteq Nat
                          /\ Dates(Starts(B[c])) = {} => first(c) = None
                          /\ Dates(Starts(B[c])) # {} => /\ first(c) \in Dates(Starts(B[c]))
                                                         /\ \A y \in Dates(Starts(B[c])) : first(c) <= y
  <2> TAKE c \in DOMAIN B
  <2>1. Dates(Starts(B[c])) \subseteq Nat
    BY ItemDays
  <2>2. ASSUME Dates(Starts(B[c])) = {} PROVE first(c) = None
    BY <2>2 DEF Smallest
  <2> QED
    BY <2>1, <2>2, SmallestFacts
<1> HIDE DEF A
<1>5. \A x : x \in F <=> x # None /\ \E c \in DOMAIN B : x = first(c)
  BY DEF Dates
<1> HIDE DEF F, first
<1>6. F \subseteq A
  BY <1>3, <1>4, <1>5
<1>7. \A a \in A : \E b \in F : b <= a
  <2> TAKE a \in A
  <2>1. PICK c \in DOMAIN B : a \in Dates(Starts(B[c]))
    BY <1>3
  <2>2. first(c) <= a /\ first(c) \in Nat
    BY <1>4, <2>1
  <2>3. first(c) \in F
    BY <1>5, <2>2 DEF None
  <2> QED
    BY <2>2, <2>3
<1>8. Smallest(A) = Smallest(F)
  BY <1>2, <1>6, <1>7, SmallestOfPart
<1> QED
  BY <1>8 DEF A, F, first

LEMMA LargestOfMany ==
    ASSUME RowsInOrder, NEW B, \A c \in DOMAIN B : B[c] \subseteq Items
    PROVE  Largest(Dates({Largest(Dates(Ends(B[c]))) : c \in DOMAIN B}))
             = Largest(Dates(Ends(AllOf(B, DOMAIN B))))
<1> DEFINE last(c) == Largest(Dates(Ends(B[c])))
           F == Dates({last(c) : c \in DOMAIN B})
           A == Dates(Ends(AllOf(B, DOMAIN B)))
<1>1. AllOf(B, DOMAIN B) \subseteq Items
  BY DEF AllOf
<1>2. A \subseteq Nat /\ IsFiniteSet(A)
  BY <1>1, ItemDays
<1>3. \A x : x \in A <=> \E c \in DOMAIN B : x \in Dates(Ends(B[c]))
  BY DEF AllOf, Dates, Ends
<1>4. \A c \in DOMAIN B : /\ Dates(Ends(B[c])) \subseteq Nat
                          /\ Dates(Ends(B[c])) = {} => last(c) = None
                          /\ Dates(Ends(B[c])) # {} => /\ last(c) \in Dates(Ends(B[c]))
                                                       /\ \A y \in Dates(Ends(B[c])) : last(c) >= y
  <2> TAKE c \in DOMAIN B
  <2>1. Dates(Ends(B[c])) \subseteq Nat /\ IsFiniteSet(Dates(Ends(B[c])))
    BY ItemDays
  <2>2. ASSUME Dates(Ends(B[c])) = {} PROVE last(c) = None
    BY <2>2 DEF Largest
  <2> QED
    BY <2>1, <2>2, LargestFacts
<1> HIDE DEF A
<1>5. \A x : x \in F <=> x # None /\ \E c \in DOMAIN B : x = last(c)
  BY DEF Dates
<1> HIDE DEF F, last
<1>6. F \subseteq A
  BY <1>3, <1>4, <1>5
<1>7. \A a \in A : \E b \in F : b >= a
  <2> TAKE a \in A
  <2>1. PICK c \in DOMAIN B : a \in Dates(Ends(B[c]))
    BY <1>3
  <2>2. last(c) >= a /\ last(c) \in Nat
    BY <1>4, <2>1
  <2>3. last(c) \in F
    BY <1>5, <2>2 DEF None
  <2> QED
    BY <2>2, <2>3
<1>8. Largest(A) = Largest(F)
  BY <1>2, <1>6, <1>7, LargestOfPart
<1> QED
  BY <1>8 DEF A, F, last

EffectiveRule(all, t, n) ==
    LET below == {t[c] : c \in {c \in DOMAIN all : all[c].parent = n}} IN
    IF all[n].kind = "ITEM" THEN [start |-> all[n].start, end |-> all[n].end]
    ELSE [start |-> Smallest(Dates({e.start : e \in below})),
          end   |-> Largest(Dates({e.end : e \in below}))]

IsEffective(all, t) == t = [n \in DOMAIN all |-> EffectiveRule(all, t, n)]

EffectiveForm(n) ==
    [start |-> Smallest(Dates(Starts(Own(n)))), end |-> Largest(Dates(Ends(Own(n))))]

LEMMA EffectiveStep ==
    ASSUME RowsInOrder, NEW t, NEW n \in Ids, \A c \in Children(n) : t[c] = EffectiveForm(c)
    PROVE  EffectiveRule(rows, t, n) = EffectiveForm(n)
<1>0. rows[n].start \in Nat \cup {None} /\ rows[n].end \in Nat \cup {None}
  BY RowsFacts
<1>1. CASE n \in Items
  <2>1. Starts(Own(n)) = {rows[n].start} /\ Ends(Own(n)) = {rows[n].end}
    BY <1>1 DEF Own, Starts, Ends
  <2>2. Smallest(Dates({rows[n].start})) = rows[n].start /\ Largest(Dates({rows[n].end})) = rows[n].end
    BY <1>0, DayOfOne
  <2>3. rows[n].kind = "ITEM"
    BY <1>1 DEF Items
  <2>4. EffectiveForm(n) = [start |-> rows[n].start, end |-> rows[n].end]
    BY <2>1, <2>2 DEF EffectiveForm
  <2> QED
    BY <2>3, <2>4 DEF EffectiveRule
<1>2. CASE n \notin Items
  <2> DEFINE B == [c \in Children(n) |-> Own(c)]
             below == {t[c] : c \in {c \in DOMAIN rows : rows[c].parent = n}}
  <2>1. n \in Groups /\ rows[n].kind # "ITEM" /\ Children(n) \subseteq Ids
    BY <1>2, RowsFacts DEF Items
  <2>2. DOMAIN B = Children(n) /\ \A c \in Children(n) : B[c] = Own(c)
    OBVIOUS
  <2>3. \A c \in DOMAIN B : B[c] \subseteq Items
    BY <2>1, OwnFacts
  <2>4. AllOf(B, DOMAIN B) = Own(n)
    BY <2>1, <2>2, OwnOfGroup DEF AllOf
  <2>5. \A c \in Children(n) : /\ t[c].start = Smallest(Dates(Starts(B[c])))
                               /\ t[c].end = Largest(Dates(Ends(B[c])))
    <3> TAKE c \in Children(n)
    <3>1. t[c] = [start |-> Smallest(Dates(Starts(Own(c)))), end |-> Largest(Dates(Ends(Own(c))))]
      BY DEF EffectiveForm
    <3> QED
      BY <2>2, <3>1
  <2> HIDE DEF B
  <2>6. {c \in DOMAIN rows : rows[c].parent = n} = DOMAIN B
    BY <2>2 DEF Children, Ids
  <2>7. {e.start : e \in below} = {Smallest(Dates(Starts(B[c]))) : c \in DOMAIN B}
    <3>1. below = {t[c] : c \in DOMAIN B}
      BY <2>6
    <3> HIDE DEF below
    <3> QED
      BY <2>2, <2>5, <3>1
  <2>8. {e.end : e \in below} = {Largest(Dates(Ends(B[c]))) : c \in DOMAIN B}
    <3>1. below = {t[c] : c \in DOMAIN B}
      BY <2>6
    <3> HIDE DEF below
    <3> QED
      BY <2>2, <2>5, <3>1
  <2>9. EffectiveRule(rows, t, n) = [start |-> Smallest(Dates({e.start : e \in below})),
                                     end   |-> Largest(Dates({e.end : e \in below}))]
    BY <2>1 DEF EffectiveRule
  <2> HIDE DEF below
  <2>10. Smallest(Dates({e.start : e \in below})) = Smallest(Dates(Starts(Own(n))))
    BY <2>3, <2>4, <2>7, SmallestOfMany
  <2>11. Largest(Dates({e.end : e \in below})) = Largest(Dates(Ends(Own(n))))
    BY <2>3, <2>4, <2>8, LargestOfMany
  <2> QED
    BY <2>9, <2>10, <2>11 DEF EffectiveForm
<1> QED
  BY <1>1, <1>2

LEMMA EffectiveAre ==
    ASSUME RowsInOrder
    PROVE  \A n \in Ids : Effective(rows)[n] = EffectiveForm(n)
<1> DEFINE u == [n \in Ids |-> EffectiveForm(n)]
<1>0. Ids = DOMAIN rows /\ \A n : \A c \in Children(n) : c \in Ids
  BY RowsFacts DEF Ids
<1>1. \A n \in Ids : u[n] = EffectiveForm(n)
  OBVIOUS
<1>2. IsEffective(rows, u)
  <2>1. \A n \in Ids : EffectiveRule(rows, u, n) = EffectiveForm(n)
    <3> HIDE DEF u
    <3> TAKE n \in Ids
    <3>1. \A c \in Children(n) : u[c] = EffectiveForm(c)
      BY <1>0, <1>1
    <3> QED
      BY <3>1, EffectiveStep
  <2>2. u = [n \in Ids |-> EffectiveRule(rows, u, n)]
    BY <2>1
  <2> QED
    BY <1>0, <2>2 DEF IsEffective
<1> HIDE DEF u
<1>3. Effective(rows) = CHOOSE t : IsEffective(rows, t)
  BY DEF Effective, IsEffective, EffectiveRule
<1> DEFINE t == Effective(rows)
           W == {n \in Ids : t[n] = EffectiveForm(n)}
<1>4. IsEffective(rows, t)
  BY <1>2, <1>3
<1> HIDE DEF t
<1>5. ASSUME NEW n \in Ids, \A c \in Children(n) : c \in W PROVE n \in W
  <2>1. \A c \in Children(n) : t[c] = EffectiveForm(c)
    BY <1>5
  <2>2. EffectiveRule(rows, t, n) = EffectiveForm(n)
    BY <2>1, EffectiveStep
  <2>3. t[n] = EffectiveRule(rows, t, n)
    BY <1>0, <1>4 DEF IsEffective
  <2> QED
    BY <2>2, <2>3
<1> HIDE DEF W
<1>6. Ids \subseteq W
  BY <1>5, RowsUpwards
<1> QED
  BY <1>6 DEF W, t

-------------------------------------------------------------------------------
(* Progress: everybody is told the same                                    *)

\* The average that is sent is that of the items that can be judged, and so with the worst.
LEMMA FinishIsInfo ==
    ASSUME RowsInOrder, NEW S, S \subseteq Valid
    PROVE  finishAccumulator(AccOver(S)) = InfoOf(S)
<1> DEFINE acc == AccOver(S)
           expected == Sum([n \in S |-> getItemNodeDelayInfo(rows[n]).expected])
           actual   == Sum([n \in S |-> rows[n].progress])
<1>1. /\ Valid \subseteq Items /\ IsFiniteSet(Valid)
      /\ Numbers(Expecteds) /\ DOMAIN Expecteds = Valid
      /\ Numbers(Actuals) /\ DOMAIN Actuals = Valid
      /\ Numbers(Judgements) /\ DOMAIN Judgements = Valid
      /\ \A st : Numbers(WithStatus(st)) /\ DOMAIN WithStatus(st) = Valid
  BY ValidNumbers
<1>2. /\ acc.expected = Part(Expecteds, S) /\ acc.actual = Part(Actuals, S)
      /\ acc.valid = Part(Judgements, S) /\ acc.counts = CountsOver(S)
  BY DEF AccOver
<1>3. acc.valid = Cardinality(S) /\ IsFiniteSet(S) /\ Cardinality(S) \in Nat
  <2>1. \A x \in S : Judgements[x] = 1
    BY DEF Judgements
  <2> QED
    BY <1>1, <1>2, <2>1, PartOfOnes
<1>4. acc.expected = expected
  <2>1. [n \in S |-> Expecteds[n]] = [n \in S |-> getItemNodeDelayInfo(rows[n]).expected]
    BY DEF Expecteds
  <2> QED
    BY <1>2, <2>1 DEF Part
<1>5. acc.actual = actual
  <2>1. [n \in S |-> Actuals[n]] = [n \in S |-> rows[n].progress]
    BY DEF Actuals
  <2> QED
    BY <1>2, <2>1 DEF Part
<1>6. \A st \in Statuses : /\ acc.counts[st] \in Nat
                           /\ acc.counts[st] > 0 <=> \E n \in S : getItemNodeDelayInfo(rows[n]).status = st
  <2> TAKE st \in Statuses
  <2>1. \A x \in S : /\ WithStatus(st)[x] >= 0
                     /\ WithStatus(st)[x] > 0 <=> getItemNodeDelayInfo(rows[x]).status = st
    BY DEF WithStatus
  <2>2. acc.counts[st] = Part(WithStatus(st), S)
    BY <1>2 DEF CountsOver
  <2>3. /\ Part(WithStatus(st), S) \in Nat
        /\ Part(WithStatus(st), S) > 0 <=> \E x \in S : WithStatus(st)[x] > 0
    BY <1>1, <2>1, PartPositive
  <2> QED
    BY <2>1, <2>2, <2>3
<1>7. InfoOf(S) = [expected |-> IF S = {} THEN None ELSE Round(expected, Cardinality(S)),
                   actual   |-> IF S = {} THEN None ELSE Round(actual, Cardinality(S)),
                   status   |-> Worst(S)]
  BY DEF InfoOf, Average
<1> HIDE DEF acc, expected, actual
<1>8. CASE S = {}
  <2>1. acc.valid = 0
    BY <1>3, <1>8, FS_EmptySet
  <2>2. Worst(S) = "UNKNOWN"
    BY <1>8 DEF Worst
  <2>3. finishAccumulator(acc) = [expected |-> None, actual |-> None, status |-> "UNKNOWN"]
    BY <2>1 DEF finishAccumulator
  <2>4. finishAccumulator(acc) = InfoOf(S)
    BY <1>7, <1>8, <2>2, <2>3
  <2> QED
    BY <2>4 DEF acc
<1>9. CASE S # {}
  <2>1. acc.valid # 0
    BY <1>3, <1>9, FS_EmptySet
  <2>2. Worst(S) = WorstOf(acc.counts)
    <3> DEFINE has(st) == \E n \in S : getItemNodeDelayInfo(rows[n]).status = st
               cnt == acc.counts
    <3>1. Worst(S) = IF has("CRITICAL") THEN "CRITICAL" ELSE IF has("WARNING") THEN "WARNING"
                     ELSE IF has("SLIGHT") THEN "SLIGHT" ELSE "ON_TRACK"
      BY <1>9 DEF Worst
    <3>2. \A st \in Statuses : cnt[st] \in Nat /\ (cnt[st] > 0 <=> has(st))
      BY <1>6
    <3> HIDE DEF has, cnt
    <3>3. /\ cnt["CRITICAL"] \in Nat /\ (cnt["CRITICAL"] > 0 <=> has("CRITICAL"))
          /\ cnt["WARNING"] \in Nat /\ (cnt["WARNING"] > 0 <=> has("WARNING"))
          /\ cnt["SLIGHT"] \in Nat /\ (cnt["SLIGHT"] > 0 <=> has("SLIGHT"))
      BY <3>2 DEF Statuses
    <3>4. WorstOf(cnt) = IF cnt["CRITICAL"] > 0 THEN "CRITICAL" ELSE IF cnt["WARNING"] > 0 THEN "WARNING"
                         ELSE IF cnt["SLIGHT"] > 0 THEN "SLIGHT" ELSE "ON_TRACK"
      <4>1. cnt["CRITICAL"] > 0 \/ cnt["CRITICAL"] = 0
        BY <3>3
      <4> QED
        BY <4>1 DEF WorstOf
    <3>5. WorstOf(cnt) = Worst(S)
      BY <3>1, <3>3, <3>4
    <3> QED
      BY <3>5 DEF cnt
  <2>3. finishAccumulator(acc) = [expected |-> Round(acc.expected, acc.valid),
                                  actual |-> Round(acc.actual, acc.valid), status |-> WorstOf(acc.counts)]
    BY <2>1 DEF finishAccumulator
  <2>4. finishAccumulator(acc) = InfoOf(S)
    BY <1>3, <1>4, <1>5, <1>7, <1>9, <2>2, <2>3
  <2> QED
    BY <2>4 DEF acc
<1> QED
  BY <1>8, <1>9

\* The badge of a group,
LEMMA BadgeAgrees ==
    ASSUME RowsInOrder, NEW n \in Groups
    PROVE  getNodeDelayInfo(n, calculateTreeNodesDelayInfo) = InfoOf(Judged(ItemsBelow(n)))
<1>1. n \in Ids /\ n \notin Items
  BY RowsFacts
<1>2. FromRoots \cup Rest = Ids
  BY DEF FromRoots, Rest
<1>3. calculateTreeNodesDelayInfo
        = [m \in Ids |-> IF m \in Items THEN getItemNodeDelayInfo(rows[m])
                         ELSE finishAccumulator(Accumulators[m])]
  BY <1>2 DEF calculateTreeNodesDelayInfo
<1>4. getNodeDelayInfo(n, calculateTreeNodesDelayInfo) = finishAccumulator(Accumulators[n])
  BY <1>1, <1>3 DEF getNodeDelayInfo
<1>5. Accumulators[n] = AccOver(Valid \cap Own(n))
  BY <1>1, AccumulatorsAre DEF AccForm
<1>6. Valid \cap Own(n) = Judged(ItemsBelow(n))
  <2>1. Own(n) = ItemsBelow(n) /\ ItemsBelow(n) \subseteq Items
    BY <1>1, OwnFacts
  <2> QED
    BY <2>1 DEF Valid, Judged
<1>7. finishAccumulator(AccOver(Valid \cap Own(n))) = InfoOf(Valid \cap Own(n))
  BY FinishIsInfo
<1> QED
  BY <1>4, <1>5, <1>6, <1>7

\* its dates and its progress,
LEMMA SentAgrees ==
    ASSUME RowsInOrder, NEW n \in Groups
    PROVE  LET below == ItemsBelow(n) IN
           /\ buildTreeItems[n] = [start |-> Smallest(Dates({rows[m].start : m \in below})),
                                   end   |-> Largest(Dates({rows[m].end : m \in below})),
                                   progress |-> Average(below, LAMBDA m : rows[m].progress)]
           /\ Effective(rows)[n] = [start |-> buildTreeItems[n].start, end |-> buildTreeItems[n].end]
<1> DEFINE below == ItemsBelow(n)
           first == Smallest(Dates({rows[m].start : m \in below}))
           last  == Largest(Dates({rows[m].end : m \in below}))
<1>1. n \in Ids /\ n \notin Items
  BY RowsFacts
<1>2. {m \in Ids : IsVisited(m)} = Ids
  BY DEF FromRoots, Rest, IsVisited
<1>3. buildTreeItems[n] = [start |-> Effective(rows)[n].start, end |-> Effective(rows)[n].end,
                           progress |-> IF Totals[n].count > 0 THEN Round(Totals[n].sum, Totals[n].count)
                                        ELSE None]
  BY <1>1, <1>2 DEF buildTreeItems
<1>4. Own(n) = below /\ below \subseteq Items
  BY <1>1, OwnFacts
<1>5. Effective(rows)[n] = [start |-> first, end |-> last]
  BY <1>1, <1>4, EffectiveAre DEF EffectiveForm, Starts, Ends
<1>6. Totals[n] = [sum |-> Part(Progresses, below), count |-> Part(Ones, below)]
  BY <1>1, <1>4, TotalsAre DEF TotalsForm
<1>7. Part(Ones, below) = Cardinality(below) /\ IsFiniteSet(below) /\ Cardinality(below) \in Nat
  <2>1. Numbers(Ones) /\ DOMAIN Ones = Items /\ \A x \in below : Ones[x] = 1
    BY <1>4, ItemNumbers DEF Ones
  <2> QED
    BY <1>4, <2>1, PartOfOnes
<1> DEFINE sum == Sum([m \in below |-> rows[m].progress])
<1>8. Part(Progresses, below) = sum
  <2>1. [m \in below |-> Progresses[m]] = [m \in below |-> rows[m].progress]
    BY <1>4 DEF Progresses
  <2> QED
    BY <2>1 DEF Part
<1>9. Average(below, LAMBDA m : rows[m].progress) = IF below = {} THEN None ELSE Round(sum, Cardinality(below))
  BY DEF Average
<1> HIDE DEF below, first, last, sum
<1>10. Cardinality(below) > 0 <=> below # {}
  BY <1>7, FS_EmptySet
<1>11. Average(below, LAMBDA m : rows[m].progress)
         = IF Totals[n].count > 0 THEN Round(Totals[n].sum, Totals[n].count) ELSE None
  BY <1>6, <1>7, <1>8, <1>9, <1>10
<1>12. buildTreeItems[n] = [start |-> first, end |-> last,
                            progress |-> Average(below, LAMBDA m : rows[m].progress)]
  BY <1>3, <1>5, <1>11
<1>13. Effective(rows)[n] = [start |-> buildTreeItems[n].start, end |-> buildTreeItems[n].end]
  BY <1>5, <1>12
<1> QED
  BY <1>12, <1>13 DEF first, last, below

\* the summary of the project,
Asked(all) ==
    LET items == {n \in DOMAIN all : all[n].kind = "ITEM"} IN IF items = {} THEN DOMAIN all ELSE items

TotalOf(all) ==
    mergeAccumulators([n \in Asked(all) |->
        addToAccumulator(emptyAccumulator, getItemNodeDelayInfo(all[n]))])

LEMMA SummaryIs ==
    ASSUME NEW all, NEW count
    PROVE  SummaryOf(all, count) = [nodes |-> count, valid |-> TotalOf(all).valid,
                                    counts |-> TotalOf(all).counts, info |-> finishAccumulator(TotalOf(all))]
  BY DEF SummaryOf, TotalOf, Asked

LEMMA TotalOfItems ==
    ASSUME RowsInOrder, Items # {}
    PROVE  TotalOf(rows) = AccOver(Valid)
<1> DEFINE accs == [n \in Items |-> addToAccumulator(emptyAccumulator, getItemNodeDelayInfo(rows[n]))]
           B == [n \in Items |-> Valid \cap {n}]
<1>1. IsFiniteSet(Items) /\ Valid \subseteq Items
  BY RowsFacts DEF Valid, Judged
<1>2. Asked(rows) = Items
  BY DEF Asked, Items, Ids
<1>3. TotalOf(rows) = mergeAccumulators(accs)
  BY <1>2 DEF TotalOf
<1>4. DOMAIN B = Items /\ DOMAIN accs = DOMAIN B /\ \A n \in Items : B[n] = Valid \cap {n}
  OBVIOUS
<1>5. \A n \in DOMAIN B : B[n] \subseteq Valid /\ accs[n] = AccOver(B[n])
  BY ItemAdds
<1>6. AllOf(B, DOMAIN B) = Valid
  BY <1>1, <1>4 DEF AllOf
<1> HIDE DEF accs, B
<1>7. Apart(B)
  BY <1>4 DEF Apart
<1>8. mergeAccumulators(accs) = AccOver(AllOf(B, DOMAIN B))
  BY <1>1, <1>4, <1>5, <1>7, MergeAdds
<1> QED
  BY <1>3, <1>6, <1>8

LEMMA SummaryAgrees ==
    ASSUME RowsInOrder
    PROVE  /\ summarizeDelay = calculateProjectDelaySummary
           /\ Items # {} => calculateProjectDelaySummary.info = InfoOf(Judged(Items))
<1> DEFINE count == Cardinality(Ids)
           all == IF Items # {} THEN [n \in Items |-> rows[n]]
                  ELSE [n \in 1 .. Cardinality(Ids) |-> EmptyGroup]
           infoOf(r) == addToAccumulator(emptyAccumulator, getItemNodeDelayInfo(r))
<1>1. summarizeDelay = SummaryOf(all, count) /\ calculateProjectDelaySummary = SummaryOf(rows, count)
  BY DEF summarizeDelay, calculateProjectDelaySummary
<1>2. Ids = DOMAIN rows /\ Ids = 1..Len(rows) /\ Len(rows) \in Nat /\ Items \subseteq Ids
  BY RowsFacts DEF Ids
<1>3. TotalOf(all) = TotalOf(rows)
  <2>1. CASE Items # {}
    <3>1. all = [n \in Items |-> rows[n]]
      BY <2>1
    <3> HIDE DEF all, infoOf
    <3>2. Asked(all) = Items /\ Asked(rows) = Items
      BY <1>2, <2>1, <3>1 DEF Asked, Items
    <3>3. [n \in Asked(all) |-> infoOf(all[n])] = [n \in Asked(rows) |-> infoOf(rows[n])]
      BY <3>1, <3>2
    <3> QED
      BY <3>3 DEF TotalOf, infoOf
  <2>2. CASE Items = {}
    <3>0. Cardinality(1..Len(rows)) = Len(rows)
      <4>1. Len(rows) >= 1 => Cardinality(1..Len(rows)) = Len(rows) - 1 + 1
        BY <1>2, FS_Interval
      <4>2. Len(rows) = 0 => 1..Len(rows) = {}
        OBVIOUS
      <4>3. Len(rows) = 0 => Cardinality(1..Len(rows)) = 0
        BY <4>2, FS_EmptySet
      <4> QED
        BY <1>2, <4>1, <4>3
    <3>1. all = [n \in Ids |-> EmptyGroup]
      BY <1>2, <2>2, <3>0
    <3> HIDE DEF all, infoOf
    <3>2. EmptyGroup.kind = "GROUP"
      BY DEF EmptyGroup
    <3>3. \A n \in Ids : rows[n].kind = "GROUP" /\ rows[n].kind # "ITEM" /\ rows[n].progress = 0
      <4>1. \A n \in Ids : n \in Groups
        BY <1>2, <2>2, RowsFacts
      <4> QED
        BY <4>1, RowsFacts DEF RowsInOrder
    <3>4. Asked(all) = Ids /\ Asked(rows) = Ids
      <4>1. DOMAIN all = Ids /\ \A n \in Ids : all[n].kind # "ITEM"
        BY <3>1, <3>2
      <4> QED
        BY <1>2, <3>3, <4>1 DEF Asked
    <3>5. \A n \in Ids : infoOf(all[n]) = infoOf(rows[n])
      <4> TAKE n \in Ids
      <4>1. all[n] = EmptyGroup
        BY <3>1
      <4>2. getItemNodeDelayInfo(EmptyGroup) = [expected |-> 0, actual |-> 0, status |-> "ON_TRACK"]
        BY DEF getItemNodeDelayInfo, EmptyGroup
      <4>3. getItemNodeDelayInfo(rows[n]) = [expected |-> 0, actual |-> 0, status |-> "ON_TRACK"]
        BY <3>3 DEF getItemNodeDelayInfo
      <4> QED
        BY <4>1, <4>2, <4>3 DEF infoOf
    <3>6. [n \in Asked(all) |-> infoOf(all[n])] = [n \in Asked(rows) |-> infoOf(rows[n])]
      BY <3>4, <3>5
    <3> QED
      BY <3>6 DEF TotalOf, infoOf
  <2> QED
    BY <2>1, <2>2
<1> HIDE DEF all, count
<1>4. SummaryOf(all, count) = SummaryOf(rows, count)
  BY <1>3, SummaryIs
<1>5. ASSUME Items # {} PROVE SummaryOf(rows, count).info = InfoOf(Judged(Items))
  <2>1. SummaryOf(rows, count).info = finishAccumulator(TotalOf(rows))
    BY SummaryIs
  <2>2. TotalOf(rows) = AccOver(Valid)
    BY <1>5, TotalOfItems
  <2>3. finishAccumulator(AccOver(Valid)) = InfoOf(Valid)
    BY FinishIsInfo
  <2> QED
    BY <2>1, <2>2, <2>3 DEF Valid
<1> QED
  BY <1>1, <1>4, <1>5

\* and what a drag announces.
LEMMA DragKeepsOrder ==
    ASSUME RowsInOrder, NEW n \in Judged(Items),
           NEW drag \in {<<"move", 6>>, <<"resize-start", 6>>, <<"resize-end", -2>>}
    PROVE  applyDrag(rows[n], drag[1], drag[2]).start <= applyDrag(rows[n], drag[1], drag[2]).end
<1> DEFINE row == rows[n]
<1>1. row \in AnyRow /\ row.start \in Nat /\ row.end \in Nat /\ row.start <= row.end
  BY RowsFacts DEF Judged, RowsInOrder
<1> HIDE DEF row
<1>2. CASE drag = <<"move", 6>>
  <2>1. drag[1] = "move" /\ drag[2] = 6
    BY <1>2
  <2>2. applyDrag(row, drag[1], drag[2]) = moveItem(row, 6)
    BY <2>1 DEF applyDrag
  <2>3. moveItem(row, 6).start = row.start + 6 /\ moveItem(row, 6).end = row.end + 6
    BY <1>1 DEF moveItem, AnyRow
  <2>4. applyDrag(row, drag[1], drag[2]).start <= applyDrag(row, drag[1], drag[2]).end
    BY <1>1, <2>2, <2>3
  <2> QED
    BY <2>4 DEF row
<1>3. CASE drag = <<"resize-start", 6>>
  <2>1. drag[1] = "resize-start" /\ drag[2] = 6
    BY <1>3
  <2>2. applyDrag(row, drag[1], drag[2]) = resizeItem(row, "start", 6)
    BY <2>1 DEF applyDrag
  <2>3. /\ resizeItem(row, "start", 6).start = Earlier(row.start + 6, row.end)
        /\ resizeItem(row, "start", 6).end = row.end
    BY <1>1 DEF resizeItem, AnyRow
  <2>4. Earlier(row.start + 6, row.end) <= row.end
    BY <1>1 DEF Earlier
  <2>5. applyDrag(row, drag[1], drag[2]).start <= applyDrag(row, drag[1], drag[2]).end
    BY <2>2, <2>3, <2>4
  <2> QED
    BY <2>5 DEF row
<1>4. CASE drag = <<"resize-end", -2>>
  <2>1. drag[1] = "resize-end" /\ drag[2] = -2
    BY <1>4
  <2>2. applyDrag(row, drag[1], drag[2]) = resizeItem(row, "end", -2)
    BY <2>1 DEF applyDrag
  <2>3. /\ resizeItem(row, "end", -2).end = Later(row.end + (-2), row.start)
        /\ resizeItem(row, "end", -2).start = row.start
    BY <1>1 DEF resizeItem, AnyRow
  <2>4. row.start <= Later(row.end + (-2), row.start)
    BY <1>1 DEF Later
  <2>5. applyDrag(row, drag[1], drag[2]).start <= applyDrag(row, drag[1], drag[2]).end
    BY <2>2, <2>3, <2>4
  <2> QED
    BY <2>5 DEF row
<1> QED
  BY <1>2, <1>3, <1>4

LEMMA DragAnnounces ==
    ASSUME RowsInOrder, NEW changed
    PROVE  LET rooted == Groups \cap FromRoots
               sent   == buildTreeItems
               chart == recomputeEffective(rows)
           IN  /\ \A n \in rooted : chart[n] = [start |-> sent[n].start, end |-> sent[n].end]
               /\ diffAffectedGroups(chart, recomputeEffective(changed))
                    = {g \in rooted : Effective(changed)[g] # [start |-> sent[g].start, end |-> sent[g].end]}
<1> DEFINE chart == recomputeEffective(rows)
           after  == recomputeEffective(changed)
           nothing == [start |-> None, end |-> None]
           sentOf(n) == [start |-> buildTreeItems[n].start, end |-> buildTreeItems[n].end]
<1>1. Groups \subseteq Ids
  BY DEF Groups
<1>2. \A n \in Groups : chart[n] = IF n \in FromRoots THEN Effective(rows)[n] ELSE nothing
  BY <1>1 DEF recomputeEffective
<1>3. \A n \in Groups : after[n] = IF n \in FromRoots THEN Effective(changed)[n] ELSE nothing
  BY <1>1 DEF recomputeEffective
<1>4. \A n \in Groups : Effective(rows)[n] = sentOf(n)
  BY SentAgrees
<1>5. diffAffectedGroups(chart, after) = {n \in Groups : chart[n] # after[n]}
  BY DEF diffAffectedGroups
<1> HIDE DEF chart, after, nothing, sentOf
<1>6. \A n \in Groups \cap FromRoots : chart[n] = sentOf(n)
  BY <1>2, <1>4
<1>7. diffAffectedGroups(chart, after) = {g \in Groups \cap FromRoots : Effective(changed)[g] # sentOf(g)}
  BY <1>2, <1>3, <1>4, <1>5
<1> QED
  BY <1>6, <1>7 DEF chart, after, sentOf

LEMMA FiguresFollow == RowsInOrder => FiguresAgree
<1> SUFFICES ASSUME RowsInOrder PROVE FiguresAgree
  OBVIOUS
<1> DEFINE infos  == calculateTreeNodesDelayInfo
           sent   == buildTreeItems
           chart == recomputeEffective(rows)
           rooted == Groups \cap FromRoots
           total  == calculateProjectDelaySummary
<1>1. \A n \in Groups :
         LET below == ItemsBelow(n) IN
         /\ getNodeDelayInfo(n, infos) = InfoOf(Judged(below))
         /\ sent[n] = [start |-> Smallest(Dates({rows[m].start : m \in below})),
                       end   |-> Largest(Dates({rows[m].end : m \in below})),
                       progress |-> Average(below, LAMBDA m : rows[m].progress)]
  BY BadgeAgrees, SentAgrees
<1>2. summarizeDelay = total /\ (Items # {} => total.info = InfoOf(Judged(Items)))
  BY SummaryAgrees
<1>3. \A n \in rooted : chart[n] = [start |-> sent[n].start, end |-> sent[n].end]
  BY DragAnnounces
<1>4. \A n \in Judged(Items),
          drag \in {<<"move", 6>>, <<"resize-start", 6>>, <<"resize-end", -2>>} :
          LET dragged == applyDrag(rows[n], drag[1], drag[2])
              changed == [rows EXCEPT ![n] = dragged]
              saved   == Effective(changed)
          IN  /\ dragged.start <= dragged.end
              /\ diffAffectedGroups(chart, recomputeEffective(changed))
                    = {g \in rooted : saved[g] # [start |-> sent[g].start, end |-> sent[g].end]}
  BY DragKeepsOrder, DragAnnounces
<1> HIDE DEF infos, sent, chart, rooted, total
<1> QED
  BY <1>1, <1>2, <1>3, <1>4 DEF FiguresAgree, infos, sent, chart, rooted, total

\* The badge of a group, its dates and its progress are those of the items below it, each
\* counting once; the list of projects and the header say the same; and what a drag
\* announces is what will be saved (expected-progress.ts, tree-aggregation.ts,
\* ganttAggregate.ts): for any rows that come one by one, and any day.
THEOREM FiguresAlwaysAgree == ProgressSpec => []FiguresAgree
<1>1. ProgressInit => RowsInOrder
  BY ProgressAssumption DEF ProgressInit, RowsInOrder, Ids, Groups, Items
<1>2. RowsInOrder /\ [ProgressNext]_progressVars => RowsInOrder'
  BY RowsStayInOrder
<1>3. RowsInOrder => FiguresAgree
  BY FiguresFollow
<1> QED
  BY <1>1, <1>2, <1>3, PTL DEF ProgressSpec

===============================================================================
