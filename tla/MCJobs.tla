-------------------------------- MODULE MCJobs --------------------------------
(***************************************************************************)
(* The parts around the schedule in one run, each on its own: they share   *)
(* no state, so part says which of them a behaviour is about.              *)
(***************************************************************************)
EXTENDS Autocomplete, Backup, BackupCli, RateLimit, Progress

VARIABLE part

jobVars == <<autocompleteVars, backupVars, cliVars, rateVars, progressVars, part>>

MCTrim == [t \in Titles |-> "plan"]

Work(start, end, progress) == [start |-> start, end |-> end, progress |-> progress]

\* A week, a weekend, and without a start.
MCWorks == {Work(0, 7, 50), Work(5, 6, 30), Work(None, 5, 20)}

Init ==
    /\ part \in {"autocomplete", "backup", "cli", "rate", "figures"}
    /\ AutocompleteInit /\ BackupInit /\ CliInit /\ RateInit /\ ProgressInit
    /\ part # "figures" => todayIso = 3

Next ==
    \/ part = "autocomplete" /\ AutocompleteNext
       /\ UNCHANGED <<backupVars, cliVars, rateVars, progressVars, part>>
    \/ part = "backup" /\ BackupNext
       /\ UNCHANGED <<autocompleteVars, cliVars, rateVars, progressVars, part>>
    \/ part = "cli" /\ CliNext
       /\ UNCHANGED <<autocompleteVars, backupVars, rateVars, progressVars, part>>
    \/ part = "rate" /\ RateNext
       /\ UNCHANGED <<autocompleteVars, backupVars, cliVars, progressVars, part>>
    \/ part = "figures" /\ ProgressNext
       /\ UNCHANGED <<autocompleteVars, backupVars, cliVars, rateVars, part>>

\* A part that is not at work owes nothing.
Fairness ==
    part = "autocomplete" => AutocompleteFairness

Spec == Init /\ [][Next]_jobVars /\ Fairness
===============================================================================
