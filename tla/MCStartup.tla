------------------------------ MODULE MCStartup ------------------------------
(***************************************************************************)
(* Startup, and its lock alone in harder circumstances; part says which:   *)
(*   "programs"  sp-server and sp-migrate whole; a lock file can be        *)
(*               written, and no process gets a pid that a lock file holds;*)
(*   "lock"      acquireLock and removeLock only, without these two mercies.*)
(***************************************************************************)
EXTENDS Startup, TLC

CONSTANT Parts

VARIABLE part

mcVars == <<vars, part>>

AllSymmetry == Permutations(Processes) \cup Permutations(Pids)

MCInit ==
    /\ part \in Parts /\ Init
    /\ part = "lock" => db = New

MCNext ==
    /\ \/ part = "programs" /\ Next /\ WritesSucceed /\ PidsAreFresh
       \/ part = "lock" /\ LockNext /\ UNCHANGED <<db, origin, job>>
    /\ UNCHANGED part

MCSpec == MCInit /\ [][MCNext]_mcVars

-------------------------------------------------------------------------------
(***************************************************************************)
(* No program acts on a picture that was never true: a server concludes    *)
(* what one look at the database says (ServerSeesTruth), never takes its   *)
(* own unfinished work for somebody else's (NoFalseAlarm), and nobody is   *)
(* refused because of a lock without a living owner (RefusedByAnother).    *)
(***************************************************************************)
NobodyIsMisled ==
    [][part = "programs" => ServerSeesTruth /\ NoFalseAlarm' /\ RefusedByAnother]_mcVars
===============================================================================
