------------------------------ MODULE MCAccounts ------------------------------
(***************************************************************************)
(* Accounts in two ways, and Groups, which shares no state with it (a user *)
(* is never deleted while groups are looked at); part says which:          *)
(*   "together"  requests overlap, the server dies, the command line tool  *)
(*               runs; administrators only, with one password;             *)
(*   "alone"     one request at a time, and nothing else;                  *)
(*   "groups"    the groups, with requests that overlap.                   *)
(***************************************************************************)
EXTENDS Accounts, Groups, TLC

CONSTANT Parts

VARIABLE part

mcVars == <<vars, groupsVars, part>>

AllSymmetry ==
    Permutations(Sids) \cup Permutations(Passwords) \cup Permutations(Requests) \cup
    Permutations(Groups) \cup Permutations(GroupUsers) \cup Permutations(Names)

PasswordsUsed == {account[u].password : u \in Users} \ {NULL}

MCInit ==
    /\ part \in Parts /\ Init
    /\ part = "together" => \A u \in Users \ Admins : account[u] = Absent
    /\ part = "groups" => \A u \in Users \ {InitialAdmin} : account[u] = Absent
    /\ GroupsInit

AccountsNext ==
    /\ \/ \E r \in Requests : Login(r) \/ Guard(r) \/ Own(r) \/ Administrate(r)
       \/ Expire
       \/ part = "together" /\ (Restart \/ ResetAdmin)
    /\ part = "alone" => OneAtATime'
    /\ part = "together" =>
          /\ Cardinality(PasswordsUsed') = 1
          /\ \A r \in Requests : req'[r].password \in {NULL} \cup PasswordsUsed
          /\ \A u \in Users \ Admins : account'[u] = Absent

\* What a stale write has left is not followed any further: the properties are
\* about what happens to groups that are in order.
InOrder == IsShallowForest(parent) /\ NamesAreUnique /\ OneGroupEach

MCNext ==
    /\ \/ part # "groups" /\ AccountsNext /\ UNCHANGED groupsVars
       \/ part = "groups" /\ InOrder /\ GroupsNext /\ UNCHANGED vars
       \/ ~InOrder /\ UNCHANGED <<vars, groupsVars>>
    /\ UNCHANGED part

MCSpec == MCInit /\ [][MCNext]_mcVars

-------------------------------------------------------------------------------
(***************************************************************************)
(* One request at a time leaves an administrator who can log in, and       *)
(* nobody who has retired is active (SomeActiveAdmin and RetiredIsInactive *)
(* of Accounts; users.service.ts, 118-146 and 310-342).                    *)
(***************************************************************************)
SomebodyIsInCharge == part = "alone" => SomeActiveAdmin /\ RetiredIsInactive

(***************************************************************************)
(* One request at a time keeps out whoever has been deactivated, retired   *)
(* or given another password (InactiveIsOut and ResetIsOut of Accounts).   *)
(***************************************************************************)
ThrownOutIsOut == part = "alone" => InactiveIsOut /\ ResetIsOut
===============================================================================
