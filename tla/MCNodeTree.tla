------------------------------ MODULE MCNodeTree ------------------------------
(***************************************************************************)
(* NodeTree in two ways; part says which:                                  *)
(*   "together"  requests overlap in two projects, with two ids at most    *)
(*               and one commit less;                                      *)
(*   "alone"     one request at a time in one project, all ids.            *)
(***************************************************************************)
EXTENDS NodeTree, TLC

CONSTANT Parts

VARIABLE part

treeVars == <<vars, part>>

\* A root with a child, and a file whose second row jumps two levels.
TwoRowFiles == {<<0, 1>>, <<1, 3>>}

OneRowFile == {<<0>>}

\* Siblings, a chain of three and a return to the root.
ThreeRowFiles == {<<0>>, <<0, 2, 1>>, <<0, 1, 2>>, <<0, 1, 0>>}

AllFiles == TwoRowFiles \cup ThreeRowFiles

AllSymmetry == Permutations(NodeIds) \cup Permutations(Projects) \cup Permutations(Requests)

InFlight == {r \in Requests : req[r] # Idle}

ProjectsNamed == {req[r].project : r \in InFlight} \cup {nodes[n].project : n \in Live}

MCInit == part \in Parts /\ Init

MCNext ==
    /\ Next
    /\ \A r \in Requests : req'[r].csv \in
          (IF part = "alone" THEN ThreeRowFiles ELSE TwoRowFiles) \cup {<<>>}
    /\ part = "alone" => /\ OneAtATime'
                         /\ Cardinality(ProjectsNamed' \ {NULL}) <= 1
    /\ part = "together" => Fresh' # {} /\ clock' < MaxClock
    /\ UNCHANGED part

MCSpec == MCInit /\ [][MCNext]_treeVars

-------------------------------------------------------------------------------
(***************************************************************************)
(* One request at a time leaves a well-formed tree: no cycle, the depths   *)
(* follow the parents and siblings are numbered without a gap              *)
(* (nodes.service.ts, 276-456).                                            *)
(***************************************************************************)
TreeStaysInShape ==
    part = "alone" => TreeInShape

(***************************************************************************)
(* One request at a time writes only over what its client has seen, and a  *)
(* node goes with all that is below it (NoLostUpdate and                   *)
(* DeleteTakesSubtree of NodeTree; nodes.service.ts, 163-521).             *)
(***************************************************************************)
RequestsDoAsAsked ==
    [][part = "alone" => LostNothing /\ LeftNoChild]_vars
===============================================================================
