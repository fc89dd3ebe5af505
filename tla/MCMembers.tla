------------------------------ MODULE MCMembers ------------------------------
(***************************************************************************)
(* The members of projects, a project that is cloned, or the history of a  *)
(* project: part says which of them a behaviour is about.                  *)
(***************************************************************************)
EXTENDS Members, ProjectClone, History

CONSTANT Parts      \* the ones of this run

VARIABLE part

AllSymmetry ==
    Permutations(Users) \cup Permutations(Projects) \cup Permutations(Requests)

Group == [kind |-> "GROUP", parent |-> 0, depth |-> 0, order |-> 0, start |-> NoDay, end |-> NoDay]

Item(parent, order, start, end) ==
    [Group EXCEPT !.kind = "ITEM", !.parent = parent, !.depth = IF parent = 0 THEN 0 ELSE 1,
                  !.order = order, !.start = start, !.end = end]

\* Dates that leave gaps, all dates the same day, no dates.
MCSources ==
    {<<Group, Item(0, 1, 1, 5), Item(1, 0, 2, NoDay)>>,
     <<Group, Item(1, 0, 2, 2), Item(1, 1, NoDay, 2)>>, <<Group, Item(1, 0, NoDay, NoDay)>>}

MCQueries ==
    {[topic |-> "ALL", range |-> "custom"], [topic |-> "PROGRESS_DOWN", range |-> "recent"],
     [topic |-> "COMMENTS", range |-> "recent"]}

MCInit ==
    /\ part \in Parts
    /\ Init /\ CloneInit /\ HistoryInit
    /\ IF part = "clone" THEN working # {}
       ELSE roster = <<>> /\ working = {} /\ source = CHOOSE s \in Sources : TRUE

MCNext ==
    \/ part = "members" /\ Next /\ UNCHANGED <<cloneVars, historyVars, part>>
    \/ part = "clone" /\ CloneNext /\ UNCHANGED <<vars, historyVars, part>>
    \/ part = "history" /\ HistoryNext /\ UNCHANGED <<vars, cloneVars, part>>

MCSpec == MCInit /\ [][MCNext]_<<vars, cloneVars, historyVars, part>>
==============================================================================
