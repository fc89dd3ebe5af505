------------------------------ MODULE GroupTree ------------------------------
(***************************************************************************)
(* The pure functions on the hierarchy of user groups that the server and  *)
(* the screens share (packages/shared/src/user-groups.ts).                 *)
(*                                                                         *)
(* A hierarchy is a function parent from the groups that exist to a group  *)
(* or None.  The database forbids a parent that is not there, but not a    *)
(* cycle, and the functions stop on cycles too.  A membership is a pair    *)
(* <<group, user>>.  Lists are sets here: their order is left out.         *)
(***************************************************************************)
EXTENDS Integers, FiniteSets, Sequences

CONSTANTS
    MaxDepth,       \* MAX_GROUP_DEPTH; the top level is 1
    None

ASSUME MaxDepthAssumption == MaxDepth \in Nat \ {0}

Children(parent, g) == {c \in DOMAIN parent : parent[c] = g}

\* Breadth first, with the groups visited so far: the rounds of the queue.
collectDescendantGroupIds(parent, roots) ==
    LET round[n \in Nat] ==
            IF n = 0 THEN roots \cap DOMAIN parent
            ELSE round[n - 1] \cup {c \in DOMAIN parent : parent[c] \in round[n - 1]}
    IN  round[Cardinality(DOMAIN parent)]

directMembersOf(memberships, groups) == {m[2] : m \in {n \in memberships : n[1] \in groups}}

expandGroupMembers(parent, memberships, selected) ==
    directMembersOf(memberships, collectDescendantGroupIds(parent, selected))

\* Number.POSITIVE_INFINITY: deeper than any depth that is counted.
Infinity == MaxDepth + 3

\* 0 without the group; who does not come to a root in time is in a cycle.
\* A parent that is not there (an orphan) counts as no parent.
groupDepthOf(parent, group) ==
    LET climb[d \in 1..(MaxDepth + 2)] ==
            [g \in DOMAIN parent |->
               IF parent[g] = None THEN d
               ELSE IF d > MaxDepth + 1 THEN Infinity
               ELSE IF parent[g] \notin DOMAIN parent THEN d
               ELSE climb[d + 1][parent[g]]]
    IN  IF group \in DOMAIN parent THEN climb[1][group] ELSE 0

\* A group has one parent, so only the start of the walk can be seen twice.
subtreeHeightOf(parent, group) ==
    LET walk[n \in 1..(MaxDepth + 2)] ==
            [g \in DOMAIN parent |->
               IF n > MaxDepth + 1 \/ (n > 1 /\ g = group) \/ Children(parent, g) = {} THEN 1
               ELSE LET heights == {walk[n + 1][c] : c \in Children(parent, g)}
                    IN  1 + CHOOSE h \in heights : \A k \in heights : k <= h]
    IN  walk[1][group]

\* CYCLE, and then DEPTH: the group takes its descendants along.
canReparentGroup(parent, group, newParent) ==
    /\ newParent \notin collectDescendantGroupIds(parent, {group})
    /\ LET above == IF newParent = None THEN 0 ELSE groupDepthOf(parent, newParent)
       IN  above # Infinity /\ above + subtreeHeightOf(parent, group) <= MaxDepth

\* From the top to the group; a cycle is cut after MaxDepth + 2 names.
groupPathNames(parent, group) ==
    LET up[n \in 0..(MaxDepth + 1), g \in DOMAIN parent] ==
            IF n = MaxDepth + 1 \/ parent[g] \notin DOMAIN parent THEN <<g>>
            ELSE Append(up[n + 1, parent[g]], g)
    IN  IF group \in DOMAIN parent THEN up[0, group] ELSE <<>>

\* A user in several groups (the database allows it) is shown in one of them:
\* the first by name, which is left open here.
pathsOfUser(parent, memberships, user) ==
    {groupPathNames(parent, m[1]) :
        m \in {n \in memberships : n[2] = user /\ n[1] \in DOMAIN parent}}

\* The three states of a box in the tree of groups.
groupCheckState(parent, picked, group) ==
    LET below == collectDescendantGroupIds(parent, {group}) \ {group}
    IN  IF group \notin DOMAIN parent THEN "unchecked"
        ELSE IF group \in picked /\ below \subseteq picked THEN "checked"
        ELSE IF group \in picked \/ below \cap picked # {} THEN "indeterminate"
        ELSE "unchecked"

-------------------------------------------------------------------------------
(* Properties                                                              *)

\* Every group is found from the top in at most MaxDepth steps.
IsShallowForest(tree) ==
    LET upTo[n \in Nat] ==
            IF n = 0 THEN {None} ELSE {None} \cup {g \in DOMAIN tree : tree[g] \in upTo[n - 1]}
    IN  DOMAIN tree \subseteq upTo[MaxDepth]

\* canReparentGroup allows exactly the moves that leave trees of at most
\* MaxDepth levels, whatever the group takes along (user-groups.ts 135-161).
ReparentIsExact(tree) ==
    IsShallowForest(tree) =>
       \A g \in DOMAIN tree, p \in DOMAIN tree \cup {None} :
          canReparentGroup(tree, g, p) <=> IsShallowForest([tree EXCEPT ![g] = p])
==============================================================================
