------------------------------- MODULE TreeView -------------------------------
(***************************************************************************)
(* What the screens compute from the list of nodes of a project: the rows  *)
(* of the Gantt chart (NodeTree.tsx, ganttLayout.ts), where a dragged row  *)
(* would land (treeDnd.ts) and what a selection stands for                 *)
(* (bulkSelection.ts).                                                     *)
(*                                                                         *)
(* items is a function from ids to [parent, order, depth, group]; a        *)
(* boundary is the number of rows above a line between two rows.           *)
(***************************************************************************)
EXTENDS Integers, FiniteSets, SequencesExt

CONSTANTS
    MaxTreeDepth,       \* MAX_TREE_DEPTH
    NULL

childrenOf(items, p) == {n \in DOMAIN items : items[n].parent = p}

\* In the order of sortOrder.
siblingsExcluding(items, p, node) ==
    SetToSortSeq(childrenOf(items, p) \ {node},
                 LAMBDA m, n : items[m].order < items[n].order)

\* The rows below each row, and those at the top.
buildTree(items) ==
    [p \in DOMAIN items \cup {NULL} |-> siblingsExcluding(items, p, NULL)]

\* The rows of the chart from top to bottom.
flattenTree(items, collapsed) ==
    LET tree == buildTree(items)
        rowsUnder[p \in DOMAIN tree] ==
          FlattenSeq([i \in DOMAIN tree[p] |->
              <<tree[p][i]>> \o IF tree[p][i] \in collapsed THEN <<>> ELSE rowsUnder[tree[p][i]]])
    IN  rowsUnder[NULL]

descendantIdsOf(items, node) ==
    LET own[n \in DOMAIN items \cup {node}] == {n} \cup UNION {own[c] : c \in childrenOf(items, n)}
    IN  own[node]

AncestorsOf(items, node) ==
    LET above[n \in DOMAIN items] ==
          IF items[n].parent = NULL THEN {}
          ELSE {items[n].parent} \cup IF items[n].parent \in DOMAIN items THEN above[items[n].parent]
                                      ELSE {}
    IN  IF node \in DOMAIN items THEN above[node] ELSE {}

\* Levels below the node.
subtreeRelativeDepth(items, node) ==
    Max({items[n].depth : n \in descendantIdsOf(items, node)}) - items[node].depth

-------------------------------------------------------------------------------
(* treeDnd.ts: the line between two rows and the parent it means           *)

Above(rows, boundary) == IF boundary > 0 THEN rows[boundary] ELSE NULL

\* A row that is a group may get a first child; the row below keeps its depth.
maxDepthAt(rows, items, boundary) ==
    LET above == Above(rows, boundary)
    IN  IF above = NULL THEN 0
        ELSE IF items[above].group THEN items[above].depth + 1 ELSE items[above].depth

\* A mistake the runs must catch: the row below may be left without its parent.
AnyDepth(rows, items, boundary) == 0

minDepthAt(rows, items, boundary) ==
    IF boundary = 0 \/ boundary = Len(rows) THEN 0
    ELSE Min({items[rows[boundary + 1]].depth, maxDepthAt(rows, items, boundary)})

depthFromX(rows, items, boundary, x) ==
    Max({minDepthAt(rows, items, boundary), Min({maxDepthAt(rows, items, boundary), x})})

canDropInto(items, node, p) ==
    /\ p # NULL => /\ p \in DOMAIN items
                   /\ p \notin descendantIdsOf(items, node)
                   /\ items[p].group
    /\ (IF p = NULL THEN 0 ELSE items[p].depth + 1)
         + subtreeRelativeDepth(items, node) < MaxTreeDepth

\* The node after which the dragged one comes, or NULL to come first.
AnchorOf(items, above, depth) ==
    IF above = NULL \/ depth = items[above].depth + 1 THEN NULL
    ELSE CHOOSE n \in {above} \cup AncestorsOf(items, above) : items[n].depth = depth

\* index is 0-based among the siblings without the node itself.
resolveTarget(rows, items, node, boundary, depth) ==
    LET above  == Above(rows, boundary)
        anchor == AnchorOf(items, above, depth)
        p      == IF above = NULL THEN NULL
                  ELSE IF anchor = NULL THEN above ELSE items[anchor].parent
        others == siblingsExcluding(items, p, node)
        before == {i \in DOMAIN others : items[others[i]].order < items[node].order}
    IN  [parent |-> p,
         index  |-> IF anchor = NULL THEN 0
                    ELSE IF anchor = node THEN Cardinality(before)
                    ELSE CHOOSE i \in DOMAIN others : others[i] = anchor,
         ok     |-> canDropInto(items, node, p)]

sortOrderForTarget(target) == target.index + 1

\* The place where the node is already.
IndexNow(items, node) ==
    LET others == siblingsExcluding(items, items[node].parent, node)
    IN  Cardinality({i \in DOMAIN others : items[others[i]].order < items[node].order})

changesParent(items, node, target) == target.parent # items[node].parent

\* targetFromPointer: y has chosen the boundary, x the depth; no target when
\* nothing would change.
StaysPut(items, node, target) ==
    ~changesParent(items, node, target) /\ target.index = IndexNow(items, node)

appendSortOrder(items, p, node) == Len(siblingsExcluding(items, p, node)) + 1

-------------------------------------------------------------------------------
(* bulkSelection.ts                                                        *)

\* A group that is ticked keeps its tick; otherwise it shows what is below.
computeCheckState(items, selection, node) ==
    IF node \in selection THEN "checked"
    ELSE IF descendantIdsOf(items, node) \cap selection # {} THEN "indeterminate"
    ELSE "unchecked"

\* A mistake the runs must catch: each selected node is deleted on its own.
EachSelected(items, selection) == selection

\* What is below a selected node goes with it.
collectDeleteTargets(items, selection) ==
    {n \in selection : AncestorsOf(items, n) \cap selection = {}}

ItemsBelow(items, node) == {n \in descendantIdsOf(items, node) : ~items[n].group}

collectCompleteTargets(items, selection, withDescendants) ==
    {n \in selection \cap DOMAIN items : ~items[n].group}
      \cup IF withDescendants
           THEN UNION {ItemsBelow(items, n) : n \in selection \cap DOMAIN items} ELSE {}

collectShiftTargets(items, selection) == collectCompleteTargets(items, selection, TRUE)

hasGroupSelected(items, selection) ==
    \E n \in selection \cap DOMAIN items : items[n].group
===============================================================================
