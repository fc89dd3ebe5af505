-------------------------------- MODULE Outline --------------------------------
(***************************************************************************)
(* The tree of a project on one screen (Timeline.tsx,                      *)
(* ProjectDetailPage.tsx, ParentPickerDialog.tsx): rows are dragged, moved *)
(* by a button or a dialog, added behind another and deleted, while the    *)
(* list the screen works on lags behind the server's.                      *)
(*                                                                         *)
(* A drag keeps the list and the rows it began with: startNodeDrag closes  *)
(* over them.  A write that succeeds asks for the list again and does not  *)
(* wait for it (invalidateProject, nodes.ts).  The versions that a move    *)
(* must match are kept as the set of ids whose row has changed since a     *)
(* list was read.                                                          *)
(***************************************************************************)
EXTENDS TreeView

CONSTANTS
    Ids,            \* the supply of ids
    StartTrees,     \* the trees to begin with
    MaxWrites,      \* bound on the requests of this screen
    MaxOthers       \* bound on the writes of somebody else

ASSUME OutlineAssumption == MaxWrites \in Nat /\ MaxOthers \in Nat

VARIABLES
    tree,       \* the rows on the server
    items,      \* the list that the screen has
    changed,    \* ids whose row differs from the one in the list by version
    fetching,   \* the list is being read again
    collapsed,  \* groups whose rows are hidden
    drag,       \* the drag under way
    request,    \* the write under way
    writes      \* requests of this screen and writes of somebody else so far

outlineVars == <<tree, items, changed, fetching, collapsed, drag, request, writes>>

NoDrag == [node |-> NULL, items |-> <<>>, rows |-> <<>>, changed |-> {}]

\* shown: the list on the screen was the server's when the request was sent;
\* basis: the request was computed from that list and from the rows on the
\* screen; meant: the rows the user has been promised.
NoRequest == [op |-> "none", node |-> NULL, parent |-> NULL, order |-> 0,
              after |-> NULL, conflict |-> FALSE, shown |-> FALSE, basis |-> FALSE,
              meant |-> <<>>]

Rows == flattenTree(items, collapsed)

\* All rows of a list with their depths.
Lines(list) == LET all == flattenTree(list, {})
               IN  [i \in DOMAIN all |-> <<all[i], list[all[i]].depth>>]

-------------------------------------------------------------------------------
(* The server (nodes.service.ts, without what runs in between)             *)

MayMove(list, node, p) ==
    /\ node \in DOMAIN list
    /\ canDropInto(list, node, p)

\* The gap is closed, the place is made, the descendants go along.
Moved(list, node, p, order) ==
    LET old    == list[node]
        closed == [n \in DOMAIN list |->
                      IF n # node /\ list[n].parent = old.parent /\ list[n].order > old.order
                      THEN [list[n] EXCEPT !.order = @ - 1] ELSE list[n]]
        at     == Min({order, Cardinality(childrenOf(list, p) \ {node}) + 1})
        depth  == IF p = NULL THEN 0 ELSE list[p].depth + 1
    IN  [n \in DOMAIN list |->
            IF n = node THEN [old EXCEPT !.parent = p, !.order = at, !.depth = depth]
            ELSE [closed[n] EXCEPT
                     !.order = IF closed[n].parent = p /\ @ >= at THEN @ + 1 ELSE @,
                     !.depth = IF n \in descendantIdsOf(list, node)
                               THEN @ + depth - old.depth ELSE @]]

Removed(list, node) ==
    [n \in DOMAIN list \ descendantIdsOf(list, node) |->
        IF list[n].parent = list[node].parent /\ list[n].order > list[node].order
        THEN [list[n] EXCEPT !.order = @ - 1] ELSE list[n]]

\* At the end of its parent; in NULL or a group that is not too deep.
MayCreate(list, p) ==
    p # NULL => p \in DOMAIN list /\ list[p].group /\ list[p].depth + 1 < MaxTreeDepth

NewRow(list, p, group) ==
    [parent |-> p, order |-> Cardinality(childrenOf(list, p)) + 1, group |-> group,
     depth |-> IF p = NULL THEN 0 ELSE list[p].depth + 1]

\* node: the row that is written even if it looks the same.
Write(list, node, byOther) ==
    LET touched == {n \in DOMAIN tree : n \notin DOMAIN list \/ list[n] # tree[n]} \cup {node}
    IN  /\ tree' = list
        /\ changed' = changed \cup touched
        /\ drag' = [drag EXCEPT !.changed = IF drag = NoDrag THEN {} ELSE @ \cup touched]
        /\ writes' = [writes EXCEPT !.others = @ + byOther]

-------------------------------------------------------------------------------
(* The screen                                                              *)

\* toggleCollapse, the arrow keys left and right, collapseAll and expandAll.
Collapse ==
    /\ LET groups == {n \in DOMAIN items : items[n].group}
       IN  \/ \E n \in groups : collapsed' \in {collapsed \cup {n}, collapsed \ {n}}
           \/ collapsed' \in {groups, {}}
    /\ UNCHANGED <<tree, items, changed, fetching, drag, request, writes>>

\* A move that is under way blocks the handle (dragBlocked), every other write
\* covers the screen.
StartDrag(n) ==
    /\ drag = NoDrag /\ request = NoRequest
    /\ n \in ToSet(Rows)
    /\ drag' = [node |-> n, items |-> items, rows |-> Rows, changed |-> changed]
    /\ UNCHANGED <<tree, items, changed, fetching, collapsed, request, writes>>

\* Escape, pointercancel, or released before it was active.
CancelDrag ==
    /\ drag # NoDrag
    /\ drag' = NoDrag
    /\ UNCHANGED <<tree, items, changed, fetching, collapsed, request, writes>>

\* list: the one the request was computed from, with what has changed since.
Send(r, list, stale) ==
    /\ writes.own < MaxWrites
    /\ writes' = [writes EXCEPT !.own = @ + 1]
    /\ request' = [r EXCEPT !.conflict = r.node \in stale, !.basis = r.basis /\ list = items,
                            !.shown = r.shown /\ items = tree /\ changed = {}]

\* The lines of a node and what is below it, and all other lines.
Block(node) == LET own == descendantIdsOf(items, node)
               IN  SelectSeq(Lines(items), LAMBDA l : l[1] \in own)
Others(node) == LET own == descendantIdsOf(items, node)
                IN  SelectSeq(Lines(items), LAMBDA l : l[1] \notin own)

\* The other lines with the block after the first at of them.
Put(node, at, depth) ==
    LET rest  == Others(node)
        block == Block(node)
    IN  SubSeq(rest, 1, at)
          \o [i \in DOMAIN block |-> <<block[i][1], block[i][2] + depth - items[node].depth>>]
          \o SubSeq(rest, at + 1, Len(rest))

\* The line is drawn over the rows on the screen: the block goes right below the
\* row above it as its first child, or right above the row below.
AtLine(node, boundary, depth) ==
    LET above == Above(Rows, boundary)
        rest  == Others(node)
        own   == descendantIdsOf(items, node)
        below == {i \in DOMAIN Rows : i > boundary /\ Rows[i] \notin own}
        place(row) == CHOOSE i \in DOMAIN rest : rest[i][1] = row
    IN  Put(node, IF above # NULL /\ depth = items[above].depth + 1 /\ above \notin own
                  THEN place(above)
                  ELSE IF below = {} THEN Len(rest) ELSE place(Rows[Min(below)]) - 1, depth)

\* onUp: the target is computed from what the drag began with.
Drop(boundary, x) ==
    /\ drag # NoDrag /\ request = NoRequest
    /\ boundary \in 0..Len(drag.rows)
    /\ LET n      == drag.node
           depth  == depthFromX(drag.rows, drag.items, boundary, x)
           target == resolveTarget(drag.rows, drag.items, n, boundary, depth)
           seen   == boundary <= Len(Rows) /\ n \in DOMAIN items
       IN  /\ target.ok /\ ~StaysPut(drag.items, n, target)
           /\ Send([NoRequest EXCEPT !.op = "move", !.node = n, !.parent = target.parent,
                        !.order = sortOrderForTarget(target), !.shown = seen,
                        !.basis = drag.rows = Rows,
                        !.meant = IF seen THEN AtLine(n, boundary, depth) ELSE <<>>],
                   drag.items, drag.changed)
    /\ drag' = NoDrag
    /\ UNCHANGED <<tree, items, changed, fetching, collapsed>>

Ask(r) ==
    /\ drag = NoDrag /\ request = NoRequest
    /\ Send([r EXCEPT !.shown = TRUE, !.basis = TRUE], items, changed)
    /\ UNCHANGED <<tree, items, changed, fetching, collapsed, drag>>

\* onMoveSibling: the two blocks change places.
MoveSibling(n, direction) ==
    /\ n \in DOMAIN items
    /\ IndexNow(items, n) + direction \in 0..Len(siblingsExcluding(items, items[n].parent, n))
    /\ LET others == siblingsExcluding(items, items[n].parent, n)
           other  == others[IndexNow(items, n) + IF direction = 1 THEN 1 ELSE 0]
           first  == IF direction = 1 THEN n ELSE other
           second == IF direction = 1 THEN other ELSE n
           rest   == SelectSeq(Others(n), LAMBDA l : l[1] \notin descendantIdsOf(items, other))
           start  == Cardinality({i \in DOMAIN Lines(items) :
                         i < CHOOSE j \in DOMAIN Lines(items) : Lines(items)[j][1] = first})
       IN  Ask([NoRequest EXCEPT !.op = "move", !.node = n, !.parent = items[n].parent,
                    !.order = IndexNow(items, n) + direction + 1,
                    !.meant = SubSeq(rest, 1, start) \o Block(second) \o Block(first)
                                \o SubSeq(rest, start + 1, Len(rest))])

\* ParentPickerDialog: to the end of another group, or of the top level.
PickParent(n, p) ==
    /\ n \in DOMAIN items /\ items[n].parent # p
    /\ canDropInto(items, n, p)
    /\ LET rest  == Others(n)
           under == IF p = NULL THEN DOMAIN items ELSE descendantIdsOf(items, p)
           depth == IF p = NULL THEN 0 ELSE items[p].depth + 1
       IN  Ask([NoRequest EXCEPT !.op = "move", !.node = n, !.parent = p,
                    !.order = appendSortOrder(items, p, n),
                    !.meant = Put(n, Max({0} \cup {i \in DOMAIN rest : rest[i][1] \in under}),
                                  depth)])

\* The form for a new item: a child of p, or, with after, its next sibling.
AskCreate(p, after) ==
    /\ MayCreate(items, p)
    /\ after # NULL => after \in DOMAIN items /\ items[after].parent = p
    /\ \E n \in Ids \ (DOMAIN tree \cup DOMAIN items) :
          Ask([NoRequest EXCEPT !.op = "create", !.node = n, !.parent = p, !.after = after,
                  !.order = IF after = NULL THEN 0 ELSE items[after].order + 1,
                  !.meant = LET all   == Lines(items)
                                under == IF after # NULL THEN descendantIdsOf(items, after)
                                         ELSE IF p # NULL THEN descendantIdsOf(items, p)
                                         ELSE DOMAIN items
                                at == Max({0} \cup {i \in DOMAIN all : all[i][1] \in under})
                            IN  InsertAt(all, at + 1,
                                         <<n, IF p = NULL THEN 0 ELSE items[p].depth + 1>>)])

\* onDeleteNode, after the question; also by a key.
AskDelete(n) ==
    /\ n \in DOMAIN items
    /\ Ask([NoRequest EXCEPT !.op = "delete", !.node = n, !.meant = Others(n)])

-------------------------------------------------------------------------------
(* The answers                                                             *)

\* A success opens the group that has received the row, and asks for the list.
Succeed(next, opened) ==
    /\ request' = next
    /\ fetching' = TRUE
    /\ collapsed' = collapsed \ {opened}
    /\ UNCHANGED items

CommitMove ==
    /\ request.op = "move" /\ ~request.conflict
    /\ MayMove(tree, request.node, request.parent)
    /\ Write(Moved(tree, request.node, request.parent, request.order), request.node, 0)
    /\ Succeed(NoRequest, request.parent)

\* onCreated: the new item is at the end and moves behind its sibling.
CommitCreate ==
    /\ request.op = "create" /\ request.node \notin DOMAIN tree
    /\ MayCreate(tree, request.parent)
    /\ LET row == NewRow(tree, request.parent, FALSE)
       IN  /\ Write(request.node :> row @@ tree, request.node, 0)
           /\ Succeed(IF request.after # NULL /\ row.order # request.order
                      THEN [request EXCEPT !.op = "move"] ELSE NoRequest, NULL)

CommitDelete ==
    /\ request.op = "delete" /\ request.node \in DOMAIN tree
    /\ Write(Removed(tree, request.node), request.node, 0)
    /\ Succeed(NoRequest, NULL)

\* 404, 409 and 400: a toast, and the list stays as it is.
Refused ==
    /\ \/ request.op = "move" /\ (request.conflict \/ ~MayMove(tree, request.node, request.parent))
       \/ request.op = "create" /\ ~MayCreate(tree, request.parent)
       \/ request.op = "delete" /\ request.node \notin DOMAIN tree
    /\ request' = NoRequest
    /\ UNCHANGED <<tree, items, changed, fetching, collapsed, drag, writes>>

\* The list arrives, whatever goes on.
Refetch ==
    /\ fetching
    /\ items' = tree /\ changed' = {} /\ fetching' = FALSE
    /\ UNCHANGED <<tree, collapsed, drag, request, writes>>

\* Somebody else moves or deletes a node.
OtherWrites ==
    /\ writes.others < MaxOthers
    /\ \E n \in DOMAIN tree :
          \/ \E p \in DOMAIN tree \cup {NULL}, order \in 1..Cardinality(DOMAIN tree) :
                MayMove(tree, n, p) /\ Write(Moved(tree, n, p, order), n, 1)
          \/ Write(Removed(tree, n), n, 1)
    /\ request' = [request EXCEPT !.shown = FALSE,
                      !.conflict = @ \/ (request.op = "move" /\ request.node \in changed')]
    /\ UNCHANGED <<items, fetching, collapsed>>

-------------------------------------------------------------------------------
OutlineInit ==
    /\ tree \in StartTrees
    /\ items = tree
    /\ changed = {} /\ fetching = FALSE
    /\ collapsed = {}
    /\ drag = NoDrag /\ request = NoRequest
    /\ writes = [own |-> 0, others |-> 0]

OutlineNext ==
    \/ Collapse \/ CancelDrag \/ CommitMove \/ CommitCreate \/ CommitDelete
    \/ Refused \/ Refetch \/ OtherWrites
    \/ \E n \in Ids : StartDrag(n) \/ AskDelete(n)
    \/ \E b \in 0..Cardinality(Ids), x \in 0..MaxTreeDepth : Drop(b, x)
    \/ \E n \in Ids, direction \in {-1, 1} : MoveSibling(n, direction)
    \/ \E n \in Ids, p \in Ids \cup {NULL} : PickParent(n, p)
    \/ \E p \in Ids \cup {NULL}, after \in Ids \cup {NULL} : AskCreate(p, after)

OutlineSpec == OutlineInit /\ [][OutlineNext]_outlineVars

-------------------------------------------------------------------------------
Answered == request # NoRequest /\ request' = NoRequest

\* The write has happened, and the rows are those the user was promised.
Lands == tree' # tree /\ Lines(tree') = request.meant

(***************************************************************************)
(* What is dropped, moved, added or deleted ends up where the screen said, *)
(* and is not refused, if the screen showed what the server had, the       *)
(* request was computed from what it showed, and nobody wrote in between.  *)
(***************************************************************************)
LandsWhereShown ==
    [][Answered /\ request.shown /\ request.basis => Lands]_outlineVars
================================================================================
