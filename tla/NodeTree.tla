------------------------------- MODULE NodeTree -------------------------------
(***************************************************************************)
(* The schedule tree of the API server: NodesService in                    *)
(* apps/api/src/nodes/nodes.service.ts.                                    *)
(*                                                                         *)
(* A handler is a request that reads the database one query at a time and  *)
(* finally runs one transaction.  Between two awaits any other request may *)
(* run, so each query outside the transaction is an action that leaves     *)
(* what it read in the request's local state, and the transaction is one   *)
(* atomic action: SQLite has a single writer, and a statement that fails   *)
(* (a row that is gone, a foreign key) rolls the whole transaction back.   *)
(*                                                                         *)
(* Every throw of a handler, every failed transaction and every client     *)
(* that goes away is the action Fail: the request ends and writes nothing. *)
(*                                                                         *)
(* The requests are those whose actor passed the access check; titles,     *)
(* dates and progress of a node are abstracted to its updatedAt stamp.     *)
(***************************************************************************)
EXTENDS Integers, Sequences, FiniteSets, CsvImport

CONSTANTS
    NodeIds,        \* the supply of randomUUID() values
    Projects,
    Requests,       \* the handlers that can be in flight at once
    CsvFiles,       \* the CSV bodies: sequences of raw row depths
    MaxTreeDepth,   \* MAX_TREE_DEPTH
    MaxClock,       \* bound of the exploration: how many transactions commit
    NULL

ASSUME NodeIdsAssumption   == IsFiniteSet(NodeIds)
ASSUME TreeDepthAssumption == MaxTreeDepth \in Nat \ {0}
ASSUME ClockAssumption     == MaxClock \in Nat
ASSUME CsvAssumption       == CsvFiles \subseteq Seq(Nat)
ASSUME NullAssumption      == NULL \notin NodeIds /\ NULL \notin Projects

VARIABLES
    nodes,      \* schedule_nodes: id -> row, NULL for an id with no row
    history,    \* node_history: nodeIdSnapshot -> the actions recorded for it
    clock,      \* stamp of the last commit; @updatedAt takes the next one
    req,        \* the local state of each handler
    hung        \* the event loop is inside a loop that does not end

vars == <<nodes, history, clock, req, hung>>

Kinds   == {"GROUP", "ITEM"}
Actions == {"CREATE", "UPDATE", "MOVE", "DELETE"}
Ops     == {"none", "create", "update", "move", "delete", "import"}
Steps   == {"idle", "parent", "rows", "commit"}

Row == [project : Projects, parent : NodeIds \cup {NULL}, kind : Kinds,
        sortOrder : Nat \ {0}, depth : Int, updatedAt : Nat]

ASSUME NoRowAssumption == NULL \notin Row

Request == [op : Ops, step : Steps,
            id : NodeIds \cup {NULL},         \* the node named in the URL
            project : Projects \cup {NULL},
            parent : NodeIds \cup {NULL},     \* parentId / newParentId
            kind : Kinds \cup {NULL},
            position : Nat,                   \* newSortOrder
            expected : Nat,                   \* expectedUpdatedAt
            old : Row \cup {NULL},            \* the row `target` as it was read
            newDepth : Int,                   \* depth the node is to get
            subtree : SUBSET NodeIds,         \* subtreeIds as they were read
            csv : CsvFiles \cup {<< >>}]

Idle == [op |-> "none", step |-> "idle", id |-> NULL, project |-> NULL,
         parent |-> NULL, kind |-> NULL, position |-> 0, expected |-> 0,
         old |-> NULL, newDepth |-> 0, subtree |-> {}, csv |-> << >>]

-------------------------------------------------------------------------------
(* The tree                                                                *)

Live == {n \in NodeIds : nodes[n] # NULL}

\* randomUUID() never returns an id again.
Fresh == {n \in NodeIds : history[n] = << >>}

Children(p, q) == {n \in Live : nodes[n].project = p /\ nodes[n].parent = q}

(***************************************************************************)
(* What the breadth-first walk of childMap collects: the least set that    *)
(* holds n and the children of its members.                                *)
(***************************************************************************)
ClosedUnderChildren(S) ==
    \A m \in Live : nodes[m].parent \in S => m \in S

Subtree(n) ==
    {m \in Live \cup {n} : \A S \in SUBSET (Live \cup {n}) :
                              n \in S /\ ClosedUnderChildren(S) => m \in S}

(***************************************************************************)
(* The walk keeps no set of visited nodes: from a node of a cycle it never *)
(* ends.                                                                   *)
(***************************************************************************)
OnCycle(n) == \E c \in Live : nodes[c].parent = n /\ n \in Subtree(c)

\* A mistake the runs must catch: one level only.
ChildrenOnly(n) == {m \in Live : m = n \/ nodes[m].parent = n}

\* The subtree of hardDelete; a target that has gone leaves an empty one.
DoomedBy(n) == Subtree(n) \cap Live

-------------------------------------------------------------------------------
(* The checks of the handlers                                              *)

\* Mistakes the runs must catch: half of the check, no check.
FitParentOfAnyKind(q, p) == nodes[q].project = p
FitParentOfAnyProject(q, p) == nodes[q].kind # "ITEM"
AnyVersion(row, expected) == TRUE
NoForeignKey(q) == TRUE
NotItsOwnParent(q, below) == q.parent # q.id
SomeOrNone(S) == TRUE

\* The parent q is of project p (INVALID_PARENT) and no ITEM.
FitParent(q, p) == nodes[q].project = p /\ nodes[q].kind # "ITEM"

\* expectedUpdatedAt is compared with the row as it was read (CONFLICT).
VersionMatches(row, expected) == row.updatedAt = expected

\* The node does not move below itself (CYCLE_DETECTED).
NoCycle(q, below) == q.parent \notin below

\* The foreign key parent_id, checked by the database at the write.
ParentThere(q) == q = NULL \/ q \in Live

\* A statement on a row that has gone fails the transaction.
AllThere(S) == S \subseteq Live

-------------------------------------------------------------------------------
(* What a transaction writes                                               *)

\* The rows of project p below parent q, n excepted.
Siblings(rows, p, q, n) ==
    {m \in NodeIds \ {n} : /\ rows[m] # NULL
                           /\ rows[m].project = p
                           /\ rows[m].parent = q}

\* A mistake the runs must catch: gte for gt.
LaterOrSame(row, old) == row.sortOrder >= old.sortOrder

\* A sibling after the place that is left.
Later(row, old) == row.sortOrder > old.sortOrder

\* updateMany of sortOrder: @updatedAt stamps every row it touches.
Shift(rows, S, delta) ==
    [m \in NodeIds |->
        IF m \in S THEN [rows[m] EXCEPT !.sortOrder = @ + delta,
                                        !.updatedAt = clock + 1]
                   ELSE rows[m]]

\* Rows removed; the foreign key parent_id is ON DELETE SET NULL.
Remove(rows, S) ==
    [m \in NodeIds |->
        IF m \in S \/ rows[m] = NULL THEN NULL
        ELSE IF rows[m].parent \in S THEN [rows[m] EXCEPT !.parent = NULL]
        ELSE rows[m]]

\* A mistake the runs must catch: a move that passes for an update.
RecordMoveAsUpdate(h, S, action) ==
    [n \in NodeIds |-> IF n \in S
                       THEN Append(h[n], IF action = "MOVE" THEN "UPDATE" ELSE action)
                       ELSE h[n]]

\* writeHistory for each node of S.
Record(h, S, action) ==
    [n \in NodeIds |-> IF n \in S THEN Append(h[n], action) ELSE h[n]]

-------------------------------------------------------------------------------
(* How a request goes on                                                   *)

Begin(r) == req[r] = Idle /\ ~hung

At(r, op, step) == req[r].op = op /\ req[r].step = step /\ ~hung

Goto(r, state) ==
    /\ req' = [req EXCEPT ![r] = state]
    /\ UNCHANGED <<nodes, history, clock, hung>>

\* The commit of r's transaction; the response ends the request.
Commit(r, rows, hist) ==
    /\ clock < MaxClock
    /\ nodes' = rows
    /\ history' = hist
    /\ clock' = clock + 1
    /\ req' = [req EXCEPT ![r] = Idle]
    /\ UNCHANGED hung

-------------------------------------------------------------------------------
(* create                                                                  *)

\* findUnique of the parent; a root needs no read.
CreateRead(r) ==
    /\ Begin(r)
    /\ \E p \in Projects, q \in Live \cup {NULL}, k \in Kinds :
          LET depth == IF q = NULL THEN 0 ELSE nodes[q].depth + 1
          IN  /\ q # NULL => FitParent(q, p)
              /\ depth < MaxTreeDepth
              /\ Goto(r, [Idle EXCEPT !.op = "create", !.step = "commit",
                                      !.project = p, !.parent = q, !.kind = k,
                                      !.newDepth = depth])

CreateCommit(r) ==
    LET q == req[r]
        siblings == Children(q.project, q.parent)
    IN  /\ At(r, "create", "commit")
        /\ ParentThere(q.parent)
        /\ \E n \in Fresh, last \in {0} \cup {nodes[m].sortOrder : m \in siblings} :
              /\ \A m \in siblings : nodes[m].sortOrder <= last
              /\ Commit(r,
                  [nodes EXCEPT ![n] =
                      [project |-> q.project, parent |-> q.parent,
                       kind |-> q.kind, sortOrder |-> last + 1,
                       depth |-> q.newDepth, updatedAt |-> clock + 1]],
                  Record(history, {n}, "CREATE"))

-------------------------------------------------------------------------------
(* update                                                                  *)

\* A body that changes nothing ends here without a write: that is Fail.
UpdateRead(r) ==
    /\ Begin(r)
    /\ \E n \in Live, expected \in 0..clock :
          /\ VersionMatches(nodes[n], expected)
          /\ Goto(r, [Idle EXCEPT !.op = "update", !.step = "commit", !.id = n,
                                  !.project = nodes[n].project,
                                  !.expected = expected, !.old = nodes[n]])

UpdateCommit(r) ==
    LET n == req[r].id
    IN  /\ At(r, "update", "commit")
        /\ n \in Live
        /\ Commit(r, [nodes EXCEPT ![n].updatedAt = clock + 1],
                     Record(history, {n}, "UPDATE"))

-------------------------------------------------------------------------------
(* move                                                                    *)

MoveReadTarget(r) ==
    /\ Begin(r)
    /\ \E n \in Live, expected \in 0..clock, q \in Live \cup {NULL},
          position \in 1..Cardinality(NodeIds) :
          /\ VersionMatches(nodes[n], expected)
          /\ q # n                                      \* CYCLE_DETECTED
          /\ Goto(r, [Idle EXCEPT
                        !.op = "move",
                        !.step = IF q = NULL THEN "rows" ELSE "parent",
                        !.id = n, !.project = nodes[n].project, !.parent = q,
                        !.position = position, !.expected = expected,
                        !.old = nodes[n]])

MoveReadParent(r) ==
    LET q == req[r].parent
    IN  /\ At(r, "move", "parent")
        /\ q \in Live
        /\ FitParent(q, req[r].project)
        /\ Goto(r, [req[r] EXCEPT !.step = "rows",
                                  !.newDepth = nodes[q].depth + 1])

\* allRows: the subtree, the cycle check and the depth limit.
MoveReadRows(r) ==
    LET q == req[r]
        below == Subtree(q.id)
        depths == {q.old.depth} \cup {nodes[m].depth : m \in below \ {q.id}}
    IN  /\ At(r, "move", "rows")
        /\ ~OnCycle(q.id)
        /\ NoCycle(q, below)
        /\ \A d \in depths : d + (q.newDepth - q.old.depth) < MaxTreeDepth
        /\ Goto(r, [q EXCEPT !.step = "commit", !.subtree = below])

\* Mistakes the runs must catch: step 1 is left out when the parent stays
\* (the comment at 357-359), step 4 is left out.
ClosingUnlessSameParent(q) ==
    {m \in Siblings(nodes, q.project, q.old.parent, q.id) :
        q.parent # q.old.parent /\ Later(nodes[m], q.old)}
NoDescendants(q) == {}

\* The siblings that close the gap of step 1.
Closing(q) ==
    {m \in Siblings(nodes, q.project, q.old.parent, q.id) : Later(nodes[m], q.old)}

\* The nodes of step 4: those below the moved one when the rows were read.
Descendants(q) == q.subtree \ {q.id}

(***************************************************************************)
(* Close the gap below the old parent, open one below the new parent, add  *)
(* the difference of depth to the descendants that were read, and put the  *)
(* node in its place.                                                      *)
(***************************************************************************)
Moved(q) ==
    LET delta    == q.newDepth - q.old.depth
        closed   == Shift(nodes, Closing(q), -1)
        newSibs  == Siblings(closed, q.project, q.parent, q.id)
        places   == Cardinality(newSibs) + 1
        insertAt == IF q.position <= places THEN q.position ELSE places
        opened   == Shift(closed, {m \in newSibs : closed[m].sortOrder >= insertAt}, 1)
        below    == {m \in Descendants(q) : delta # 0 /\ opened[m] # NULL}
    IN  [m \in NodeIds |->
            IF m = q.id
            THEN [opened[m] EXCEPT !.parent = q.parent, !.sortOrder = insertAt,
                                   !.depth = q.newDepth, !.updatedAt = clock + 1]
            ELSE IF m \in below
            THEN [opened[m] EXCEPT !.depth = @ + delta, !.updatedAt = clock + 1]
            ELSE opened[m]]

MoveCommit(r) ==
    LET q == req[r]
    IN  /\ At(r, "move", "commit")
        /\ q.id \in Live
        /\ ParentThere(q.parent)
        /\ Commit(r, Moved(q), Record(history, {q.id}, "MOVE"))

-------------------------------------------------------------------------------
(* hardDelete                                                              *)

DeleteReadTarget(r) ==
    /\ Begin(r)
    /\ \E n \in Live :
          Goto(r, [Idle EXCEPT !.op = "delete", !.step = "rows", !.id = n,
                               !.project = nodes[n].project, !.old = nodes[n]])

DeleteReadRows(r) ==
    LET n == req[r].id
    IN  /\ At(r, "delete", "rows")
        /\ ~OnCycle(n)
        /\ Goto(r, [req[r] EXCEPT !.step = "commit",
                                  !.subtree = DoomedBy(n)])

(***************************************************************************)
(* DELETE history for each node that was read, later siblings pulled up,   *)
(* the nodes deleted one by one.  The history row or the delete of a node  *)
(* that has gone in the meantime fails, and everything rolls back.         *)
(***************************************************************************)
DeleteCommit(r) ==
    LET q == req[r]
        later == {m \in Siblings(nodes, q.project, q.old.parent, NULL) :
                     Later(nodes[m], q.old)}
    IN  /\ At(r, "delete", "commit")
        /\ AllThere(q.subtree)
        /\ Commit(r, Remove(Shift(nodes, later, -1), q.subtree),
                     Record(history, q.subtree, "DELETE"))

-------------------------------------------------------------------------------
(* importCsv                                                               *)

ImportRead(r) ==
    /\ Begin(r)
    /\ \E p \in Projects, csv \in CsvFiles :
          /\ csv # << >>                                \* NO_VALID_NODES
          /\ Goto(r, [Idle EXCEPT !.op = "import", !.step = "commit",
                                  !.project = p, !.csv = csv])

\* The whole tree of the project is replaced by the rows of the file.
ImportCommit(r) ==
    LET q      == req[r]
        rows   == 1..Len(q.csv)
        doomed == {n \in Live : nodes[n].project = q.project}
    IN  /\ At(r, "import", "commit")
        /\ \E depth \in [rows -> 0..(MaxTreeDepth - 1)] :
           /\ IsCorrected(q.csv, depth)
           /\ \E parent \in [rows -> {0} \cup rows], id \in [rows -> Fresh] :
              /\ IsParentage(depth, parent)
              /\ \A i, j \in rows : id[i] = id[j] => i = j
              /\ LET born    == {id[i] : i \in rows}
                     rowOf(n) == CHOOSE i \in rows : id[i] = n
                     rowFor(i) ==
                         [project |-> q.project,
                          parent |-> IF parent[i] = 0 THEN NULL ELSE id[parent[i]],
                          kind |-> RowKind(parent, i),
                          sortOrder |-> RowSortOrder(parent, i),
                          depth |-> depth[i], updatedAt |-> clock + 1]
                     kept == Remove(nodes, doomed)
                 IN  Commit(r,
                       [n \in NodeIds |->
                          IF n \in born THEN rowFor(rowOf(n)) ELSE kept[n]],
                       Record(Record(history, doomed, "DELETE"), born, "CREATE"))

-------------------------------------------------------------------------------
(* Failures                                                                *)

\* A throw, a failed transaction, a lost client: nothing is written.
Fail(r) ==
    /\ req[r] # Idle
    /\ ~hung
    /\ req' = [req EXCEPT ![r] = Idle]
    /\ UNCHANGED <<nodes, history, clock, hung>>

\* The walk of allRows starts inside a cycle: the process stops answering.
Hang(r) ==
    /\ At(r, "move", "rows") \/ At(r, "delete", "rows")
    /\ OnCycle(req[r].id)
    /\ hung' = TRUE
    /\ UNCHANGED <<nodes, history, clock, req>>

\* The process dies or is killed and starts again: only the database stays.
Restart ==
    /\ hung \/ \E r \in Requests : req[r] # Idle
    /\ hung' = FALSE
    /\ req' = [r \in Requests |-> Idle]
    /\ UNCHANGED <<nodes, history, clock>>

-------------------------------------------------------------------------------
Init ==
    /\ nodes = [n \in NodeIds |-> NULL]
    /\ history = [n \in NodeIds |-> << >>]
    /\ clock = 0
    /\ req = [r \in Requests |-> Idle]
    /\ hung = FALSE

Handler(r) ==
    \/ CreateRead(r) \/ CreateCommit(r)
    \/ UpdateRead(r) \/ UpdateCommit(r)
    \/ MoveReadTarget(r) \/ MoveReadParent(r) \/ MoveReadRows(r) \/ MoveCommit(r)
    \/ DeleteReadTarget(r) \/ DeleteReadRows(r) \/ DeleteCommit(r)
    \/ ImportRead(r) \/ ImportCommit(r)
    \/ Hang(r) \/ Fail(r)

Next == Restart \/ \E r \in Requests : Handler(r)

Spec == Init /\ [][Next]_vars

-------------------------------------------------------------------------------
(* Properties of every interleaving                                        *)

TypeOK ==
    /\ nodes \in [NodeIds -> Row \cup {NULL}]
    /\ history \in [NodeIds -> Seq(Actions)]
    /\ clock \in Nat
    /\ req \in [Requests -> Request]
    /\ hung \in BOOLEAN

(***************************************************************************)
(* Whatever the requests in flight do to each other, the parent of a node  *)
(* exists, is in the node's project and is a GROUP: the handlers check the *)
(* parent some awaits before they write (create 67-79, move 300-315).      *)
(***************************************************************************)
ParentIsLiveGroup ==
    \A n \in Live :
        LET q == nodes[n].parent
        IN  q # NULL => /\ q \in Live
                        /\ nodes[q].project = nodes[n].project
                        /\ nodes[q].kind = "GROUP"

\* h is the history of a node that exists iff alive.
TellsLife(h, alive) ==
    /\ \A i \in 1..Len(h) : /\ h[i] = "CREATE" <=> i = 1
                            /\ h[i] = "DELETE" => i = Len(h)
    /\ alive <=> h # << >> /\ h[Len(h)] # "DELETE"

(***************************************************************************)
(* The history of a node tells its life: CREATE once and first, DELETE at  *)
(* most once and last, and the node exists exactly from the one to the     *)
(* other (the comment of importCsv at 925-931: a node that is deleted for  *)
(* good stays traceable).                                                  *)
(***************************************************************************)
HistoryTellsLife == \A n \in NodeIds : TellsLife(history[n], n \in Live)

(***************************************************************************)
(* A node changes its parent only in a step that records MOVE for it, or   *)
(* when its parent is deleted under it (ON DELETE SET NULL).               *)
(***************************************************************************)
ParentChangeIsRecorded ==
    [][\A n \in Live \cap Live' :
          nodes'[n].parent # nodes[n].parent =>
              \/ history'[n] = Append(history[n], "MOVE")
              \/ nodes[n].parent \in Live \ Live' /\ nodes'[n].parent = NULL]_vars

(***************************************************************************)
(* The tree implements the ledger: whatever is in flight, ids are never    *)
(* reused, kind and project of a node never change, and one transaction    *)
(* turns nodes over or rehangs one node.                                   *)
(***************************************************************************)
Ledger == INSTANCE NodeLedger WITH
    life <- [n \in NodeIds |-> IF history[n] = << >> THEN "unborn"
                               ELSE IF nodes[n] = NULL THEN "gone" ELSE "live"],
    label <- [n \in NodeIds |->
                IF nodes[n] = NULL THEN NULL
                ELSE [project |-> nodes[n].project, kind |-> nodes[n].kind]],
    parent <- [n \in NodeIds |->
                IF nodes[n] = NULL THEN NULL ELSE nodes[n].parent]

ImplementsLedger == Ledger!LedgerSpec

\* The request has read its parent and found it fit.
ParentChecked(q) == q.op = "create" \/ (q.op = "move" /\ q.step \in {"rows", "commit"})

CheckStaysTrue(q) ==
    /\ q.op # "none" => q.project \in Projects
    /\ q.op = "create" => q.kind \in Kinds
    /\ q.op \in {"update", "move", "delete"} => q.id \in NodeIds /\ q.old \in Row
    /\ q.id # NULL => history[q.id] # << >>
    /\ q.parent # NULL => history[q.parent] # << >>
    /\ q.op = "move" => q.position > 0
    /\ q.op = "move" /\ q.id \in Live => nodes[q.id].project = q.project
    /\ ParentChecked(q) /\ q.parent \in Live =>
          nodes[q.parent].project = q.project /\ nodes[q.parent].kind = "GROUP"

(***************************************************************************)
(* What a request in flight may rely on, however old its reads are: the    *)
(* rows it names have existed, and a parent that passed the check is, as   *)
(* long as it lives, still a GROUP of the request's project.  With the     *)
(* three invariants above it is inductive.                                 *)
(***************************************************************************)
ChecksStayTrue == \A r \in Requests : CheckStaysTrue(req[r])

-------------------------------------------------------------------------------
(* Properties of requests that do not overlap.  Two requests in flight     *)
(* break each of them: see the README.                                     *)

\* At most one request is in flight.
OneAtATime == \A q, r \in Requests : req[q] # Idle /\ req[r] # Idle => q = r

\* The tree has no cycle (the cycle check of move, 319-343).
Acyclic == \A n \in Live : ~OnCycle(n)

\* depth is the distance to the root and stays below MAX_TREE_DEPTH.
DepthFollowsParent ==
    \A n \in Live :
        LET q == nodes[n].parent
        IN  /\ nodes[n].depth = IF q = NULL THEN 0 ELSE nodes[q].depth + 1
            /\ nodes[n].depth < MaxTreeDepth

\* The children of one parent are numbered 1, 2, 3... without gap or repeat.
SortOrderContiguous ==
    \A p \in Projects, q \in Live \cup {NULL} :
        LET S == Children(p, q)
        IN  {nodes[m].sortOrder : m \in S} = 1..Cardinality(S)

\* What requests that do not overlap keep.
TreeInShape == Acyclic /\ DepthFollowsParent /\ SortOrderContiguous

Commits(r) == req[r].step = "commit" /\ clock' # clock /\ req'[r] = Idle

(***************************************************************************)
(* An update or a move is written only over the version of the node that   *)
(* the client said it had seen (expectedUpdatedAt).                        *)
(***************************************************************************)
LostNothing ==
    \A r \in Requests :
        Commits(r) /\ req[r].op \in {"update", "move"} =>
            nodes[req[r].id].updatedAt = req[r].expected

NoLostUpdate == [][LostNothing]_vars

(***************************************************************************)
(* Deleting a node deletes everything below it: no child is left behind    *)
(* to float up to the root (the comment of hardDelete at 510-511).         *)
(***************************************************************************)
LeftNoChild ==
    \A n \in Live : nodes[n].parent \in Live \ Live' => n \notin Live'

DeleteTakesSubtree == [][LeftNoChild]_vars
===============================================================================
