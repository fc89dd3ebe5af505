------------------------------- MODULE BulkEdit -------------------------------
(***************************************************************************)
(* Several rows at once (ProjectDetailPage.tsx: toggleNodeSelect and the   *)
(* loops runBulkDelete, runBulkComplete, runBulkShiftDate; bulkResult.ts): *)
(* one request after the other, on to the end whatever fails, and one      *)
(* message with the counts.                                                *)
(*                                                                         *)
(* The shape of the tree stays (forest); what changes is which rows are    *)
(* there, their versions and whether they are at 100 %.  hits and calm are *)
(* kept for the property: what the loop has done to each row, and whether  *)
(* its list was and stayed that of the server.                             *)
(***************************************************************************)
EXTENDS TreeView

CONSTANTS
    Forest,         \* the list of nodes: id -> [parent, order, depth, group]
    Undated,        \* items without dates
    MaxLoops,       \* bound on the loops
    MaxFaults       \* bound on the faults

ASSUME ForestAssumption ==
    /\ IsFiniteSet(DOMAIN Forest) /\ DOMAIN Forest \subseteq Nat /\ NULL \notin DOMAIN Forest
    /\ \A n \in DOMAIN Forest :
          LET p == Forest[n].parent IN
          /\ Forest[n].depth \in Nat
          /\ p # NULL => p \in DOMAIN Forest /\ Forest[p].depth < Forest[n].depth

VARIABLES
    version,    \* id -> updatedAt on the server, 0 when the row is gone
    complete,   \* ids with progress 100
    list,       \* what the screen has read: [version, complete]
    ticked,     \* selectedNodeIds
    loop,       \* the loop under way
    hits,       \* id -> writes of this loop
    loops,      \* loops so far
    faults      \* requests without an answer, and writes of somebody else, so far

bulkVars == <<version, complete, list, ticked, loop, hits, loops, faults>>

Modes == {"delete", "items", "descendants", "shift"}

NoLoop == [mode |-> "none", todo |-> {}, targets |-> {}, list |-> <<>>,
           succeeded |-> 0, failed |-> 0, skipped |-> 0, calm |-> FALSE]

Here == {n \in DOMAIN Forest : list.version[n] > 0}

\* The list as a tree; the selection may name rows that are gone.
ItemsHere == [n \in Here |-> Forest[n]]

\* A group takes all that is below it along.
toggleNodeSelect(n) ==
    /\ loop = NoLoop
    /\ n \in Here
    /\ LET own == IF Forest[n].group THEN descendantIdsOf(ItemsHere, n) ELSE {n}
       IN  ticked' = IF n \in ticked THEN ticked \ own ELSE ticked \cup own
    /\ UNCHANGED <<version, complete, list, loop, hits, loops, faults>>

Targets(mode) ==
    CASE mode = "delete" -> collectDeleteTargets(ItemsHere, ticked)
      [] mode = "items"  -> collectCompleteTargets(ItemsHere, ticked, FALSE)
      [] mode = "descendants" -> collectCompleteTargets(ItemsHere, ticked, TRUE)
      [] mode = "shift"  -> collectShiftTargets(ItemsHere, ticked)

\* The dialog asks about groups only when one is ticked.
StartLoop(mode) ==
    /\ loop = NoLoop /\ ticked # {}
    /\ loops < MaxLoops /\ loops' = loops + 1
    /\ mode = "descendants" => hasGroupSelected(ItemsHere, ticked)
    /\ LET targets == Targets(mode)
       IN  loop' = [NoLoop EXCEPT !.mode = mode, !.todo = targets, !.targets = targets,
                                  !.list = list,
                                  !.calm = list.version = version /\ ticked \subseteq Here]
    /\ hits' = [n \in DOMAIN Forest |-> 0]
    /\ UNCHANGED <<version, complete, list, ticked, faults>>

\* Already at 100 %, or without dates: not sent.
IsSkipped(n) == \/ loop.mode \in {"items", "descendants"} /\ n \in loop.list.complete
                \/ loop.mode = "shift" /\ n \in Undated

\* expectedUpdatedAt is that of the list the loop began with; a delete has none.
MatchesVersion(n) ==
    /\ version[n] > 0
    /\ loop.mode # "delete" => version[n] = loop.list.version[n]

Apply(n) ==
    LET own == IF loop.mode = "delete" THEN descendantIdsOf(Forest, n) ELSE {n}
    IN  /\ version' = [m \in DOMAIN Forest |->
                          IF loop.mode = "delete" /\ m \in own THEN 0
                          ELSE IF m = n THEN version[m] + 1 ELSE version[m]]
        /\ complete' = IF loop.mode = "delete" THEN complete \ own
                       ELSE IF loop.mode = "shift" THEN complete ELSE complete \cup {n}
        /\ hits' = [hits EXCEPT ![n] = @ + 1]

\* The rows come in the order of the list, which is that of the ids.
IsNextRow(n) == loop.todo # {} /\ n = Min(loop.todo)

SkipRow(n) ==
    /\ IsNextRow(n) /\ IsSkipped(n)
    /\ loop' = [loop EXCEPT !.todo = @ \ {n}, !.skipped = @ + 1]
    /\ UNCHANGED <<version, complete, list, ticked, hits, loops, faults>>

RowSucceeds(n) ==
    /\ IsNextRow(n) /\ ~IsSkipped(n) /\ MatchesVersion(n)
    /\ Apply(n)
    /\ loop' = [loop EXCEPT !.todo = @ \ {n}, !.succeeded = @ + 1]
    /\ UNCHANGED <<list, ticked, loops, faults>>

\* A mistake the runs must catch: the loop ends with the first failure.
StopAtFailure(n, calm) == [loop EXCEPT !.todo = {}, !.failed = @ + 1, !.calm = calm]

AfterFailure(n, calm) == [loop EXCEPT !.todo = @ \ {n}, !.failed = @ + 1, !.calm = calm]

\* 409 or 404.
RowFails(n) ==
    /\ IsNextRow(n) /\ ~IsSkipped(n) /\ ~MatchesVersion(n)
    /\ loop' = AfterFailure(n, loop.calm)
    /\ UNCHANGED <<version, complete, list, ticked, hits, loops, faults>>

\* The request or its answer is lost: it counts as a failure either way.
RowIsLost(n) ==
    /\ IsNextRow(n) /\ ~IsSkipped(n) /\ faults < MaxFaults
    /\ faults' = faults + 1
    /\ \/ MatchesVersion(n) /\ Apply(n)
       \/ UNCHANGED <<version, complete, hits>>
    /\ loop' = AfterFailure(n, FALSE)
    /\ UNCHANGED <<list, ticked, loops>>

\* reportBulk; the selection mode ends.
Report ==
    /\ loop # NoLoop /\ loop.todo = {}
    /\ loop' = NoLoop
    /\ ticked' = {}
    /\ UNCHANGED <<version, complete, list, hits, loops, faults>>

\* A success asks for the list; it comes at some time, in the loop too.
Reread ==
    /\ list' = [version |-> version, complete |-> complete]
    /\ UNCHANGED <<version, complete, ticked, loop, hits, loops, faults>>

OtherEdits(n) ==
    /\ version[n] > 0 /\ faults < MaxFaults
    /\ faults' = faults + 1
    /\ \/ version' = [version EXCEPT ![n] = @ + 1] /\ UNCHANGED complete
       \/ /\ version' = [m \in DOMAIN Forest |->
                            IF m \in descendantIdsOf(Forest, n) THEN 0 ELSE version[m]]
          /\ complete' = complete \ descendantIdsOf(Forest, n)
    /\ loop' = [loop EXCEPT !.calm = FALSE]
    /\ UNCHANGED <<list, ticked, hits, loops>>

BulkInit ==
    /\ version = [n \in DOMAIN Forest |-> 1]
    /\ complete \in SUBSET {n \in DOMAIN Forest : ~Forest[n].group}
    /\ list = [version |-> version, complete |-> complete]
    /\ ticked = {} /\ loop = NoLoop
    /\ hits = [n \in DOMAIN Forest |-> 0]
    /\ loops = 0 /\ faults = 0

BulkNext ==
    \/ Report \/ Reread
    \/ \E mode \in Modes : StartLoop(mode)
    \/ \E n \in DOMAIN Forest :
          toggleNodeSelect(n) \/ SkipRow(n) \/ RowSucceeds(n) \/ RowFails(n) \/ RowIsLost(n) \/ OtherEdits(n)

-------------------------------------------------------------------------------
WrittenRows == {n \in DOMAIN Forest : hits[n] > 0}

(***************************************************************************)
(* When the message with the counts comes, every row the selection stood   *)
(* for has been tried: each was written at most once (a date is not        *)
(* shifted twice), and nothing else was; what counts as done has been      *)
(* done; all are counted; and nothing failed unless somebody else wrote or *)
(* a request got lost (bulkResult.ts, 5-13), or the list was an old one.   *)
(***************************************************************************)
BulkReportsTruly ==
    loop # NoLoop /\ loop.todo = {} =>
        /\ WrittenRows \subseteq loop.targets
        /\ \A n \in DOMAIN Forest : hits[n] <= 1
        /\ Cardinality(WrittenRows) \in loop.succeeded..(loop.succeeded + loop.failed)
        /\ loop.succeeded + loop.failed + loop.skipped = Cardinality(loop.targets)
        /\ loop.calm => loop.failed = 0
===============================================================================
