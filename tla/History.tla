------------------------------- MODULE History -------------------------------
(***************************************************************************)
(* What happened in a project, newest first: the changes of its nodes and  *)
(* the comments, put together from four reads (project-history.service.ts, *)
(* history-utils.ts), the comments (comments.service.ts), and the page     *)
(* that shows it from a cache (ProjectHistoryPage.tsx, projectHistory.ts,  *)
(* comments.ts), while everybody goes on writing.                          *)
(*                                                                         *)
(* The time of a row is its number among all writes.  A diff is the set of *)
(* what it changes: "down" and "up" for the progress, "period", "title".   *)
(* The titles of a node are <<node, 0>>, <<node, 1>>, ...  Who wrote it,   *)
(* the texts and the parents' names are left out.                          *)
(***************************************************************************)
EXTENDS Integers, FiniteSets, Sequences, TLC

CONSTANTS
    NodeIds,           \* ids of nodes: 1, 2, ...
    Queries,        \* what the page asks for: a topic, and a range: "recent" or "custom"
    Recent,         \* how far "recent" goes back
    Diffs,          \* what an update may change
    Limit,          \* RESULT_LIMIT
    ReadLimit,      \* RESULT_LIMIT * 4
    MaxWritten,     \* bound on writes
    MaxOpenings,    \* bound on openings of the page
    Nobody          \* no list

ASSUME HistoryAssumption ==
    /\ NodeIds \subseteq Nat \ {0}
    /\ Limit \in Nat \ {0} /\ Recent \in Nat \ {0} /\ ReadLimit \in Nat /\ ReadLimit > Limit

VARIABLES
    written,    \* number of writes so far
    nodes,      \* the nodes that are there: titles, now and before the last change
    log,        \* node_history
    comments,   \* node_comments, the deleted ones too
    reading,    \* the request for the list: how far it is and what it has read
    shown,      \* the page: what it asks for, its list, and own as it was before
    cache,      \* the lists the browser keeps, by query
    own,        \* one's own writes: the one without an answer yet, its kind, the last with
                \* an answer, and the last of these that was no import
    openings

dataVars    == <<written, nodes, log, comments>>
historyVars == <<dataVars, reading, shown, cache, own, openings>>

-------------------------------------------------------------------------------
(* history-utils.ts                                                        *)

isProgressDown(diff) == "down" \in diff
isPeriodChange(diff) == "period" \in diff

\* Of several changes, the progress counts before the period, the period before the title.
classifyChange(action, diff) ==
    IF action # "UPDATE" THEN action
    ELSE IF isProgressDown(diff) THEN "PROGRESS_DOWN"
    ELSE IF "up" \in diff THEN "PROGRESS_UP"
    ELSE IF isPeriodChange(diff) THEN "PERIOD"
    ELSE IF "title" \in diff THEN "TITLE" ELSE "OTHER"

IsOfTopic(row, topic) ==
    CASE topic = "COMMENTS"      -> FALSE
      [] topic = "DELETED"       -> row.action = "DELETE"
      [] topic = "PROGRESS_DOWN" -> row.action = "UPDATE" /\ isProgressDown(row.diff)
      [] topic = "PERIOD_CHANGE" -> row.action = "UPDATE" /\ isPeriodChange(row.diff)
      [] topic = "ALL"           -> TRUE

selectHistoryByTopic(rows, topic) == {row \in rows : IsOfTopic(row, topic)}

NeedsHistory(topic)  == topic # "COMMENTS"
NeedsComments(topic) == topic \in {"ALL", "COMMENTS"}

Newer(a, b) == a.time > b.time

\* How many are newer.
Rank(rows, row) == Cardinality({x \in rows : Newer(x, row)})

NewestFirst(rows) ==
    [i \in 1..Cardinality(rows) |-> CHOOSE row \in rows : Rank(rows, row) = i - 1]

\* A mistake the runs must catch: the comments come after the changes.
OneAfterOther(changes, remarks) == NewestFirst(changes) \o NewestFirst(remarks)

Merge(changes, remarks) == NewestFirst(changes \cup remarks)

Cut(items) == SubSeq(items, 1, IF Len(items) > Limit THEN Limit ELSE Len(items))

\* meta: what is known of a node's title, and whether it is gone.
Entry(row, meta) ==
    [type |-> row.type, node |-> row.node, time |-> row.time,
     label |-> IF row.type = "COMMENT" THEN "COMMENT" ELSE classifyChange(row.action, row.diff),
     title |-> meta[row.node].title, deleted |-> meta[row.node].deleted]

buildProjectHistory(rows, remarks, meta, topic) ==
    LET items == Merge({Entry(row, meta) : row \in selectHistoryByTopic(rows, topic)},
                       {Entry(row, meta) : row \in remarks})
    IN  [items |-> Cut(items), truncated |-> Len(items) > Limit]

-------------------------------------------------------------------------------
(* project-history.service.ts: a list is read                              *)

NoReading == [step |-> "idle", asked |-> 0, query |-> Nobody, rows |-> {}, remarks |-> {},
              live |-> [n \in {} |-> Nobody], list |-> Nobody]

\* The request: it is answered for the time it comes in, a custom range ends with the day.
Ask(query) == [NoReading EXCEPT !.step = "sent", !.asked = written, !.query = query]

Topic == reading.query.topic

resolveWindow ==
    IF reading.query.range = "custom" THEN [from |-> 0, to |-> MaxWritten]
    ELSE [from |-> reading.asked - Recent, to |-> reading.asked]

InWindow(row) == resolveWindow.from < row.time /\ row.time <= resolveWindow.to

Taken(rows) == {row \in rows : Rank(rows, row) < ReadLimit}

\* The ones with the oldest time first, when there are too many: a mistake the runs must catch.
TakenOldest(rows) == {row \in rows : Cardinality({x \in rows : Newer(row, x)}) < ReadLimit}

TakeHistory(rows) == Taken(rows)

ReadHistory ==
    /\ reading.step = "sent"
    /\ reading' = [reading EXCEPT !.step = "history",
                     !.rows = IF NeedsHistory(Topic)
                              THEN TakeHistory({row \in log : InWindow(row)}) ELSE {}]
    /\ UNCHANGED <<dataVars, shown, cache, own, openings>>

\* Of the nodes that are there.
ReadComments ==
    /\ reading.step = "history"
    /\ reading' = [reading EXCEPT !.step = "comments",
                     !.remarks = IF NeedsComments(Topic)
                                 THEN Taken({c \in comments : InWindow(c) /\ ~c.gone}) ELSE {}]
    /\ UNCHANGED <<dataVars, shown, cache, own, openings>>

ReadNodes ==
    /\ reading.step = "comments"
    /\ reading' = [reading EXCEPT !.step = "nodes", !.live = nodes]
    /\ UNCHANGED <<dataVars, shown, cache, own, openings>>

Mentioned == {row.node : row \in reading.rows \cup reading.remarks}

DeletionOf(n) == {row \in log : row.node = n /\ row.action = "DELETE"}

Unknown == <<0, 0>>

\* A mistake the runs must catch: only nodes that are there have a title.
NoTitle(n) == Unknown

TitleOfDead(n) ==
    IF DeletionOf(n) = {} THEN Unknown ELSE (CHOOSE row \in DeletionOf(n) : TRUE).title

\* The titles of the deleted ones are read last.
AnswerList ==
    /\ reading.step = "nodes"
    /\ LET meta == [n \in Mentioned |->
                      IF n \in DOMAIN reading.live
                      THEN [title |-> reading.live[n].title, deleted |-> FALSE]
                      ELSE [title |-> TitleOfDead(n), deleted |-> TRUE]]
       IN  reading' = [reading EXCEPT !.step = "answered",
                         !.list = buildProjectHistory(reading.rows, reading.remarks, meta, Topic)]
    /\ UNCHANGED <<dataVars, shown, cache, own, openings>>

-------------------------------------------------------------------------------
(* The page                                                                *)

NoWrites == [unsure |-> 0, kind |-> "none", answered |-> 0, changed |-> 0]

Closed == [open |-> FALSE, list |-> Nobody, before |-> NoWrites]

\* What is in the cache is shown, and asked for again.
OpenPage(query) ==
    /\ ~shown.open /\ reading.step = "idle" /\ openings < MaxOpenings
    /\ shown' = [open |-> TRUE, query |-> query, list |-> cache[query], before |-> own]
    /\ reading' = Ask(query)
    /\ openings' = openings + 1
    /\ UNCHANGED <<dataVars, cache, own>>

ClosePage ==
    /\ shown.open /\ shown' = Closed
    /\ UNCHANGED <<dataVars, reading, cache, own, openings>>

\* Also when the page has been left: it comes to the cache.
ListArrives ==
    /\ reading.step = "answered"
    /\ LET list == [items |-> reading.list.items, truncated |-> reading.list.truncated,
                   asked |-> reading.asked]
       IN  /\ cache' = [cache EXCEPT ![reading.query] = list]
           /\ shown' = IF shown.open /\ shown.query = reading.query
                       THEN [shown EXCEPT !.list = list] ELSE shown
    /\ reading' = NoReading
    /\ UNCHANGED <<dataVars, own, openings>>

ListFails ==
    /\ reading.step = "sent"
    /\ reading' = NoReading
    /\ UNCHANGED <<dataVars, shown, cache, own, openings>>

-------------------------------------------------------------------------------
(* Writes                                                                  *)

RowAt(time, n, action, diff, title) ==
    [type |-> "HISTORY", node |-> n, action |-> action, diff |-> diff, title |-> title,
     time |-> time]

HistoryRow(n, action, diff, title) == RowAt(written + 1, n, action, diff, title)

\* The id of a new node is new: the next one.
NewIds == LET used == {row.node : row \in log} IN {n \in NodeIds : 1..(n - 1) = used}

\* n rows, somebody else's or one's own, who waits for the answer away from the page.
WriteData(kind, mine, n) ==
    /\ written + n <= MaxWritten /\ written' = written + n
    /\ mine => ~shown.open /\ own.unsure = 0
    /\ own' = IF mine THEN [own EXCEPT !.unsure = written', !.kind = kind] ELSE own
    /\ UNCHANGED <<reading, shown, cache, openings>>

NewTitle(n) == [title |-> <<n, 0>>, was |-> <<n, 0>>]

CreateNode(mine, n) ==
    /\ WriteData("change", mine, 1)
    /\ n \in NewIds
    /\ nodes' = [m \in DOMAIN nodes \cup {n} |->
                   IF m = n THEN NewTitle(n) ELSE nodes[m]]
    /\ log' = log \cup {HistoryRow(n, "CREATE", {}, <<n, 0>>)}
    /\ UNCHANGED comments

UpdateNode(mine, n, diff) ==
    /\ WriteData("change", mine, 1)
    /\ n \in DOMAIN nodes
    /\ LET old   == nodes[n].title
           title == IF "title" \in diff THEN <<n, old[2] + 1>> ELSE old
       IN  /\ nodes' = [nodes EXCEPT ![n] = [title |-> title, was |-> old]]
           /\ log' = log \cup {HistoryRow(n, "UPDATE", diff, title)}
    /\ UNCHANGED comments

\* The title in the history is the one that was read before the transaction.
DeleteNode(mine, n) ==
    /\ WriteData("change", mine, 1)
    /\ n \in DOMAIN nodes
    /\ nodes' = [m \in DOMAIN nodes \ {n} |-> nodes[m]]
    /\ \E title \in {nodes[n].title, nodes[n].was} :
          log' = log \cup {HistoryRow(n, "DELETE", {}, title)}
    /\ comments' = {c \in comments : c.node # n}

\* All rows go, one comes: each has its row in the history.
ImportRows(mine, n) ==
    LET gone     == DOMAIN nodes
        place(m) == Cardinality({x \in gone : x <= m})
        last     == Cardinality(gone) + 1
    IN
    /\ WriteData("import", mine, last)
    /\ n \in NewIds
    /\ nodes' = [m \in {n} |-> NewTitle(n)]
    /\ log' = log \cup {RowAt(written + place(m), m, "DELETE", {}, nodes[m].title) : m \in gone}
                  \cup {RowAt(written + last, n, "CREATE", {}, <<n, 0>>)}
    /\ comments' = {}

AddComment(mine, n) ==
    /\ WriteData("comment", mine, 1)
    /\ n \in DOMAIN nodes
    /\ comments' = comments \cup
         {[type |-> "COMMENT", node |-> n, time |-> written + 1, gone |-> FALSE]}
    /\ UNCHANGED <<nodes, log>>

\* By its author, a manager, or an administrator in administrator mode; softly.
RemoveComment(mine, c) ==
    /\ WriteData("comment", mine, 1)
    /\ c \in comments /\ ~c.gone
    /\ comments' = (comments \ {c}) \cup {[c EXCEPT !.gone = TRUE]}
    /\ UNCHANGED <<nodes, log>>

\* A mistake the runs must catch: the lists are only marked as old.
KeepCache == cache

NoCache == [query \in Queries |-> Nobody]
dropProjectHistoryCache == NoCache

invalidateProject == dropProjectHistoryCache
invalidateAfterCommentChange == dropProjectHistoryCache

\* After an import the lists are only marked as old.
AfterImport == cache

Answered(kind, kept) ==
    /\ own.kind = kind /\ ~shown.open
    /\ own' = [unsure |-> 0, kind |-> "none", answered |-> own.unsure,
               changed |-> IF kind = "import" THEN own.changed ELSE own.unsure]
    /\ cache' = kept
    /\ UNCHANGED <<dataVars, shown, openings>>

\* The list that is on its way goes with the others.
ChangeAnswered ==
    /\ Answered("change", invalidateProject)
    /\ reading' = NoReading

CommentAnswered ==
    /\ Answered("comment", invalidateAfterCommentChange)
    /\ reading' = NoReading

ImportAnswered ==
    /\ Answered("import", AfterImport)
    /\ UNCHANGED reading

-------------------------------------------------------------------------------
HistoryInit ==
    /\ written = 0 /\ nodes = [n \in {} |-> Nobody] /\ log = {} /\ comments = {}
    /\ reading = NoReading /\ shown = Closed /\ cache = NoCache /\ openings = 0
    /\ own = NoWrites

HistoryNext ==
    \/ ReadHistory \/ ReadComments \/ ReadNodes \/ AnswerList
    \/ \E query \in Queries : OpenPage(query)
    \/ ClosePage \/ ListArrives \/ ListFails
    \/ ChangeAnswered \/ CommentAnswered \/ ImportAnswered
    \/ \E mine \in BOOLEAN, n \in NodeIds :
          \/ CreateNode(mine, n) \/ ImportRows(mine, n)
          \/ \E diff \in Diffs : UpdateNode(mine, n, diff)
          \/ DeleteNode(mine, n) \/ AddComment(mine, n)
    \/ \E mine \in BOOLEAN, c \in comments : RemoveComment(mine, c)

-------------------------------------------------------------------------------
(* Properties                                                              *)

\* What a list should choose from: what was there when it was asked for, and is there yet.
Wanted ==
    {row \in log : InWindow(row) /\ IsOfTopic(row, Topic) /\ row.time <= reading.asked}
    \cup {c \in comments : InWindow(c) /\ ~c.gone /\ NeedsComments(Topic)
                             /\ c.time <= reading.asked}

\* A topic is chosen from what was read of all the changes.
ReadEnough ==
    \/ Topic \in {"ALL", "COMMENTS"}
    \/ Cardinality({row \in log : InWindow(row)}) <= ReadLimit

TitlesOf(n) == {row.title : row \in {x \in log : x.node = n /\ x.action # "DELETE"}}

(***************************************************************************)
(* A list tells the newest of what happened in its time, in order, nothing *)
(* that is not of its topic, and says when it does not tell all; every     *)
(* entry bears the title its node has or had, and nothing that is there is *)
(* shown as being gone, though rows come and go between the four reads.    *)
(* Only where a topic chooses from too many changes, what it leaves out is *)
(* not told (project-history.service.ts, 48-57 and history-utils.ts, 251). *)
(***************************************************************************)
ListTellsTruth ==
    reading.step = "answered" =>
      LET items == reading.list.items
          told  == {items[i].time : i \in DOMAIN items}
      IN
      /\ Len(items) <= Limit
      /\ \A i, j \in DOMAIN items : i < j => items[i].time > items[j].time
      /\ \A i \in DOMAIN items :
            /\ InWindow(items[i])
            /\ items[i].type = "COMMENT" => NeedsComments(Topic)
            /\ Topic = "DELETED" => items[i].label = "DELETE"
            /\ Topic = "PROGRESS_DOWN" => items[i].label = "PROGRESS_DOWN"
            /\ items[i].title \in TitlesOf(items[i].node)
            /\ items[i].deleted => items[i].node \notin DOMAIN nodes
      /\ ReadEnough =>
            /\ \A w \in Wanted :
                  \/ w.time \in told
                  \/ reading.list.truncated /\ \A t \in told : w.time < t
            /\ reading.list.truncated => Len(items) = Limit

(***************************************************************************)
(* Whoever has changed something, other than by an import, and opens the   *)
(* page after the answer, never sees a list from before it, not even until *)
(* the new one is there (projectHistory.ts, 17-27; comments.ts, 8-18).     *)
(***************************************************************************)
OwnChangesShow ==
    shown.list # Nobody => shown.list.asked >= shown.before.changed

(***************************************************************************)
(* Whatever one has done oneself drops the lists (ProjectHistoryPage.tsx,  *)
(* 81).  An import does not.                                               *)
(***************************************************************************)
OwnWorkShows ==
    shown.list # Nobody => shown.list.asked >= shown.before.answered
===============================================================================
