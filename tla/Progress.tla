------------------------------- MODULE Progress -------------------------------
(***************************************************************************)
(* What is computed from the rows of a schedule: how far an item should be *)
(* today and how late it is, what a group gets from the items below it,    *)
(* and the summary of the project (expected-progress.ts); the dates and    *)
(* the progress of groups as the server sends them (tree-aggregation.ts);  *)
(* and what the chart computes for itself while a bar is dragged           *)
(* (ganttMath.ts, ganttAggregate.ts).                                      *)
(*                                                                         *)
(* A date is a number of days, day 0 a Monday.  The rows are a forest,     *)
(* perhaps a part of one: the parent of a row need not be among them.      *)
(* Quotients are exact.                                                    *)
(***************************************************************************)
EXTENDS Integers, FiniteSets, Sequences

CONSTANTS
    MaxRows,    \* bound on the rows of the list
    Works,      \* the dates and the progress an item may have
    Todays      \* days the calculation may run on

ASSUME ProgressAssumption ==
    /\ Todays \subseteq Int
    /\ \A w \in Works :
          /\ w.start \in Nat \cup {-1} /\ w.end \in Nat \cup {-1} /\ w.progress \in 0..100
          /\ w.start # -1 /\ w.end # -1 => w.start <= w.end

None == -1      \* null

VARIABLES rows, todayIso

progressVars == <<rows, todayIso>>

EmptyGroup == [kind |-> "GROUP", parent |-> None, start |-> None, end |-> None, progress |-> 0]

Ids      == DOMAIN rows
Items    == {n \in Ids : rows[n].kind = "ITEM"}
Groups   == Ids \ Items
Children(n) == {c \in Ids : rows[c].parent = n}

\* Math.round, for numbers from 0 up.
Round(n, d) == (2 * n + d) \div (2 * d)

Sum(f) ==
    LET sum[S \in SUBSET DOMAIN f] ==
          IF S = {} THEN 0
          ELSE LET x == CHOOSE x \in S : TRUE IN f[x] + sum[S \ {x}]
    IN  sum[DOMAIN f]

Smallest(S) == IF S = {} THEN None ELSE CHOOSE x \in S : \A y \in S : x <= y
Largest(S)  == IF S = {} THEN None ELSE CHOOSE x \in S : \A y \in S : x >= y

Dates(S) == S \ {None}

-------------------------------------------------------------------------------
(* expected-progress.ts: one item                                          *)

countWorkingDays(from, to) == Cardinality({d \in from .. to - 1 : d % 7 < 5})

Elapsed(start, end) ==
    IF countWorkingDays(start, end) > 0
    THEN Round(100 * countWorkingDays(start, todayIso), countWorkingDays(start, end))
    ELSE Round(100 * (todayIso - start), end - start)

calculateExpectedProgress(start, end) ==
    CASE start = None \/ end = None -> None
      [] start # None /\ end # None /\ todayIso < start -> 0
      [] start # None /\ end # None /\ todayIso >= start /\ todayIso >= end -> 100
      [] OTHER -> Elapsed(start, end)

IsShortTerm(start, end) ==
    IF countWorkingDays(start, end) > 0 THEN countWorkingDays(start, end) <= 3
    ELSE end - start <= 3

ShortTermStatus(row) ==
    CASE row.progress >= 100 \/ todayIso < row.end -> "ON_TRACK"
      [] row.progress < 100 /\ todayIso = row.end  -> "WARNING"
      [] OTHER -> "CRITICAL"

LongTermStatus(row, gap) ==
    CASE (todayIso > row.end /\ row.progress < 100) \/ gap >= 30 -> "CRITICAL"
      [] OTHER -> IF gap >= 15 THEN "WARNING" ELSE IF gap > 0 THEN "SLIGHT" ELSE "ON_TRACK"

\* A group that is asked for by itself has nothing to be late with.
getItemNodeDelayInfo(row) ==
    LET expected == calculateExpectedProgress(row.start, row.end) IN
    IF row.kind = "GROUP"
    THEN [expected |-> row.progress, actual |-> row.progress, status |-> "ON_TRACK"]
    ELSE [expected |-> expected, actual |-> row.progress,
          status |-> IF expected = None THEN "UNKNOWN"
                     ELSE IF IsShortTerm(row.start, row.end) THEN ShortTermStatus(row)
                     ELSE LongTermStatus(row, expected - row.progress)]

-------------------------------------------------------------------------------
(* Accumulators                                                            *)

Statuses == {"CRITICAL", "WARNING", "SLIGHT", "ON_TRACK"}

emptyAccumulator ==
    [expected |-> 0, actual |-> 0, valid |-> 0, counts |-> [s \in Statuses |-> 0]]

addToAccumulator(acc, info) ==
    IF info.status = "UNKNOWN" THEN acc
    ELSE [expected |-> acc.expected + info.expected, actual |-> acc.actual + info.actual,
          valid |-> acc.valid + 1, counts |-> [acc.counts EXCEPT ![info.status] = @ + 1]]

\* The accumulators of several children, as mergeAccumulator adds them up.
merged(accs) ==
    [expected |-> Sum([c \in DOMAIN accs |-> accs[c].expected]),
     actual   |-> Sum([c \in DOMAIN accs |-> accs[c].actual]),
     valid    |-> Sum([c \in DOMAIN accs |-> accs[c].valid]),
     counts   |-> [s \in Statuses |-> Sum([c \in DOMAIN accs |-> accs[c].counts[s]])]]

\* A mistake the runs must catch: every child counts once, however many items it has.
averaged(accs) ==
    LET with == {c \in DOMAIN accs : accs[c].valid > 0} IN
    [merged(accs) EXCEPT
       !.expected = Sum([c \in with |-> Round(accs[c].expected, accs[c].valid)]),
       !.actual   = Sum([c \in with |-> Round(accs[c].actual, accs[c].valid)]),
       !.valid    = Cardinality(with)]

mergeAccumulators(accs) == merged(accs)

WorstOf(counts) ==
    CASE counts["CRITICAL"] > 0 -> "CRITICAL"
      [] counts["CRITICAL"] = 0 /\ counts["WARNING"] > 0 -> "WARNING"
      [] OTHER -> IF counts["SLIGHT"] > 0 THEN "SLIGHT" ELSE "ON_TRACK"

finishAccumulator(acc) ==
    IF acc.valid = 0 THEN [expected |-> None, actual |-> None, status |-> "UNKNOWN"]
    ELSE [expected |-> Round(acc.expected, acc.valid),
          actual   |-> Round(acc.actual, acc.valid), status |-> WorstOf(acc.counts)]

-------------------------------------------------------------------------------
(* expected-progress.ts: the rows and the project                          *)

Accumulators ==
    LET visit[n \in Ids] ==
          IF n \in Items THEN addToAccumulator(emptyAccumulator, getItemNodeDelayInfo(rows[n]))
          ELSE mergeAccumulators([c \in Children(n) |-> visit[c]])
    IN  visit

\* From the roots down, then every row that has not been reached; a row that is
\* reached twice gets the same again.
FromRoots ==
    LET reached[n \in Ids] ==
          rows[n].parent = None \/ (rows[n].parent \in Ids /\ reached[rows[n].parent])
    IN  {n \in Ids : reached[n]}

Rest == Ids \ FromRoots

calculateTreeNodesDelayInfo ==
    LET acc == Accumulators IN
    [n \in FromRoots \cup Rest |->
       IF n \in Items THEN getItemNodeDelayInfo(rows[n]) ELSE finishAccumulator(acc[n])]

\* The badge of a row: what the tree says, or else the row by itself.
getNodeDelayInfo(n, infos) ==
    IF n \in DOMAIN infos THEN infos[n] ELSE getItemNodeDelayInfo(rows[n])

\* Without an item, the groups stand in for them.
SummaryOf(all, count) ==
    LET items == {n \in DOMAIN all : all[n].kind = "ITEM"}
        asked == IF items = {} THEN DOMAIN all ELSE items
        total == mergeAccumulators([n \in asked |->
                   addToAccumulator(emptyAccumulator, getItemNodeDelayInfo(all[n]))])
    IN  [nodes |-> count, valid |-> total.valid, counts |-> total.counts,
         info |-> finishAccumulator(total)]

\* The header: all rows, as the browser has them.
calculateProjectDelaySummary == SummaryOf(rows, Cardinality(Ids))

\* The list of projects: only the items are read, and the number of rows; a project
\* without an item gets as many groups that have come nowhere.
summarizeDelay ==
    SummaryOf(IF Items # {} THEN [n \in Items |-> rows[n]]
              ELSE [n \in 1 .. Cardinality(Ids) |-> EmptyGroup], Cardinality(Ids))

-------------------------------------------------------------------------------
(* tree-aggregation.ts                                                     *)

\* A mistake the runs must catch: the rows that hang from no root stay empty.
OnlyFromRoots(n) == n \in FromRoots

IsVisited(n) == n \in FromRoots \cup Rest

Effective(all) ==
    LET visit[n \in DOMAIN all] ==
          LET below == {visit[c] : c \in {c \in DOMAIN all : all[c].parent = n}} IN
          IF all[n].kind = "ITEM" THEN [start |-> all[n].start, end |-> all[n].end]
          ELSE [start |-> Smallest(Dates({e.start : e \in below})),
                end   |-> Largest(Dates({e.end : e \in below}))]
    IN  visit

Totals ==
    LET visit[n \in Ids] ==
          IF n \in Items THEN [sum |-> rows[n].progress, count |-> 1]
          ELSE [sum   |-> Sum([c \in Children(n) |-> visit[c].sum]),
                count |-> Sum([c \in Children(n) |-> visit[c].count])]
    IN  visit

\* What the server sends of each row.
buildTreeItems ==
    LET effective == Effective(rows)
        totals    == Totals
        visited   == {n \in Ids : IsVisited(n)}
    IN  [n \in Ids |->
           [start |-> IF n \in visited THEN effective[n].start ELSE None,
            end   |-> IF n \in visited THEN effective[n].end ELSE None,
            progress |-> IF n \in Items THEN rows[n].progress
                         ELSE IF n \in visited /\ totals[n].count > 0
                              THEN Round(totals[n].sum, totals[n].count) ELSE None]]

-------------------------------------------------------------------------------
(* ganttMath.ts, ganttAggregate.ts: a bar is dragged                       *)

Later(a, b)   == IF a > b THEN a ELSE b
Earlier(a, b) == IF a < b THEN a ELSE b

\* A mistake the runs must catch: an end may be dragged past the other.
unlimited(row, edge, days) ==
    IF edge = "start" THEN [row EXCEPT !.start = @ + days] ELSE [row EXCEPT !.end = @ + days]

resizeItem(row, edge, days) ==
    IF edge = "start" THEN [row EXCEPT !.start = Earlier(@ + days, row.end)]
    ELSE [row EXCEPT !.end = Later(@ + days, row.start)]

moveItem(row, days) == [row EXCEPT !.start = @ + days, !.end = @ + days]

applyDrag(row, mode, days) ==
    CASE mode = "move"         -> moveItem(row, days)
      [] mode = "resize-start" -> resizeItem(row, "start", days)
      [] mode = "resize-end"   -> resizeItem(row, "end", days)

\* Only from the roots.
recomputeEffective(all) ==
    LET effective == Effective(all)
        reached   == FromRoots
    IN  [n \in Ids |-> IF n \in reached THEN effective[n] ELSE [start |-> None, end |-> None]]

\* The groups the confirmation of a drag lists.
diffAffectedGroups(before, after) == {n \in Groups : before[n] # after[n]}

-------------------------------------------------------------------------------
(* The rows come one by one.                                               *)

AsRow(work, kind, parent) ==
    [kind |-> kind, parent |-> parent, start |-> work.start, end |-> work.end,
     progress |-> work.progress]

AddRow ==
    /\ rows # <<>> /\ Len(rows) < MaxRows
    /\ \E parent \in Groups \cup {None} :
       \E row \in {AsRow(EmptyGroup, "GROUP", parent)} \cup {AsRow(w, "ITEM", parent) : w \in Works} :
          rows' = Append(rows, row)
    /\ UNCHANGED todayIso

\* Two groups, the first perhaps below one that is not in the list.
FirstRows ==
    /\ rows = <<>>
    /\ \E first \in {None, 0}, second \in {None, 1} :
          rows' = <<[EmptyGroup EXCEPT !.parent = first], [EmptyGroup EXCEPT !.parent = second]>>
    /\ UNCHANGED todayIso

ProgressInit == rows = <<>> /\ todayIso \in Todays
ProgressNext == FirstRows \/ AddRow

ProgressSpec == ProgressInit /\ [][ProgressNext]_progressVars

-------------------------------------------------------------------------------
(* Properties                                                              *)

ItemsBelow(n) ==
    LET isBelow[m \in Ids] ==
          rows[m].parent = n \/ (rows[m].parent \in Ids /\ isBelow[rows[m].parent])
    IN  {m \in Items : isBelow[m]}

\* One number for many, each counting once.
Average(S, number(_)) ==
    IF S = {} THEN None ELSE Round(Sum([n \in S |-> number(n)]), Cardinality(S))

Worst(S) ==
    LET has(s) == \E n \in S : getItemNodeDelayInfo(rows[n]).status = s IN
    CASE S = {} -> "UNKNOWN"
      [] S # {} /\ has("CRITICAL") -> "CRITICAL"
      [] OTHER -> IF has("WARNING") THEN "WARNING"
                  ELSE IF has("SLIGHT") THEN "SLIGHT" ELSE "ON_TRACK"

Judged(S) == {n \in S : rows[n].start # None /\ rows[n].end # None}

InfoOf(S) ==
    [expected |-> Average(S, LAMBDA n : getItemNodeDelayInfo(rows[n]).expected),
     actual   |-> Average(S, LAMBDA n : rows[n].progress),
     status   |-> Worst(S)]

(***************************************************************************)
(* Everybody is told the same of a schedule.  Every row has its figures,   *)
(* also one whose group is not in the list; a group's are those of the     *)
(* items below it, each counting once however deep it is: the badge of     *)
(* the items that can be judged, the dates and the progress of all; the    *)
(* list of projects and the header of the project agree; and the dates the *)
(* chart computes for groups are those the server sends, so what a drag    *)
(* announces is what the groups will get, and an item never ends before    *)
(* it starts (expected-progress.ts, 235-247; projects.service.ts, 598-605; *)
(* ganttAggregate.ts, 4).                                                  *)
(***************************************************************************)
FiguresAgree ==
    LET infos  == calculateTreeNodesDelayInfo
        sent   == buildTreeItems
        before == recomputeEffective(rows)
        rooted == Groups \cap FromRoots
        total  == calculateProjectDelaySummary
    IN
    /\ \A n \in Groups :
          LET below == ItemsBelow(n) IN
          /\ getNodeDelayInfo(n, infos) = InfoOf(Judged(below))
          /\ sent[n] = [start |-> Smallest(Dates({rows[m].start : m \in below})),
                        end   |-> Largest(Dates({rows[m].end : m \in below})),
                        progress |-> Average(below, LAMBDA m : rows[m].progress)]
    /\ summarizeDelay = total
    /\ Items # {} => total.info = InfoOf(Judged(Items))
    /\ \A n \in rooted : before[n] = [start |-> sent[n].start, end |-> sent[n].end]
    /\ \A n \in Judged(Items),
          drag \in {<<"move", 6>>, <<"resize-start", 6>>, <<"resize-end", -2>>} :
          LET dragged == applyDrag(rows[n], drag[1], drag[2])
              changed == [rows EXCEPT ![n] = dragged]
              saved   == Effective(changed)
          IN  /\ dragged.start <= dragged.end
              /\ diffAffectedGroups(before, recomputeEffective(changed))
                    = {g \in rooted : saved[g] # [start |-> sent[g].start, end |-> sent[g].end]}
===============================================================================
