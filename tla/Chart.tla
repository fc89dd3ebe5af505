-------------------------------- MODULE Chart --------------------------------
(***************************************************************************)
(* What the chart of a project shows: which rows are folded, how far it is *)
(* zoomed and where it is scrolled to (Timeline.tsx, ganttZoom.ts), and    *)
(* the row that another page has asked for (ProjectDetailPage.tsx).        *)
(*                                                                         *)
(* Handlers put what they want into next.  A commit makes it the chart     *)
(* that is drawn and runs the layout effects; the other effects run after  *)
(* it, before the next one.  A position is known by what it was computed   *)
(* from, scale included, not by its pixels; the width of the window, the   *)
(* dates and smooth scrolling are left out.                                *)
(***************************************************************************)
EXTENDS Integers, FiniteSets

CONSTANTS
    ChartRows,      \* 1, 2, ...: the nodes of the project, parents first
    ParentRow,      \* row -> its parent, 0 for none
    PPD,            \* unit -> pixels per day
    MinPpd, MaxPpd,
    Scales,         \* what the slider and the fit may come to
    MaxActs,        \* bound on what the user does
    MaxFetches,     \* bound on the lists that arrive
    Nowhere         \* no row, no position, no list yet

ASSUME ChartAssumption ==
    /\ \A r \in ChartRows : ParentRow[r] < r
    /\ MinPpd \in Int /\ MaxPpd \in Int /\ 0 < MinPpd /\ MinPpd < MaxPpd
    /\ PPD["week"] \in Int /\ Scales \subseteq Int
    /\ Nowhere \notin ChartRows
    /\ Nowhere \notin [what : {"fit", "centre"}, row : {Nowhere}, ppd : Int]

VARIABLES
    chart,      \* as it was drawn last, from the two answers of the server on
    view,       \* what is to come: next, and the refs: the scroll position that
                \* waits for a scale, the row to reveal, the unit told last
    effects,    \* effects are still to be run
    page,       \* the row the address asks for, and what became of it
    acts, fetches,
    chosen,     \* the scale that was wanted last
    revealed    \* the row that was revealed, while nobody has moved since

chartVars == <<chart, view, effects, page, acts, fetches, chosen, revealed>>

-------------------------------------------------------------------------------
(* ganttZoom.ts                                                            *)

clampPpd(ppd) == IF ppd < MinPpd THEN MinPpd ELSE IF ppd > MaxPpd THEN MaxPpd ELSE ppd

\* A step is a tenth in the code.
zoomPpd(ppd, zoomIn) == clampPpd(IF zoomIn THEN ppd * 2 ELSE ppd \div 2)

activeUnit(ppd) ==
    CASE ppd >= 24 -> "day"
      [] ppd >= 6 /\ ppd < 24 -> "week"
      [] ppd >= 3 /\ ppd < 6 -> "month"
      [] OTHER -> "quarter"

ASSUME UnitAssumption == activeUnit(PPD["week"]) = "week"

-------------------------------------------------------------------------------
(* Rows                                                                    *)

ChainOf(r) ==
    LET chain[s \in ChartRows \cup {0}] == IF s = 0 THEN {} ELSE {s} \cup chain[ParentRow[s]]
    IN  chain[ParentRow[r]]

flattenRows(items, collapsed) == {r \in items : ChainOf(r) \cap collapsed = {}}

ItemsOf(c) == IF c.items = Nowhere THEN {} ELSE c.items

DrawnRows == flattenRows(ItemsOf(chart), chart.collapsed)

\* Before both answers are there the page shows that it is loading, without a chart.
HasChart == chart.items # Nowhere /\ chart.project

\* What the server may send: no row without its parent.
Lists == {items \in SUBSET ChartRows : \A r \in items : ChainOf(r) \subseteq items}

-------------------------------------------------------------------------------
(* Scale and position                                                      *)

Position(what, row, ppd) == [what |-> what, row |-> row, ppd |-> ppd]

\* The position is to be applied with the scale, not before it.
ScaleTo(v, ppd, position) == [v EXCEPT !.next.ppd = ppd, !.left = position]

fitToScreen(v, ppd) ==
    IF ppd = chart.ppd THEN [v EXCEPT !.scroll = Position("fit", Nowhere, ppd)]
    ELSE ScaleTo(v, ppd, Position("fit", Nowhere, ppd))

applyPpd(v, nextPpd) ==
    LET ppd == clampPpd(nextPpd)
    IN  IF ppd = chart.ppd THEN v ELSE ScaleTo(v, ppd, Position("centre", Nowhere, ppd))

revealNode(v, r) ==
    LET opened == [v.next EXCEPT !.collapsed = v.next.collapsed \ ChainOf(r),
                                 !.tick = 1 - chart.tick]
    IN  [v EXCEPT !.next = opened, !.reveal = r]

-------------------------------------------------------------------------------
(* A commit                                                                *)

\* When the scale has changed.
ApplyScroll(v) ==
    IF v.left = Nowhere \/ v.next.ppd = chart.ppd THEN v
    ELSE [v EXCEPT !.scroll = v.left, !.left = Nowhere]

MayReveal(v) ==
    /\ v.reveal # Nowhere /\ v.next.hasFit
    /\ v.reveal \in flattenRows(ItemsOf(v.next), v.next.collapsed)

Reveal(v) ==
    IF MayReveal(v)
    THEN [v EXCEPT !.scroll = Position("row", v.reveal, v.next.ppd), !.reveal = Nowhere]
    ELSE v

\* A mistake the runs must catch (the code had it once): the fit has the last word.
FitIsLast(v) == ApplyScroll(Reveal(v))

LayoutEffects(v) == Reveal(ApplyScroll(v))

Commit ==
    /\ ~effects /\ view.next # chart
    /\ chart' = view.next
    /\ view' = LayoutEffects(view)
    /\ revealed' = IF MayReveal(view) THEN view.reveal ELSE revealed
    /\ page' = IF MayReveal(view) THEN [page EXCEPT !.answer = "shown"] ELSE page
    /\ effects' = TRUE
    /\ UNCHANGED <<acts, fetches, chosen>>

-------------------------------------------------------------------------------
(* The other effects, in their order                                       *)

\* The unit of the page has changed, and not because the chart has told so.
FollowUnit(v) ==
    IF chart.unit = v.unit THEN v
    ELSE [v EXCEPT !.next.ppd = PPD[chart.unit], !.unit = chart.unit]

\* A mistake the runs must catch: the chart forgets that it was the one who told.
TellAndForget(v) ==
    IF activeUnit(chart.ppd) = v.unit THEN v
    ELSE [v EXCEPT !.next.unit = activeUnit(chart.ppd)]

TellUnit(v) ==
    IF activeUnit(chart.ppd) = v.unit THEN v
    ELSE [v EXCEPT !.next.unit = activeUnit(chart.ppd), !.unit = activeUnit(chart.ppd)]

SyncUnit(v) == TellUnit(FollowUnit(v))

FitOnLoad(v, ppd) ==
    IF ItemsOf(chart) = {} \/ chart.hasFit THEN v
    ELSE [fitToScreen(v, ppd) EXCEPT !.next.hasFit = TRUE]

\* A mistake the runs must catch: the list alone is waited for.
HasList == chart.items # Nowhere

IsThere == HasChart

TakeWanted(v) ==
    IF page.wanted # Nowhere /\ HasChart /\ page.wanted \in chart.items
    THEN revealNode(v, page.wanted) ELSE v

AfterWanted ==
    IF page.wanted = Nowhere \/ ~IsThere THEN page
    ELSE [wanted |-> Nowhere,
          answer |-> IF HasChart /\ page.wanted \notin chart.items THEN "told" ELSE page.answer]

RunEffects(ppd) ==
    /\ effects
    /\ view' = TakeWanted(IF HasChart THEN FitOnLoad(SyncUnit(view), ppd) ELSE view)
    /\ page' = AfterWanted
    /\ chosen' = IF HasChart /\ ItemsOf(chart) # {} /\ ~chart.hasFit
                 THEN fitToScreen(view, ppd).next.ppd ELSE chosen
    /\ effects' = FALSE
    /\ UNCHANGED <<chart, acts, fetches, revealed>>

-------------------------------------------------------------------------------
(* What the user does, and the lists that arrive                           *)

Act(v) ==
    /\ HasChart /\ acts < MaxActs
    /\ acts' = acts + 1
    /\ view' = v
    /\ chosen' = v.next.ppd
    /\ revealed' = Nowhere
    /\ UNCHANGED <<chart, effects, page, fetches>>

handleZoom(zoomIn)      == Act(applyPpd(view, zoomPpd(chart.ppd, zoomIn)))
setZoomPercent(ppd)     == Act(applyPpd(view, ppd))
Fit(ppd)                == ItemsOf(chart) # {} /\ Act(fitToScreen(view, ppd))
ScrollByHand            == Act([view EXCEPT !.scroll = Position("hand", Nowhere, chart.ppd)])
scrollToToday           == Act([view EXCEPT !.scroll = Position("today", Nowhere, chart.ppd)])
toggleCollapse(r)       == Act([view EXCEPT !.next.collapsed = IF r \in @ THEN @ \ {r} ELSE @ \cup {r}])
collapseAll             == Act([view EXCEPT !.next.collapsed = {ParentRow[r] : r \in chart.items} \ {0}])
expandAll               == Act([view EXCEPT !.next.collapsed = {}])

ListComes(items) ==
    /\ fetches < MaxFetches
    /\ fetches' = fetches + 1
    /\ view' = [view EXCEPT !.next.items = items]
    /\ revealed' = Nowhere
    /\ UNCHANGED <<chart, effects, page, acts, chosen>>

ProjectComes ==
    /\ ~view.next.project
    /\ view' = [view EXCEPT !.next.project = TRUE]
    /\ UNCHANGED <<chart, effects, page, acts, fetches, chosen, revealed>>

-------------------------------------------------------------------------------
\* The lists may be known from an earlier page.
ChartInit ==
    /\ chart \in [items : {Nowhere} \cup Lists, project : BOOLEAN, collapsed : {{}},
                  ppd : {PPD["week"]}, unit : {"week"}, hasFit : {FALSE}, tick : {0}]
    /\ view = [next |-> chart, left |-> Nowhere, reveal |-> Nowhere, unit |-> "week",
               scroll |-> Position("start", Nowhere, PPD["week"])]
    /\ effects = TRUE
    /\ page \in {[wanted |-> Nowhere, answer |-> "none"]}
                \cup [wanted : ChartRows, answer : {"due"}]
    /\ acts = 0 /\ fetches = 0 /\ chosen = PPD["week"] /\ revealed = Nowhere

ChartNext ==
    \/ Commit
    \/ \E ppd \in Scales : RunEffects(ppd) \/ setZoomPercent(ppd) \/ Fit(ppd)
    \/ \E zoomIn \in BOOLEAN : handleZoom(zoomIn)
    \/ ProjectComes \/ ScrollByHand \/ scrollToToday \/ collapseAll \/ expandAll
    \/ \E r \in ItemsOf(chart) : toggleCollapse(r)
    \/ \E items \in Lists : ListComes(items)

-------------------------------------------------------------------------------
(* Properties                                                              *)

\* Nothing is to be drawn, no effect is to be run.
Settled == HasChart /\ ~effects /\ view.next = chart

(***************************************************************************)
(* A row that another page has asked for stays where it was brought to, in *)
(* the middle, in a scale that is the one of the chart, until the user     *)
(* moves or another list comes: neither the first fit, which comes with    *)
(* it, nor a fold hides it (Timeline.tsx, 914-942).                        *)
(***************************************************************************)
RevealedIsShown ==
    revealed # Nowhere /\ ~effects =>
        revealed \in DrawnRows /\ view.scroll = Position("row", revealed, chart.ppd)

(***************************************************************************)
(* The chart and its page tell each other the unit, but the scale is only  *)
(* what the user or the fit wanted last; it comes with the position that   *)
(* was computed for it (Timeline.tsx, 386-421 and 789-871).                *)
(***************************************************************************)
ScaleIsAsChosen ==
    Settled => /\ chart.ppd = chosen
               /\ chart.unit = activeUnit(chart.ppd) /\ view.unit = chart.unit
               /\ view.left = Nowhere /\ view.scroll.ppd = chart.ppd

(***************************************************************************)
(* A row that was asked for is shown or the user is told that it is not    *)
(* there, whatever comes first, the list or the chart; only one that was   *)
(* hidden or removed in the same moment is waited for                      *)
(* (ProjectDetailPage.tsx, 95-117).                                        *)
(***************************************************************************)
WantedIsAnswered ==
    Settled /\ page.answer = "due" => view.reveal # Nowhere /\ view.reveal \notin DrawnRows

(***************************************************************************)
(* The chart shows the row that was asked for or says that it is not there,*)
(* and keeps the scale the user or the fit wanted last (RevealedIsShown,   *)
(* WantedIsAnswered and ScaleIsAsChosen; Timeline.tsx, 386-421 and         *)
(* 914-942).                                                               *)
(***************************************************************************)
ChartIsAsAsked == RevealedIsShown /\ WantedIsAnswered /\ ScaleIsAsChosen
===============================================================================
