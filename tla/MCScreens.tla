------------------------------- MODULE MCScreens -------------------------------
(***************************************************************************)
(* The screens in one run, each on its own: they share no state, so part   *)
(* says which of them a behaviour is about.                                *)
(***************************************************************************)
EXTENDS Outline, BulkEdit, GroupSync, Drafts, UserImport, Chart, NodeDates

VARIABLE part

screenVars == <<outlineVars, bulkVars, syncVars, draftVars, importVars, chartVars, datesVars, part>>

\* From rows <<depth, is a group>> in preorder to a list.
FromRows(rows) ==
    LET parent(i) == IF rows[i][1] = 0 THEN NULL
                     ELSE Max({j \in 1..(i - 1) : rows[j][1] = rows[i][1] - 1})
    IN  [i \in DOMAIN rows |->
            [parent |-> parent(i), depth |-> rows[i][1], group |-> rows[i][2],
             order |-> 1 + Cardinality({j \in 1..(i - 1) : parent(j) = parent(i)})]]

MCForest == FromRows(<<<<0, TRUE>>, <<1, TRUE>>, <<2, FALSE>>, <<0, FALSE>>>>)

MCStartTrees == {FromRows(<<<<0, FALSE>>, <<0, TRUE>>, <<1, TRUE>>, <<1, FALSE>>>>)}

\* A group within another, and one beside them.
MCWithin == [g \in {"team", "part of team", "others"} |->
                IF g = "team" THEN {g, "part of team"} ELSE {g}]

MCBelongs == [u \in People |-> CASE u = 1 -> "team" [] u = 2 -> "part of team" [] OTHER -> NoGroup]

\* Both projects have people of the team; the first one is led by one of them.
MCRoles == [k \in Pairs |-> CASE k = <<1, 1>> \/ k = <<2, 3>> -> "MANAGER"
                              [] k = <<1, 3>> \/ k = <<2, 2>> -> "MEMBER"
                              [] OTHER -> "NONE"]

TextLine(w, kind, name) == [width |-> w, kind |-> kind, name |-> name]

\* Every line of a group or a user, those that are refused, and a strange space.
MCTextLines ==
    {TextLine(w, k[1], k[2]) : w \in 0..2,
        k \in {<<"group", "a">>, <<"group", "b">>, <<"user", "u">>, <<"user", "v">>}}
    \cup {TextLine(1, "badUser", "u"), TextLine(1, "longName", "a"), TextLine(NoWidth, "group", "a")}

\* Two drawings of the same groups and people, and one with an issue.
MCFiles ==
    {<<TextLine(0, "group", "a"), TextLine(1, "group", "b"), TextLine(2, "user", "u"),
       TextLine(1, "user", "v")>>,
     <<TextLine(0, "group", "a"), TextLine(1, "user", "u"), TextLine(1, "group", "b"),
       TextLine(2, "user", "v")>>,
     <<TextLine(0, "user", "u"), TextLine(1, "user", "v")>>}

MCOrgRows == [g \in {1} |-> [name |-> "a", parent |-> TopLevel]]

\* A group with a group in it, and an item at the top.
MCParentRow == [r \in ChartRows |-> CASE r = 2 -> 1 [] r = 3 -> 2 [] OTHER -> 0]

\* As in ganttLayout.ts.
MCPPD == [u \in {"day", "week", "month", "quarter"} |->
            CASE u = "day" -> 36 [] u = "week" -> 10 [] u = "month" -> 4 [] OTHER -> 2]

Init ==
    /\ part \in {"outline", "bulk", "sync", "drafts", "import", "text", "chart", "dates"}
    /\ OutlineInit
    /\ BulkInit /\ (part # "bulk" => complete = {})
    /\ SyncInit(MCBelongs, MCRoles)
    /\ DraftsInit([f \in Fields |-> 0])
    /\ ImportInit(MCOrgRows)
    /\ ChartInit
    /\ DatesInit /\ (item = NoItem \/ (part = "dates" /\ item.start = 1 /\ item.end = 1))
    /\ part # "chart" => chart.items = Nowhere /\ ~chart.project /\ page.wanted = Nowhere

Next ==
    \/ part = "outline" /\ OutlineNext
       /\ UNCHANGED <<bulkVars, syncVars, draftVars, importVars, chartVars, datesVars, part>>
    \/ part = "bulk" /\ BulkNext
       /\ UNCHANGED <<outlineVars, syncVars, draftVars, importVars, chartVars, datesVars, part>>
    \/ part = "sync" /\ SyncNext
       /\ UNCHANGED <<outlineVars, bulkVars, draftVars, importVars, chartVars, datesVars, part>>
    \/ part = "drafts" /\ DraftsNext
       /\ UNCHANGED <<outlineVars, bulkVars, syncVars, importVars, chartVars, datesVars, part>>
    \/ part = "import" /\ ImportNext
       /\ UNCHANGED <<outlineVars, bulkVars, syncVars, draftVars, chartVars, datesVars, part>>
    \/ part = "text" /\ (\E line \in TextLines : TypeLine(line))
       /\ UNCHANGED <<outlineVars, bulkVars, syncVars, draftVars, chartVars, datesVars, part>>
    \/ part = "chart" /\ ChartNext
       /\ UNCHANGED <<outlineVars, bulkVars, syncVars, draftVars, importVars, datesVars, part>>
    \/ part = "dates" /\ DatesNext
       /\ UNCHANGED <<outlineVars, bulkVars, syncVars, draftVars, importVars, chartVars, part>>

Spec == Init /\ [][Next]_screenVars

===============================================================================
