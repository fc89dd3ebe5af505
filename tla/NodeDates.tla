------------------------------ MODULE NodeDates ------------------------------
(***************************************************************************)
(* The two dates of one item: the form that edits them (NodeDetail.tsx),   *)
(* the two steps in which the server checks and writes a change, and the   *)
(* rows an import puts in the item's place (nodes.service.ts).  NodeTree   *)
(* has the rest of these operations and leaves the dates out.              *)
(***************************************************************************)
EXTENDS Integers

CONSTANTS
    Days,           \* the days of the calendar
    Editors,        \* forms that have the item open
    MaxDateWrites,  \* bound on the writes
    NoDate, Untouched

ASSUME DatesAssumption ==
    Days \subseteq Int /\ NoDate \notin Days /\ Untouched \notin Days \cup {NoDate}

VARIABLES
    item,       \* the row; its stamp is updatedAt
    dateClock,  \* for the stamps
    editor,     \* editor -> its form and its request
    overlapped  \* the row was written last over a row that had not been checked

datesVars == <<item, dateClock, editor, overlapped>>

Dates == Days \cup {NoDate}

NoItem == [id |-> 0, stamp |-> 0, start |-> NoDate, end |-> NoDate]

NoForm == [step |-> "closed", copy |-> NoItem, start |-> NoDate, end |-> NoDate, told |-> FALSE]

IsReversed(start, end) == start # NoDate /\ end # NoDate /\ start > end

InOrder == {d \in Dates \X Dates : ~IsReversed(d[1], d[2])}

-------------------------------------------------------------------------------
(* The form                                                                *)

ShowItem(row) == [NoForm EXCEPT !.step = "form", !.copy = row, !.start = row.start, !.end = row.end]

OpenItem(e) ==
    /\ editor[e].step = "closed" /\ item # NoItem
    /\ editor' = [editor EXCEPT ![e] = ShowItem(item)]
    /\ UNCHANGED <<item, dateClock, overlapped>>

\* Another list arrives: the form begins anew when the row has another stamp.
ReloadItem(e) ==
    /\ editor[e].step = "form" /\ editor[e].copy # item
    /\ editor' = [editor EXCEPT ![e] = IF item.id = @.copy.id THEN ShowItem(item) ELSE NoForm]
    /\ UNCHANGED <<item, dateClock, overlapped>>

handleStartAtChange(e, d) ==
    /\ editor[e].step = "form"
    /\ editor' = [editor EXCEPT ![e].start = d,
                                ![e].end = IF IsReversed(d, @) THEN d ELSE @]
    /\ UNCHANGED <<item, dateClock, overlapped>>

handleEndAtChange(e, d) ==
    /\ editor[e].step = "form"
    /\ editor' = [editor EXCEPT ![e].end = d,
                                ![e].start = IF IsReversed(@, d) THEN d ELSE @]
    /\ UNCHANGED <<item, dateClock, overlapped>>

\* The title may have changed alone; dates that are the wrong way round are not sent.
SaveItem(e) ==
    /\ editor[e].step = "form" /\ ~IsReversed(editor[e].start, editor[e].end)
    /\ editor' = [editor EXCEPT ![e].step = "check",
                    ![e].start = IF @ = editor[e].copy.start THEN Untouched ELSE @,
                    ![e].end = IF @ = editor[e].copy.end THEN Untouched ELSE @]
    /\ UNCHANGED <<item, dateClock, overlapped>>

-------------------------------------------------------------------------------
(* NodesService.update                                                     *)

\* A mistake the runs must catch: the stamp is not compared.
AnyStamp(e) == TRUE

SameStamp(e) == item.stamp = editor[e].copy.stamp

NextDate(asked, current) == IF asked = Untouched THEN current ELSE asked

WouldReverse(e) ==
    IsReversed(NextDate(editor[e].start, item.start), NextDate(editor[e].end, item.end))

\* 404, 409, START_AFTER_END, or on to the write.
CheckDates(e) ==
    /\ editor[e].step = "check"
    /\ editor' = [editor EXCEPT ![e] =
          IF item.id # @.copy.id \/ ~SameStamp(e) THEN NoForm
          ELSE IF WouldReverse(e) THEN [NoForm EXCEPT !.told = TRUE]
          ELSE [@ EXCEPT !.step = "write", !.copy = item]]
    /\ UNCHANGED <<item, dateClock, overlapped>>

\* The row is found by its id alone; when it is gone by now the request fails.
WriteDates(e) ==
    /\ editor[e].step = "write" /\ dateClock < MaxDateWrites
    /\ editor' = [editor EXCEPT ![e] = NoForm]
    /\ IF item.id = editor[e].copy.id
       THEN /\ dateClock' = dateClock + 1
            /\ item' = [item EXCEPT !.stamp = dateClock',
                           !.start = NextDate(editor[e].start, @),
                           !.end = NextDate(editor[e].end, @)]
            /\ overlapped' = (item.stamp # editor[e].copy.stamp)
       ELSE UNCHANGED <<item, dateClock, overlapped>>

-------------------------------------------------------------------------------
(* Rows that come and go                                                   *)

NewItem(dates) ==
    /\ dateClock < MaxDateWrites
    /\ dateClock' = dateClock + 1
    /\ item' = [id |-> dateClock' + 1, stamp |-> dateClock', start |-> dates[1], end |-> dates[2]]
    /\ overlapped' = FALSE
    /\ UNCHANGED editor

\* NodeFormDialog.tsx has the same two handlers; CreateNodeDto refuses the wrong order.
CreateItem(start, end) ==
    item = NoItem /\ ~IsReversed(start, end) /\ NewItem(<<start, end>>)

\* A mistake the runs must catch: only what is missing is filled in.
OnlyFilled(start, end, today) ==
    CASE start = NoDate /\ end = NoDate -> <<today, today>>
      [] start = NoDate /\ end # NoDate -> <<end, end>>
      [] start # NoDate /\ end = NoDate -> <<start, start>>
      [] OTHER -> <<start, end>>

\* What is no date in the file counts as missing.
Normalised(start, end, today) ==
    IF IsReversed(start, end) THEN <<start, start>> ELSE OnlyFilled(start, end, today)

ImportItem(start, end, today) == NewItem(Normalised(start, end, today))

RemoveItem ==
    /\ item # NoItem /\ dateClock < MaxDateWrites
    /\ dateClock' = dateClock + 1
    /\ item' = NoItem
    /\ UNCHANGED <<editor, overlapped>>

-------------------------------------------------------------------------------
DatesInit ==
    /\ item \in {NoItem} \cup
          {[id |-> 1, stamp |-> 0, start |-> d[1], end |-> d[2]] : d \in InOrder}
    /\ dateClock = 0
    /\ editor = [e \in Editors |-> NoForm] /\ overlapped = FALSE

DatesNext ==
    \/ \E e \in Editors :
          \/ OpenItem(e) \/ ReloadItem(e) \/ SaveItem(e) \/ CheckDates(e) \/ WriteDates(e)
          \/ \E d \in Dates : handleStartAtChange(e, d) \/ handleEndAtChange(e, d)
    \/ \E start, end \in Dates : CreateItem(start, end)
    \/ \E start, end \in Dates, today \in Days : ImportItem(start, end, today)
    \/ RemoveItem

-------------------------------------------------------------------------------
(***************************************************************************)
(* An item never ends before it starts, whether it was created, imported   *)
(* or edited by forms that knew an older row, except where two changes of  *)
(* one row overlapped, which the next change puts right; and START_AFTER_END *)
(* is never what a user of the form is told, who could not make sense of   *)
(* it: it would be about dates that are not in the form                    *)
(* (nodes.service.ts, 173-198 and 843-868).                                *)
(***************************************************************************)
DatesStayInOrder ==
    /\ ~overlapped => ~IsReversed(item.start, item.end)
    /\ \A e \in Editors : ~editor[e].told
===============================================================================
