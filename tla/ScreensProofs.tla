----------------------------- MODULE ScreensProofs -----------------------------
(***************************************************************************)
(* Proofs about what the screens do with the answers of the server:        *)
(* NodeDates, Drafts, GroupSync, Chart and the loops of BulkEdit over      *)
(* several rows, and what UserImport reads of a text, for all values of    *)
(* their constants.                                                        *)
(* One part for each, with a specification of its own: they share no state.*)
(***************************************************************************)
EXTENDS NodeDates, Drafts, GroupSync, Chart, BulkEdit, UserImport, FiniteSetTheorems,
        WellFoundedInduction, TLAPS

DatesSpec == DatesInit /\ [][DatesNext]_datesVars

-------------------------------------------------------------------------------
(* The dates of an item                                                    *)

Rows == [id : Nat, stamp : Nat, start : Dates, end : Dates]

Forms == [step : {"closed", "form", "check", "write"}, copy : Rows,
          start : Dates \cup {Untouched}, end : Dates \cup {Untouched}, told : BOOLEAN]

DatesTyped ==
    /\ item \in Rows /\ dateClock \in Nat
    /\ editor \in [Editors -> Forms]
    /\ overlapped \in BOOLEAN

\* A row that was read is older than the clock, and the one with the stamp of
\* the item is the item.
IsKnown(entry) ==
    /\ entry.stamp <= dateClock
    /\ entry.id = 0 => entry = NoItem
    /\ entry.id = item.id /\ entry.stamp = item.stamp => entry = item

\* What is sent is in order if it meets the row that it was typed over.
Fits(f) == ~IsReversed(NextDate(f.start, f.copy.start), NextDate(f.end, f.copy.end))

FormIsRight(f) ==
    /\ IsKnown(f.copy)
    /\ f.step # "closed" => f.copy.id # 0
    /\ f.step = "form" => f.start \in Dates /\ f.end \in Dates
    /\ f.step \in {"check", "write"} => Fits(f)
    /\ ~f.told

DatesInv ==
    /\ DatesTyped
    /\ IsKnown(item)
    /\ ~overlapped => ~IsReversed(item.start, item.end)
    /\ \A e \in Editors : FormIsRight(editor[e])

LEMMA FormsWellFormed ==
    /\ NoItem \in Rows /\ NoForm \in Forms
    /\ \A entry \in Rows : ShowItem(entry) \in Forms
BY DEF NoItem, NoForm, ShowItem, Rows, Forms, Dates

LEMMA DatesBegin == DatesInit => DatesInv
<1> SUFFICES ASSUME DatesInit PROVE DatesInv
  OBVIOUS
<1>1. item \in Rows /\ item.stamp = 0 /\ (item.id = 0 => item = NoItem)
      /\ ~IsReversed(item.start, item.end)
  <2>1. CASE item = NoItem
    BY <2>1 DEF NoItem, Rows, Dates, IsReversed
  <2>2. CASE \E d \in InOrder : item = [id |-> 1, stamp |-> 0, start |-> d[1], end |-> d[2]]
    BY <2>2 DEF InOrder, Rows
  <2> QED
    BY <2>1, <2>2 DEF DatesInit
<1>2. IsKnown(item) /\ IsKnown(NoItem)
  BY <1>1 DEF IsKnown, DatesInit, NoItem
<1>3. \A e \in Editors : editor[e] = NoForm
  BY DEF DatesInit
<1>4. FormIsRight(NoForm)
  BY <1>2 DEF FormIsRight, NoForm
<1> QED
  BY <1>1, <1>2, <1>3, <1>4, FormsWellFormed DEF DatesInv, DatesTyped, DatesInit

\* A step of a form that leaves the row alone.
LEMMA FormMoves ==
    ASSUME DatesInv, NEW e \in Editors, NEW f \in Forms, FormIsRight(f),
           editor' = [editor EXCEPT ![e] = f], UNCHANGED <<item, dateClock, overlapped>>
    PROVE  DatesInv'
<1>1. DatesTyped'
  BY DEF DatesInv, DatesTyped
<1>2. ASSUME NEW d \in Editors PROVE FormIsRight(editor[d])'
  <2>1. editor'[d] = IF d = e THEN f ELSE editor[d]
    BY DEF DatesInv, DatesTyped
  <2>2. FormIsRight(editor'[d])
    BY <2>1 DEF DatesInv
  <2> QED
    BY <2>2 DEF FormIsRight, IsKnown
<1> QED
  BY <1>1, <1>2 DEF DatesInv, IsKnown

\* A row that is written has a stamp that nobody has seen.
LEMMA RowMoves ==
    ASSUME DatesInv, NEW entry \in Rows, item' = entry, dateClock' = dateClock + 1,
           entry = NoItem \/ (entry.stamp = dateClock' /\ entry.id # 0),
           overlapped' \in BOOLEAN, ~overlapped' => ~IsReversed(entry.start, entry.end),
           \/ UNCHANGED editor
           \/ \E e \in Editors : editor' = [editor EXCEPT ![e] = NoForm]
    PROVE  DatesInv'
<1>1. DatesTyped'
  BY FormsWellFormed DEF DatesInv, DatesTyped
<1>2. dateClock \in Nat /\ NoItem.id = 0 /\ NoItem.stamp = 0
  BY DEF DatesInv, DatesTyped, NoItem
<1>3. IsKnown(item)'
  BY <1>2 DEF IsKnown
<1>4. ASSUME NEW r \in Rows, IsKnown(r) PROVE IsKnown(r)'
  BY <1>2, <1>4 DEF IsKnown, Rows
<1>5. ASSUME NEW d \in Editors PROVE FormIsRight(editor[d])'
  <2>1. editor'[d] = editor[d] \/ editor'[d] = NoForm
    BY DEF DatesInv, DatesTyped
  <2>2. CASE editor'[d] = editor[d]
    <3>1. FormIsRight(editor[d]) /\ editor[d].copy \in Rows
      BY DEF DatesInv, DatesTyped, Forms
    <3>2. (editor[d].copy)' = editor[d].copy
      BY <2>2
    <3> QED
      BY <1>4, <2>2, <3>1, <3>2 DEF FormIsRight
  <2>3. CASE editor'[d] = NoForm
    <3>1. IsKnown(NoItem)'
      BY <1>2 DEF IsKnown
    <3> QED
      BY <2>3, <3>1 DEF FormIsRight, NoForm
  <2> QED
    BY <2>1, <2>2, <2>3
<1> QED
  BY <1>1, <1>3, <1>5 DEF DatesInv

\* What the fields of a form make of the row they are sent for.
LEMMA SavedFits ==
    ASSUME DatesInv, NEW e \in Editors, editor[e].step = "form",
           ~IsReversed(editor[e].start, editor[e].end),
           NEW f \in Forms, f.copy = editor[e].copy,
           f.start = IF editor[e].start = editor[e].copy.start
                     THEN Untouched ELSE editor[e].start,
           f.end = IF editor[e].end = editor[e].copy.end THEN Untouched ELSE editor[e].end
    PROVE  Fits(f)
<1>1. editor[e].start \in Dates /\ editor[e].end \in Dates
  BY DEF DatesInv, FormIsRight
<1>2. editor[e].start # Untouched /\ editor[e].end # Untouched
  BY <1>1, DatesAssumption DEF Dates
<1>3. /\ NextDate(f.start, f.copy.start) = editor[e].start
      /\ NextDate(f.end, f.copy.end) = editor[e].end
  BY <1>2 DEF NextDate
<1> QED
  BY <1>3 DEF Fits

LEMMA FormsKeep ==
    ASSUME DatesInv, NEW e \in Editors,
           \/ OpenItem(e) \/ ReloadItem(e) \/ SaveItem(e) \/ CheckDates(e)
           \/ \E d \in Dates : handleStartAtChange(e, d) \/ handleEndAtChange(e, d)
    PROVE  DatesInv'
<1>1. /\ item \in Rows /\ editor \in [Editors -> Forms] /\ editor[e] \in Forms
      /\ IsKnown(item) /\ FormIsRight(editor[e])
  BY DEF DatesInv, DatesTyped
<1>2. UNCHANGED <<item, dateClock, overlapped>>
  BY DEF OpenItem, ReloadItem, SaveItem, CheckDates, handleStartAtChange, handleEndAtChange
<1>3. ASSUME item.id # 0 PROVE FormIsRight(ShowItem(item))
  <2>1. /\ ShowItem(item).copy = item /\ ShowItem(item).step = "form"
        /\ ShowItem(item).start = item.start /\ ShowItem(item).end = item.end
        /\ ShowItem(item).told = FALSE
    BY DEF ShowItem, NoForm
  <2> QED
    BY <1>1, <1>3, <2>1 DEF FormIsRight, Rows
<1>4. FormIsRight(NoForm)
  <2>1. /\ NoForm.copy = NoItem /\ NoForm.step = "closed" /\ NoForm.told = FALSE
    BY DEF NoForm
  <2>2. IsKnown(NoItem)
    BY <1>1 DEF IsKnown, NoItem, DatesInv, DatesTyped
  <2> QED
    BY <2>1, <2>2 DEF FormIsRight
<1>5. CASE OpenItem(e) \/ ReloadItem(e)
  <2>1. PICK f : /\ editor' = [editor EXCEPT ![e] = f]
                 /\ f = NoForm \/ (f = ShowItem(item) /\ item.id # 0)
    <3>1. CASE OpenItem(e)
      <4>1. item.id # 0
        BY <1>1, <3>1 DEF OpenItem, IsKnown
      <4> QED
        BY <3>1, <4>1 DEF OpenItem
    <3>2. CASE ReloadItem(e)
      <4>1. editor[e].copy.id # 0
        BY <1>1, <3>2 DEF ReloadItem, FormIsRight
      <4>2. editor' = [editor EXCEPT ![e] = IF item.id = editor[e].copy.id THEN ShowItem(item) ELSE NoForm]
        BY <3>2 DEF ReloadItem
      <4> QED
        BY <4>1, <4>2
    <3> QED
      BY <1>5, <3>1, <3>2
  <2>2. f \in Forms /\ FormIsRight(f)
    BY <1>1, <1>3, <1>4, <2>1, FormsWellFormed
  <2> QED
    BY <1>2, <2>1, <2>2, FormMoves
<1>6. ASSUME NEW d \in Dates, handleStartAtChange(e, d) \/ handleEndAtChange(e, d)
      PROVE  DatesInv'
  <2>1. PICK f : /\ editor' = [editor EXCEPT ![e] = f]
                 /\ \/ f = [editor[e] EXCEPT !.start = d,
                              !.end = IF IsReversed(d, editor[e].end) THEN d ELSE editor[e].end]
                    \/ f = [editor[e] EXCEPT !.end = d,
                              !.start = IF IsReversed(editor[e].start, d) THEN d ELSE editor[e].start]
    <3>1. CASE handleStartAtChange(e, d)
      <4> DEFINE g == [editor[e] EXCEPT !.start = d,
                          !.end = IF IsReversed(d, editor[e].end) THEN d ELSE editor[e].end]
      <4>1. editor' = [editor EXCEPT ![e] = g]
        BY <1>1, <3>1 DEF handleStartAtChange, Forms
      <4> QED
        BY <4>1
    <3>2. CASE handleEndAtChange(e, d)
      <4> DEFINE g == [editor[e] EXCEPT !.end = d,
                          !.start = IF IsReversed(editor[e].start, d) THEN d ELSE editor[e].start]
      <4>1. editor' = [editor EXCEPT ![e] = g]
        BY <1>1, <3>2 DEF handleEndAtChange, Forms
      <4> QED
        BY <4>1
    <3> QED
      BY <1>6, <3>1, <3>2
  <2>2. editor[e].step = "form" /\ editor[e].start \in Dates /\ editor[e].end \in Dates
    BY <1>1, <1>6 DEF FormIsRight, handleStartAtChange, handleEndAtChange
  <2>3. f \in Forms /\ f.step = "form" /\ f.copy = editor[e].copy /\ f.told = editor[e].told
        /\ f.start \in Dates /\ f.end \in Dates
    BY <1>1, <2>1, <2>2 DEF Forms
  <2>4. FormIsRight(f)
    BY <1>1, <2>2, <2>3 DEF FormIsRight
  <2> QED
    BY <1>2, <2>1, <2>3, <2>4, FormMoves
<1>7. CASE SaveItem(e)
  <2>1. PICK f : /\ editor' = [editor EXCEPT ![e] = f]
                 /\ f = [editor[e] EXCEPT !.step = "check",
                           !.start = IF editor[e].start = editor[e].copy.start
                                     THEN Untouched ELSE editor[e].start,
                           !.end = IF editor[e].end = editor[e].copy.end
                                   THEN Untouched ELSE editor[e].end]
    BY <1>1, <1>7 DEF SaveItem
  <2>2. /\ f \in Forms /\ f.step = "check" /\ f.copy = editor[e].copy /\ f.told = editor[e].told
        /\ f.start = IF editor[e].start = editor[e].copy.start
                     THEN Untouched ELSE editor[e].start
        /\ f.end = IF editor[e].end = editor[e].copy.end THEN Untouched ELSE editor[e].end
    BY <1>1, <2>1 DEF Forms
  <2>3. Fits(f)
    BY <1>7, <2>2, SavedFits DEF SaveItem
  <2>4. FormIsRight(f)
    BY <1>1, <1>7, <2>2, <2>3 DEF FormIsRight, SaveItem
  <2> QED
    BY <1>2, <2>1, <2>2, <2>4, FormMoves
<1>8. CASE CheckDates(e)
  <2> DEFINE f == IF item.id # editor[e].copy.id \/ ~SameStamp(e) THEN NoForm
                  ELSE IF WouldReverse(e) THEN [NoForm EXCEPT !.told = TRUE]
                  ELSE [editor[e] EXCEPT !.step = "write", !.copy = item]
  <2>1. editor' = [editor EXCEPT ![e] = f] /\ editor[e].step = "check"
    BY <1>1, <1>8 DEF CheckDates
  <2>2. CASE item.id # editor[e].copy.id \/ ~SameStamp(e)
    BY <1>2, <1>4, <2>1, <2>2, FormsWellFormed, FormMoves
  <2>3. CASE item.id = editor[e].copy.id /\ SameStamp(e)
    <3>1. item = editor[e].copy /\ Fits(editor[e])
      BY <1>1, <2>1, <2>3 DEF FormIsRight, IsKnown, SameStamp
    <3>2. ~WouldReverse(e)
      BY <3>1 DEF Fits, WouldReverse
    <3>3. f = [editor[e] EXCEPT !.step = "write", !.copy = item]
      BY <2>3, <3>2
    <3>4. /\ f \in Forms /\ f.step = "write" /\ f.copy = editor[e].copy /\ f.told = editor[e].told
          /\ f.start = editor[e].start /\ f.end = editor[e].end
      BY <1>1, <3>1, <3>3 DEF Forms
    <3> HIDE DEF f
    <3>5. FormIsRight(f)
      BY <1>1, <2>1, <3>1, <3>4 DEF FormIsRight, Fits
    <3> QED
      BY <1>2, <2>1, <3>4, <3>5, FormMoves
  <2> QED
    BY <2>2, <2>3
<1> QED
  BY <1>5, <1>6, <1>7, <1>8

LEMMA RowsKeep ==
    ASSUME DatesInv, \/ \E e \in Editors : WriteDates(e)
                     \/ \E start, end \in Dates : CreateItem(start, end)
                     \/ \E start, end \in Dates, today \in Days : ImportItem(start, end, today)
                     \/ RemoveItem
    PROVE  DatesInv'
<1>1. item \in Rows /\ dateClock \in Nat /\ editor \in [Editors -> Forms] /\ IsKnown(item)
  BY DEF DatesInv, DatesTyped
<1>2. ASSUME NEW e \in Editors, WriteDates(e) PROVE DatesInv'
  <2>1. editor' = [editor EXCEPT ![e] = NoForm] /\ editor[e] \in Forms
        /\ FormIsRight(editor[e]) /\ editor[e].step = "write"
    BY <1>1, <1>2 DEF WriteDates, DatesInv
  <2>2. CASE item.id # editor[e].copy.id
    <3>1. FormIsRight(NoForm)
      <4>1. NoForm.copy = NoItem /\ NoForm.step = "closed" /\ NoForm.told = FALSE
        BY DEF NoForm
      <4>2. IsKnown(NoItem)
        BY <1>1 DEF IsKnown, NoItem
      <4> QED
        BY <4>1, <4>2 DEF FormIsRight
    <3> QED
      BY <1>2, <2>1, <2>2, <3>1, FormsWellFormed, FormMoves DEF WriteDates
  <2>3. CASE item.id = editor[e].copy.id
    <3> DEFINE entry == [item EXCEPT !.stamp = dateClock + 1,
                          !.start = NextDate(editor[e].start, item.start),
                          !.end = NextDate(editor[e].end, item.end)]
    <3>1. item' = entry /\ dateClock' = dateClock + 1
          /\ overlapped' = (item.stamp # editor[e].copy.stamp)
      BY <1>1, <1>2, <2>3 DEF WriteDates, Rows
    <3>2. /\ entry.stamp = dateClock' /\ entry.id = item.id
          /\ entry.start = NextDate(editor[e].start, item.start)
          /\ entry.end = NextDate(editor[e].end, item.end)
      BY <1>1, <3>1 DEF Rows
    <3>4. entry \in Rows
      <4>1. /\ NextDate(editor[e].start, item.start) \in Dates
            /\ NextDate(editor[e].end, item.end) \in Dates
        BY <1>1, <2>1 DEF Rows, Forms, NextDate
      <4>2. dateClock + 1 \in Nat
        BY <1>1
      <4> QED
        BY <1>1, <4>1, <4>2 DEF Rows
    <3>5. entry.id # 0
      BY <2>1, <2>3, <3>2 DEF FormIsRight
    <3>3. ASSUME ~overlapped' PROVE ~IsReversed(entry.start, entry.end)
      <4>1. item = editor[e].copy
        BY <2>1, <2>3, <3>1, <3>3 DEF FormIsRight, IsKnown
      <4> QED
        BY <2>1, <3>2, <4>1 DEF FormIsRight, Fits
    <3> HIDE DEF entry
    <3> QED
      BY <2>1, <3>1, <3>2, <3>3, <3>4, <3>5, RowMoves
  <2> QED
    BY <2>2, <2>3
<1>3. ASSUME NEW d \in Dates \X Dates, NewItem(d), ~IsReversed(d[1], d[2])
      PROVE  DatesInv'
  <2> DEFINE entry == [id |-> dateClock + 2, stamp |-> dateClock + 1, start |-> d[1], end |-> d[2]]
  <2>1. item' = entry /\ dateClock' = dateClock + 1 /\ overlapped' = FALSE /\ UNCHANGED editor
    BY <1>1, <1>3 DEF NewItem
  <2>2. entry \in Rows /\ entry.id # 0 /\ entry.stamp = dateClock'
    BY <1>1, <2>1 DEF Rows
  <2>3. ~IsReversed(entry.start, entry.end)
    BY <1>3
  <2> HIDE DEF entry
  <2> QED
    BY <2>1, <2>2, <2>3, RowMoves
<1>4. CASE \E start, end \in Dates : CreateItem(start, end)
  BY <1>3, <1>4 DEF CreateItem
<1>5. ASSUME NEW start \in Dates, NEW end \in Dates, NEW today \in Days,
             ImportItem(start, end, today)
      PROVE  DatesInv'
  <2> DEFINE d == Normalised(start, end, today)
  <2>1. d \in Dates \X Dates /\ ~IsReversed(d[1], d[2])
    <3>1. CASE IsReversed(start, end)
      <4>1. d = <<start, start>> /\ start \in Int
        BY <3>1, DatesAssumption DEF Normalised, IsReversed, Dates
      <4> QED
        BY <4>1 DEF IsReversed
    <3>2. CASE ~IsReversed(start, end)
      <4>1. d = OnlyFilled(start, end, today)
        BY <3>2 DEF Normalised
      <4>2. d \in {<<today, today>>, <<end, end>>, <<start, start>>, <<start, end>>}
        BY <4>1 DEF OnlyFilled
      <4> HIDE DEF d
      <4>3. ASSUME NEW x \in Dates PROVE ~IsReversed(x, x)
        BY DatesAssumption DEF IsReversed, Dates
      <4>4. today \in Dates
        BY DEF Dates
      <4> QED
        BY <3>2, <4>2, <4>3, <4>4
    <3> QED
      BY <3>1, <3>2
  <2>2. NewItem(d)
    BY <1>5 DEF ImportItem
  <2> HIDE DEF d
  <2> QED
    BY <1>3, <2>1, <2>2
<1>6. CASE RemoveItem
  <2>1. NoItem \in Rows /\ ~IsReversed(NoItem.start, NoItem.end)
    BY FormsWellFormed DEF NoItem, IsReversed
  <2> QED
    BY <1>6, <2>1, RowMoves DEF RemoveItem, DatesInv, DatesTyped
<1> QED
  BY <1>2, <1>4, <1>5, <1>6

(***************************************************************************)
(* An item never ends before it starts unless two changes of one row       *)
(* overlapped, and no user of the form is told START_AFTER_END             *)
(* (NodeDetail.tsx and NodesService.update): for any calendar and any      *)
(* number of forms.                                                        *)
(***************************************************************************)
THEOREM ItemsEndAfterTheyStart == DatesSpec => []DatesStayInOrder
<1>1. DatesInv /\ [DatesNext]_datesVars => DatesInv'
  <2>1. ASSUME DatesInv, DatesNext PROVE DatesInv'
    BY <2>1, FormsKeep, RowsKeep DEF DatesNext
  <2>2. ASSUME DatesInv, UNCHANGED datesVars PROVE DatesInv'
    BY <2>2 DEF datesVars, DatesInv, DatesTyped, FormIsRight, IsKnown
  <2> QED
    BY <2>1, <2>2
<1>2. DatesInv => DatesStayInOrder
  BY DEF DatesInv, DatesStayInOrder, FormIsRight
<1> QED
  BY <1>1, <1>2, DatesBegin, PTL DEF DatesSpec

-------------------------------------------------------------------------------
DraftsSpec ==
    /\ \E value \in [Fields -> Values] : DraftsInit(value)
    /\ [][DraftsNext]_draftVars

-------------------------------------------------------------------------------
(* Editing one node                                                        *)

\* The value is what it is.
IsRow(r) == r \in [version : Nat, value : {r.value}]

Savings == {"no", "detail", "comment", "bar"}

\* sent and base are what they are.
IsModal(m) ==
    m \in [open : BOOLEAN, confirm : BOOLEAN, saving : Savings,
           sent : {m.sent}, expected : Nat, text : Nat, base : {m.base},
           isDetailDirty : BOOLEAN, isCommentDirty : BOOLEAN]

DraftTypes ==
    /\ IsRow(row) /\ IsRow(seen) /\ IsRow(bar)
    /\ note \in Nat /\ pressed.note \in Nat
    /\ count \in [typed : Nat, troubles : Nat] /\ count.typed <= MaxTyping
    /\ posted \in [1..MaxTyping -> Nat]
    /\ IsModal(modal)

\* A row that is there has a version of its own; one that is gone stays away.
IsCopy(stamp, value) ==
    row.version > 0 => /\ stamp <= row.version
                       /\ stamp = row.version => value = row.value

Copies ==
    /\ seen.version = 0 => row.version = 0
    /\ IsCopy(seen.version, seen.value)
    /\ IsCopy(bar.version, bar.value)
    /\ IsCopy(modal.expected, modal.base)

\* The page knows what has been typed; a bar is dragged without a dialog.
DialogRight ==
    /\ Shown => /\ modal.isDetailDirty = IsDirty(draft, seen)
                /\ modal.isCommentDirty = (note # 0)
    /\ bar # NoBar => ~modal.open
    /\ modal.saving = "bar" => bar # NoBar

\* What is under way is what was there when save was pressed.
SendingRight ==
    /\ modal.saving = "detail" => DOMAIN modal.sent \subseteq Fields
    /\ modal.saving = "detail" /\ pressed # Nothing =>
          /\ modal.base = pressed.basis
          /\ \A f \in DOMAIN modal.sent : modal.sent[f] = pressed.draft[f]
          /\ \A f \in Fields : pressed.draft[f] # pressed.basis[f] => f \in DOMAIN modal.sent
    /\ modal.saving \in {"detail", "comment"} /\ ~modal.open => pressed = Nothing
    /\ modal.saving \in {"detail", "comment"} /\ Shown /\ pressed.note # 0 => note = pressed.note
    /\ modal.saving = "comment" /\ pressed.note # 0 => modal.text = pressed.note

\* A comment that can still be sent has been stored by lost answers only.
CanBeSent(n) == n = note \/ (modal.saving = "comment" /\ n = modal.text)

PostedRight ==
    /\ note <= count.typed /\ pressed.note <= count.typed
    /\ modal.saving = "comment" => modal.text \in 1..count.typed
    /\ \A n \in 1..MaxTyping : /\ posted[n] <= 1 + count.troubles
                               /\ n > count.typed => posted[n] = 0
                               /\ CanBeSent(n) => posted[n] <= count.troubles

DraftsInv == DraftTypes /\ Copies /\ DialogRight /\ SendingRight /\ PostedRight

LEMMA OpenKeeps ==
    ASSUME DraftsInv, Open
    PROVE  DraftsInv' /\ FaithKept
<1>0. IsModal(modal) /\ DraftTypes /\ Copies /\ DialogRight /\ SendingRight /\ PostedRight
  BY DEF DraftsInv, DraftTypes
<1>1. /\ modal'.saving = modal.saving /\ modal'.sent = modal.sent
      /\ modal'.expected = modal.expected
      /\ modal'.text = modal.text /\ modal'.base = modal.base
      /\ modal'.open = TRUE /\ modal'.confirm = modal.confirm
      /\ modal'.isDetailDirty = FALSE /\ modal'.isCommentDirty = FALSE
  BY <1>0 DEF Open, IsModal, Savings, DraftTypes, IsRow
<1>2. DraftTypes'
  <2>1. IsModal(modal)'
    BY <1>0 DEF Open, IsModal, Savings, IsDirty, DraftTypes, IsRow
  <2> QED
    BY <1>0, <2>1 DEF Open, DraftTypes, IsRow, Nothing
<1>3. Copies'
  BY <1>0, <1>1 DEF Open, Copies, IsCopy, DraftTypes, IsRow
<1>4. DialogRight'
  BY <1>0, <1>1 DEF Open, DialogRight, Shown, Copies, DraftTypes, IsRow, IsDirty
<1>5. SendingRight'
  BY <1>0, <1>1 DEF Open, SendingRight, Shown, Copies, DraftTypes, IsRow, Nothing
<1>6. PostedRight'
  BY <1>0, <1>1 DEF Open, PostedRight, CanBeSent, DraftTypes, Nothing
<1>7. FaithKept
  BY <1>0, <1>1, <1>6
  DEF Open, FaithKept, WritesWhatWasMeant, ClosesWhenStored, PostsOnce, ClosesWithoutLoss,
      SavesRow, PostedRight, DraftTypes, DialogRight, SendingRight, Shown, IsDirty
<1> QED
  BY <1>2, <1>3, <1>4, <1>5, <1>6, <1>7 DEF DraftsInv

LEMMA TypeKeeps ==
    ASSUME DraftsInv, Type
    PROVE  DraftsInv' /\ FaithKept
<1>0. IsModal(modal) /\ DraftTypes /\ Copies /\ DialogRight /\ SendingRight /\ PostedRight
  BY DEF DraftsInv, DraftTypes
<1>1. /\ modal'.saving = modal.saving /\ modal'.sent = modal.sent
      /\ modal'.expected = modal.expected
      /\ modal'.text = modal.text /\ modal'.base = modal.base
      /\ modal'.open = modal.open /\ modal'.confirm = modal.confirm
      /\ modal'.isDetailDirty = IsDirty(draft', seen) /\ modal'.isCommentDirty = (note' # 0)
  BY <1>0 DEF Type, IsModal, Savings, DraftTypes, IsRow, WithFlags
<1>2. DraftTypes'
  <2>1. IsModal(modal)'
    BY <1>0 DEF Type, IsModal, Savings, IsDirty, DraftTypes, IsRow, WithFlags
  <2> QED
    BY <1>0, <2>1, DraftsAssumption DEF Type, DraftTypes, IsRow, Nothing, WithFlags
<1>3. Copies'
  BY <1>0, <1>1 DEF Type, Copies, IsCopy, DraftTypes, IsRow, WithFlags
<1>4. DialogRight'
  BY <1>0, <1>1 DEF Type, DialogRight, Shown, Copies, DraftTypes, IsRow, IsDirty, WithFlags
<1>5. SendingRight'
  BY <1>0, <1>1 DEF Type, SendingRight, Shown, Copies, DraftTypes, IsRow, Nothing, WithFlags
<1>6. PostedRight'
  BY <1>0, <1>1 DEF Type, PostedRight, CanBeSent, DraftTypes, Nothing, WithFlags
<1>7. FaithKept
  BY <1>0, <1>1, <1>6
  DEF Type, FaithKept, WritesWhatWasMeant, ClosesWhenStored, PostsOnce, ClosesWithoutLoss,
      SavesRow, PostedRight, DraftTypes, DialogRight, SendingRight, Shown, IsDirty, WithFlags
<1> QED
  BY <1>2, <1>3, <1>4, <1>5, <1>6, <1>7 DEF DraftsInv

LEMMA ArrivalKeeps ==
    ASSUME DraftsInv, RowArrives
    PROVE  DraftsInv' /\ FaithKept
<1>0. IsModal(modal) /\ DraftTypes /\ Copies /\ DialogRight /\ SendingRight /\ PostedRight
  BY DEF DraftsInv, DraftTypes
<1>1. /\ modal'.saving = modal.saving /\ modal'.sent = modal.sent
      /\ modal'.expected = modal.expected
      /\ modal'.text = modal.text /\ modal'.base = modal.base
      /\ modal'.open = modal.open /\ modal'.confirm = modal.confirm
      /\ Shown => /\ modal'.isDetailDirty = IsDirty(draft', row)
                  /\ modal'.isCommentDirty = (note' # 0)
  BY <1>0 DEF RowArrives, IsModal, Savings, DraftTypes, IsRow, WithFlags
<1>2. DraftTypes'
  <2>1. IsModal(modal)'
    BY <1>0 DEF RowArrives, IsModal, Savings, IsDirty, DraftTypes, IsRow, WithFlags
  <2> QED
    BY <1>0, <2>1 DEF RowArrives, DraftTypes, IsRow, Nothing, WithFlags
<1>3. Copies'
  BY <1>0, <1>1 DEF RowArrives, Copies, IsCopy, DraftTypes, IsRow, WithFlags
<1>4. DialogRight'
  BY <1>0, <1>1
  DEF RowArrives, DialogRight, Shown, Copies, DraftTypes, IsRow, IsDirty, WithFlags
<1>5. SendingRight'
  BY <1>0, <1>1
  DEF RowArrives, SendingRight, Shown, Copies, DraftTypes, IsRow, Nothing, WithFlags
<1>6. PostedRight'
  BY <1>0, <1>1 DEF RowArrives, PostedRight, CanBeSent, DraftTypes, Nothing, WithFlags
<1>7. FaithKept
  BY <1>0, <1>1, <1>6
  DEF RowArrives, FaithKept, WritesWhatWasMeant, ClosesWhenStored, PostsOnce,
      ClosesWithoutLoss, SavesRow, PostedRight, DraftTypes, DialogRight, SendingRight, Shown,
      IsDirty, WithFlags
<1> QED
  BY <1>2, <1>3, <1>4, <1>5, <1>6, <1>7 DEF DraftsInv

LEMMA DiscardKeeps ==
    ASSUME DraftsInv, Discard
    PROVE  DraftsInv' /\ FaithKept
<1>0. IsModal(modal) /\ DraftTypes /\ Copies /\ DialogRight /\ SendingRight /\ PostedRight
  BY DEF DraftsInv, DraftTypes
<1>1. /\ modal'.saving = modal.saving /\ modal'.sent = modal.sent
      /\ modal'.expected = modal.expected
      /\ modal'.text = modal.text /\ modal'.base = modal.base
      /\ modal'.open = FALSE
  BY <1>0 DEF Discard, IsModal, Savings, DraftTypes, IsRow
<1>2. DraftTypes'
  <2>1. IsModal(modal)'
    BY <1>0 DEF Discard, IsModal, Savings, IsDirty, DraftTypes, IsRow
  <2> QED
    BY <1>0, <2>1 DEF Discard, DraftTypes, IsRow, Nothing
<1>3. Copies'
  BY <1>0, <1>1 DEF Discard, Copies, IsCopy, DraftTypes, IsRow
<1>4. DialogRight'
  BY <1>0, <1>1 DEF Discard, DialogRight, Shown, Copies, DraftTypes, IsRow, IsDirty
<1>5. SendingRight'
  BY <1>0, <1>1 DEF Discard, SendingRight, Shown, Copies, DraftTypes, IsRow, Nothing
<1>6. PostedRight'
  BY <1>0, <1>1 DEF Discard, PostedRight, CanBeSent, DraftTypes, Nothing
<1>7. FaithKept
  BY <1>0, <1>1, <1>6
  DEF Discard, FaithKept, WritesWhatWasMeant, ClosesWhenStored, PostsOnce, ClosesWithoutLoss,
      SavesRow, PostedRight, DraftTypes, DialogRight, SendingRight, Shown, IsDirty
<1> QED
  BY <1>2, <1>3, <1>4, <1>5, <1>6, <1>7 DEF DraftsInv

LEMMA KeepEditingKeeps ==
    ASSUME DraftsInv, KeepEditing
    PROVE  DraftsInv' /\ FaithKept
<1>0. IsModal(modal) /\ DraftTypes /\ Copies /\ DialogRight /\ SendingRight /\ PostedRight
  BY DEF DraftsInv, DraftTypes
<1>1. /\ modal'.saving = modal.saving /\ modal'.sent = modal.sent
      /\ modal'.expected = modal.expected
      /\ modal'.text = modal.text /\ modal'.base = modal.base
      /\ modal'.open = modal.open /\ modal'.isDetailDirty = modal.isDetailDirty
      /\ modal'.isCommentDirty = modal.isCommentDirty
  BY <1>0 DEF KeepEditing, IsModal, Savings, DraftTypes, IsRow
<1>2. DraftTypes'
  <2>1. IsModal(modal)'
    BY <1>0 DEF KeepEditing, IsModal, Savings, IsDirty, DraftTypes, IsRow
  <2> QED
    BY <1>0, <2>1 DEF KeepEditing, DraftTypes, IsRow, Nothing
<1>3. Copies'
  BY <1>0, <1>1 DEF KeepEditing, Copies, IsCopy, DraftTypes, IsRow
<1>4. DialogRight'
  BY <1>0, <1>1 DEF KeepEditing, DialogRight, Shown, Copies, DraftTypes, IsRow, IsDirty
<1>5. SendingRight'
  BY <1>0, <1>1 DEF KeepEditing, SendingRight, Shown, Copies, DraftTypes, IsRow, Nothing
<1>6. PostedRight'
  BY <1>0, <1>1 DEF KeepEditing, PostedRight, CanBeSent, DraftTypes, Nothing
<1>7. FaithKept
  BY <1>0, <1>1, <1>6
  DEF KeepEditing, FaithKept, WritesWhatWasMeant, ClosesWhenStored, PostsOnce,
      ClosesWithoutLoss, SavesRow, PostedRight, DraftTypes, DialogRight, SendingRight, Shown,
      IsDirty
<1> QED
  BY <1>2, <1>3, <1>4, <1>5, <1>6, <1>7 DEF DraftsInv

LEMMA AskKeeps ==
    ASSUME DraftsInv, AttemptClose, MustAsk
    PROVE  DraftsInv' /\ FaithKept
<1>0. IsModal(modal) /\ DraftTypes /\ Copies /\ DialogRight /\ SendingRight /\ PostedRight
  BY DEF DraftsInv, DraftTypes
<1>1. /\ modal'.saving = modal.saving /\ modal'.sent = modal.sent
      /\ modal'.expected = modal.expected
      /\ modal'.text = modal.text /\ modal'.base = modal.base
      /\ modal'.open = modal.open
      /\ modal'.isDetailDirty = modal.isDetailDirty
      /\ modal'.isCommentDirty = modal.isCommentDirty
  BY <1>0 DEF AttemptClose, IsModal, Savings, DraftTypes, IsRow, MustAsk
<1>2. DraftTypes'
  <2>1. IsModal(modal)'
    BY <1>0 DEF AttemptClose, IsModal, Savings, IsDirty, DraftTypes, IsRow, MustAsk
  <2> QED
    BY <1>0, <2>1 DEF AttemptClose, DraftTypes, IsRow, Nothing, MustAsk
<1>3. Copies'
  BY <1>0, <1>1 DEF AttemptClose, Copies, IsCopy, DraftTypes, IsRow, MustAsk
<1>4. DialogRight'
  BY <1>0, <1>1
  DEF AttemptClose, DialogRight, Shown, Copies, DraftTypes, IsRow, IsDirty, MustAsk
<1>5. SendingRight'
  BY <1>0, <1>1
  DEF AttemptClose, SendingRight, Shown, Copies, DraftTypes, IsRow, Nothing, MustAsk
<1>6. PostedRight'
  BY <1>0, <1>1 DEF AttemptClose, PostedRight, CanBeSent, DraftTypes, Nothing, MustAsk
<1>7. FaithKept
  BY <1>0, <1>1, <1>6
  DEF AttemptClose, FaithKept, WritesWhatWasMeant, ClosesWhenStored, PostsOnce,
      ClosesWithoutLoss, SavesRow, PostedRight, DraftTypes, DialogRight, SendingRight, Shown,
      IsDirty, MustAsk
<1> QED
  BY <1>2, <1>3, <1>4, <1>5, <1>6, <1>7 DEF DraftsInv

LEMMA CloseKeeps ==
    ASSUME DraftsInv, AttemptClose, ~MustAsk
    PROVE  DraftsInv' /\ FaithKept
<1>0. IsModal(modal) /\ DraftTypes /\ Copies /\ DialogRight /\ SendingRight /\ PostedRight
  BY DEF DraftsInv, DraftTypes
<1>1. modal'.open = FALSE /\ modal'.saving = "no" /\ modal'.expected = 0
  BY <1>0 DEF AttemptClose, IsModal, Savings, DraftTypes, IsRow, Close, NoModal, MustAsk
<1>2. DraftTypes'
  <2>1. IsModal(modal)'
    BY <1>0
    DEF AttemptClose, IsModal, Savings, IsDirty, DraftTypes, IsRow, Close, NoModal, MustAsk
  <2> QED
    BY <1>0, <2>1 DEF AttemptClose, DraftTypes, IsRow, Nothing, Close, NoModal, MustAsk
<1>3. Copies'
  BY <1>0, <1>1 DEF AttemptClose, Copies, IsCopy, DraftTypes, IsRow, Close, NoModal, MustAsk
<1>4. DialogRight'
  BY <1>0, <1>1
  DEF AttemptClose, DialogRight, Shown, Copies, DraftTypes, IsRow, IsDirty, Close, NoModal,
      MustAsk
<1>5. SendingRight'
  BY <1>0, <1>1
  DEF AttemptClose, SendingRight, Shown, Copies, DraftTypes, IsRow, Nothing, Close, NoModal,
      MustAsk
<1>6. PostedRight'
  BY <1>0, <1>1
  DEF AttemptClose, PostedRight, CanBeSent, DraftTypes, Nothing, Close, NoModal, MustAsk
<1>7. FaithKept
  BY <1>0, <1>1, <1>6
  DEF AttemptClose, FaithKept, WritesWhatWasMeant, ClosesWhenStored, PostsOnce,
      ClosesWithoutLoss, SavesRow, PostedRight, DraftTypes, DialogRight, SendingRight, Shown,
      IsDirty, Close, NoModal, MustAsk
<1> QED
  BY <1>2, <1>3, <1>4, <1>5, <1>6, <1>7 DEF DraftsInv

LEMMA SendKeeps ==
    ASSUME DraftsInv, Save, Shown /\ IsDirty(draft, seen)
    PROVE  DraftsInv' /\ FaithKept
<1>0. IsModal(modal) /\ DraftTypes /\ Copies /\ DialogRight /\ SendingRight /\ PostedRight
  BY DEF DraftsInv, DraftTypes
<1>1. /\ modal'.open = TRUE /\ modal'.saving = "detail" /\ modal'.expected = seen.version
      /\ modal'.base = seen.value /\ modal'.sent = [f \in Changed(draft, seen) |-> draft[f]]
      /\ modal'.isDetailDirty = modal.isDetailDirty
      /\ modal'.isCommentDirty = modal.isCommentDirty
  BY <1>0 DEF Save, IsModal, Savings, DraftTypes, IsRow, SendDetail, Changed, MustAsk
<1>2. DraftTypes'
  <2>1. IsModal(modal)'
    BY <1>0
    DEF Save, IsModal, Savings, IsDirty, DraftTypes, IsRow, SendDetail, Changed, MustAsk
  <2> QED
    BY <1>0, <2>1 DEF Save, DraftTypes, IsRow, Nothing, SendDetail, Changed, MustAsk
<1>3. Copies'
  BY <1>0, <1>1 DEF Save, Copies, IsCopy, DraftTypes, IsRow, SendDetail, Changed, MustAsk
<1>4. DialogRight'
  BY <1>0, <1>1
  DEF Save, DialogRight, Shown, Copies, DraftTypes, IsRow, IsDirty, SendDetail, Changed,
      MustAsk
<1>5. SendingRight'
  BY <1>0, <1>1
  DEF Save, SendingRight, Shown, Copies, DraftTypes, IsRow, Nothing, SendDetail, Changed,
      MustAsk
<1>6. PostedRight'
  BY <1>0, <1>1
  DEF Save, PostedRight, CanBeSent, DraftTypes, Nothing, SendDetail, Changed, MustAsk
<1>7. FaithKept
  BY <1>0, <1>1, <1>6
  DEF Save, FaithKept, WritesWhatWasMeant, ClosesWhenStored, PostsOnce, ClosesWithoutLoss,
      SavesRow, PostedRight, DraftTypes, DialogRight, SendingRight, Shown, IsDirty, SendDetail,
      Changed, MustAsk
<1> QED
  BY <1>2, <1>3, <1>4, <1>5, <1>6, <1>7 DEF DraftsInv

LEMMA SendNoteKeeps ==
    ASSUME DraftsInv, Save, ~(Shown /\ IsDirty(draft, seen)), Shown /\ note # 0
    PROVE  DraftsInv' /\ FaithKept
<1>0. IsModal(modal) /\ DraftTypes /\ Copies /\ DialogRight /\ SendingRight /\ PostedRight
  BY DEF DraftsInv, DraftTypes
<1>1. /\ modal'.open = TRUE /\ modal'.saving = "comment" /\ modal'.text = note
      /\ modal'.expected = modal.expected /\ modal'.base = modal.base
      /\ modal'.isDetailDirty = modal.isDetailDirty
      /\ modal'.isCommentDirty = modal.isCommentDirty
  BY <1>0 DEF Save, IsModal, Savings, DraftTypes, IsRow, AfterRow, MustAsk
<1>2. DraftTypes'
  <2>1. IsModal(modal)'
    BY <1>0 DEF Save, IsModal, Savings, IsDirty, DraftTypes, IsRow, AfterRow, MustAsk
  <2> QED
    BY <1>0, <2>1 DEF Save, DraftTypes, IsRow, Nothing, AfterRow, MustAsk
<1>3. Copies'
  BY <1>0, <1>1 DEF Save, Copies, IsCopy, DraftTypes, IsRow, AfterRow, MustAsk
<1>4. DialogRight'
  BY <1>0, <1>1
  DEF Save, DialogRight, Shown, Copies, DraftTypes, IsRow, IsDirty, AfterRow, MustAsk
<1>5. SendingRight'
  BY <1>0, <1>1
  DEF Save, SendingRight, Shown, Copies, DraftTypes, IsRow, Nothing, AfterRow, MustAsk
<1>6. PostedRight'
  BY <1>0, <1>1 DEF Save, PostedRight, CanBeSent, DraftTypes, Nothing, AfterRow, MustAsk
<1>7. FaithKept
  BY <1>0, <1>1, <1>6
  DEF Save, FaithKept, WritesWhatWasMeant, ClosesWhenStored, PostsOnce, ClosesWithoutLoss,
      SavesRow, PostedRight, DraftTypes, DialogRight, SendingRight, Shown, IsDirty, AfterRow,
      MustAsk
<1> QED
  BY <1>2, <1>3, <1>4, <1>5, <1>6, <1>7 DEF DraftsInv

LEMMA SaveNothingKeeps ==
    ASSUME DraftsInv, Save, ~(Shown /\ IsDirty(draft, seen)), ~(Shown /\ note # 0)
    PROVE  DraftsInv' /\ FaithKept
<1>0. IsModal(modal) /\ DraftTypes /\ Copies /\ DialogRight /\ SendingRight /\ PostedRight
  BY DEF DraftsInv, DraftTypes
<1>1. modal'.open = FALSE /\ modal'.saving = "no" /\ modal'.expected = 0
  BY <1>0 DEF Save, IsModal, Savings, DraftTypes, IsRow, AfterRow, Close, NoModal, MustAsk
<1>2. DraftTypes'
  <2>1. IsModal(modal)'
    BY <1>0
    DEF Save, IsModal, Savings, IsDirty, DraftTypes, IsRow, AfterRow, Close, NoModal, MustAsk
  <2> QED
    BY <1>0, <2>1 DEF Save, DraftTypes, IsRow, Nothing, AfterRow, Close, NoModal, MustAsk
<1>3. Copies'
  BY <1>0, <1>1 DEF Save, Copies, IsCopy, DraftTypes, IsRow, AfterRow, Close, NoModal, MustAsk
<1>4. DialogRight'
  BY <1>0, <1>1
  DEF Save, DialogRight, Shown, Copies, DraftTypes, IsRow, IsDirty, AfterRow, Close, NoModal,
      MustAsk
<1>5. SendingRight'
  BY <1>0, <1>1
  DEF Save, SendingRight, Shown, Copies, DraftTypes, IsRow, Nothing, AfterRow, Close, NoModal,
      MustAsk
<1>6. PostedRight'
  BY <1>0, <1>1
  DEF Save, PostedRight, CanBeSent, DraftTypes, Nothing, AfterRow, Close, NoModal, MustAsk
<1>7. FaithKept
  BY <1>0, <1>1, <1>6
  DEF Save, FaithKept, WritesWhatWasMeant, ClosesWhenStored, PostsOnce, ClosesWithoutLoss,
      SavesRow, PostedRight, DraftTypes, DialogRight, SendingRight, Shown, IsDirty, AfterRow,
      Close, NoModal, MustAsk
<1> QED
  BY <1>2, <1>3, <1>4, <1>5, <1>6, <1>7 DEF DraftsInv

LEMMA SavedKeepsOpen ==
    ASSUME DraftsInv, DetailSaved, Shown /\ note # 0
    PROVE  DraftsInv' /\ FaithKept
<1>0. IsModal(modal) /\ DraftTypes /\ Copies /\ DialogRight /\ SendingRight /\ PostedRight
  BY DEF DraftsInv, DraftTypes
<1>1. /\ modal'.open = modal.open /\ modal'.saving = "comment" /\ modal'.text = note
      /\ modal'.expected = modal.expected /\ modal'.base = modal.base
      /\ modal'.isDetailDirty = modal.isDetailDirty
      /\ modal'.isCommentDirty = modal.isCommentDirty
      /\ IsRow(row') /\ row'.version = row.version + 1 /\ row.version > 0
  BY <1>0 DEF DetailSaved, IsModal, Savings, DraftTypes, IsRow, AfterRow, IsAccepted, Written
<1>2. DraftTypes'
  <2>1. IsModal(modal)'
    BY <1>0
    DEF DetailSaved, IsModal, Savings, IsDirty, DraftTypes, IsRow, AfterRow, IsAccepted,
        Written
  <2> QED
    BY <1>0, <2>1 DEF DetailSaved, DraftTypes, IsRow, Nothing, AfterRow, IsAccepted, Written
<1>3. Copies'
  BY <1>0, <1>1
  DEF DetailSaved, Copies, IsCopy, DraftTypes, IsRow, AfterRow, IsAccepted, Written
<1>4. DialogRight'
  BY <1>0, <1>1
  DEF DetailSaved, DialogRight, Shown, Copies, DraftTypes, IsRow, IsDirty, AfterRow,
      IsAccepted, Written
<1>5. SendingRight'
  BY <1>0, <1>1
  DEF DetailSaved, SendingRight, Shown, Copies, DraftTypes, IsRow, Nothing, AfterRow,
      IsAccepted, Written
<1>6. PostedRight'
  BY <1>0, <1>1
  DEF DetailSaved, PostedRight, CanBeSent, DraftTypes, Nothing, AfterRow, IsAccepted, Written
<1>7. FaithKept
  <2>1. /\ row.value = modal.base /\ DOMAIN modal.sent \subseteq Fields
        /\ row' = Written(modal.sent)
    BY <1>0 DEF DetailSaved, IsAccepted, Copies, IsCopy, SendingRight
  <2>2. \A f \in DOMAIN modal.sent : row'.value[f] = modal.sent[f]
    BY <2>1 DEF Written
  <2>3. WritesWhatWasMeant
    BY <1>0, <2>1, <2>2 DEF WritesWhatWasMeant, SavesRow, SendingRight
  <2>4. ClosesWhenStored
    BY <1>0, <1>1, <2>2 DEF DetailSaved, ClosesWhenStored, SendingRight, Shown
  <2>5. PostsOnce
    BY <1>0, <1>6 DEF DetailSaved, PostsOnce, PostedRight, DraftTypes
  <2> QED
    BY <2>3, <2>4, <2>5 DEF DetailSaved, FaithKept, ClosesWithoutLoss
<1> QED
  BY <1>2, <1>3, <1>4, <1>5, <1>6, <1>7 DEF DraftsInv

LEMMA SavedCloses ==
    ASSUME DraftsInv, DetailSaved, ~(Shown /\ note # 0)
    PROVE  DraftsInv' /\ FaithKept
<1>0. IsModal(modal) /\ DraftTypes /\ Copies /\ DialogRight /\ SendingRight /\ PostedRight
  BY DEF DraftsInv, DraftTypes
<1>1. /\ modal'.open = FALSE /\ modal'.saving = "no" /\ modal'.expected = 0
      /\ IsRow(row') /\ row'.version = row.version + 1 /\ row.version > 0
  BY <1>0
  DEF DetailSaved, IsModal, Savings, DraftTypes, IsRow, AfterRow, Close, NoModal, IsAccepted,
      Written
<1>2. DraftTypes'
  <2>1. IsModal(modal)'
    BY <1>0
    DEF DetailSaved, IsModal, Savings, IsDirty, DraftTypes, IsRow, AfterRow, Close, NoModal,
        IsAccepted, Written
  <2> QED
    BY <1>0, <2>1
    DEF DetailSaved, DraftTypes, IsRow, Nothing, AfterRow, Close, NoModal, IsAccepted, Written
<1>3. Copies'
  BY <1>0, <1>1
  DEF DetailSaved, Copies, IsCopy, DraftTypes, IsRow, AfterRow, Close, NoModal, IsAccepted,
      Written
<1>4. DialogRight'
  BY <1>0, <1>1
  DEF DetailSaved, DialogRight, Shown, Copies, DraftTypes, IsRow, IsDirty, AfterRow, Close,
      NoModal, IsAccepted, Written
<1>5. SendingRight'
  BY <1>0, <1>1
  DEF DetailSaved, SendingRight, Shown, Copies, DraftTypes, IsRow, Nothing, AfterRow, Close,
      NoModal, IsAccepted, Written
<1>6. PostedRight'
  BY <1>0, <1>1
  DEF DetailSaved, PostedRight, CanBeSent, DraftTypes, Nothing, AfterRow, Close, NoModal,
      IsAccepted, Written
<1>7. FaithKept
  <2>1. /\ row.value = modal.base /\ DOMAIN modal.sent \subseteq Fields
        /\ row' = Written(modal.sent)
    BY <1>0 DEF DetailSaved, IsAccepted, Copies, IsCopy, SendingRight
  <2>2. \A f \in DOMAIN modal.sent : row'.value[f] = modal.sent[f]
    BY <2>1 DEF Written
  <2>3. WritesWhatWasMeant
    BY <1>0, <2>1, <2>2 DEF WritesWhatWasMeant, SavesRow, SendingRight
  <2>4. ClosesWhenStored
    BY <1>0, <1>1, <2>2 DEF DetailSaved, ClosesWhenStored, SendingRight
  <2>5. PostsOnce
    BY <1>0, <1>6 DEF DetailSaved, PostsOnce, PostedRight, DraftTypes
  <2> QED
    BY <2>3, <2>4, <2>5 DEF DetailSaved, FaithKept, ClosesWithoutLoss
<1> QED
  BY <1>2, <1>3, <1>4, <1>5, <1>6, <1>7 DEF DraftsInv

LEMMA CommentKeeps ==
    ASSUME DraftsInv, CommentSaved
    PROVE  DraftsInv' /\ FaithKept
<1>0. IsModal(modal) /\ DraftTypes /\ Copies /\ DialogRight /\ SendingRight /\ PostedRight
  BY DEF DraftsInv, DraftTypes
<1>1. modal'.open = FALSE /\ modal'.saving = "no" /\ modal'.expected = 0
  BY <1>0 DEF CommentSaved, IsModal, Savings, DraftTypes, IsRow, Close, NoModal
<1>2. DraftTypes'
  <2>1. IsModal(modal)'
    BY <1>0 DEF CommentSaved, IsModal, Savings, IsDirty, DraftTypes, IsRow, Close, NoModal
  <2>2. posted' \in [1..MaxTyping -> Nat]
    <3>1. modal.text \in 1..MaxTyping
      BY <1>0, DraftsAssumption DEF CommentSaved, PostedRight, DraftTypes
    <3> QED
      BY <1>0, <3>1 DEF CommentSaved, DraftTypes
  <2> QED
    BY <1>0, <2>1, <2>2 DEF CommentSaved, DraftTypes, IsRow
<1>3. Copies'
  BY <1>0, <1>1 DEF CommentSaved, Copies, IsCopy, DraftTypes, IsRow, Close, NoModal
<1>4. DialogRight'
  BY <1>0, <1>1
  DEF CommentSaved, DialogRight, Shown, Copies, DraftTypes, IsRow, IsDirty, Close, NoModal
<1>5. SendingRight'
  BY <1>0, <1>1
  DEF CommentSaved, SendingRight, Shown, Copies, DraftTypes, IsRow, Nothing, Close, NoModal
<1>6. PostedRight'
  BY <1>0, <1>1 DEF CommentSaved, PostedRight, CanBeSent, DraftTypes, Nothing, Close, NoModal
<1>7. FaithKept
  <2>1. posted'[modal.text] = posted[modal.text] + 1 /\ modal.text \in 1..MaxTyping
    BY <1>0, DraftsAssumption DEF CommentSaved, PostedRight, DraftTypes
  <2>2. WritesWhatWasMeant
    BY DEF CommentSaved, WritesWhatWasMeant, SavesRow
  <2>3. ClosesWhenStored
    BY <1>0, <2>1 DEF CommentSaved, ClosesWhenStored, SendingRight, DraftTypes
  <2>4. PostsOnce
    BY <1>0, <1>6 DEF CommentSaved, PostsOnce, PostedRight, DraftTypes
  <2> QED
    BY <2>2, <2>3, <2>4 DEF CommentSaved, FaithKept, ClosesWithoutLoss
<1> QED
  BY <1>2, <1>3, <1>4, <1>5, <1>6, <1>7 DEF DraftsInv

LEMMA RefusalKeeps ==
    ASSUME DraftsInv, SaveRefused
    PROVE  DraftsInv' /\ FaithKept
<1>0. IsModal(modal) /\ DraftTypes /\ Copies /\ DialogRight /\ SendingRight /\ PostedRight
  BY DEF DraftsInv, DraftTypes
<1>1. /\ modal'.open = modal.open /\ modal'.saving = "no"
      /\ modal'.expected = modal.expected /\ modal'.base = modal.base
      /\ modal'.isDetailDirty = modal.isDetailDirty
      /\ modal'.isCommentDirty = modal.isCommentDirty
  BY <1>0 DEF SaveRefused, IsModal, Savings, DraftTypes, IsRow, Failed
<1>2. DraftTypes'
  <2>1. IsModal(modal)'
    BY <1>0 DEF SaveRefused, IsModal, Savings, IsDirty, DraftTypes, IsRow, Failed
  <2> QED
    BY <1>0, <2>1 DEF SaveRefused, DraftTypes, IsRow, Nothing, Failed
<1>3. Copies'
  BY <1>0, <1>1 DEF SaveRefused, Copies, IsCopy, DraftTypes, IsRow, Failed
<1>4. DialogRight'
  BY <1>0, <1>1 DEF SaveRefused, DialogRight, Shown, Copies, DraftTypes, IsRow, IsDirty, Failed
<1>5. SendingRight'
  BY <1>0, <1>1
  DEF SaveRefused, SendingRight, Shown, Copies, DraftTypes, IsRow, Nothing, Failed
<1>6. PostedRight'
  BY <1>0, <1>1 DEF SaveRefused, PostedRight, CanBeSent, DraftTypes, Nothing, Failed
<1>7. FaithKept
  BY <1>0, <1>1, <1>6
  DEF SaveRefused, FaithKept, WritesWhatWasMeant, ClosesWhenStored, PostsOnce,
      ClosesWithoutLoss, SavesRow, PostedRight, DraftTypes, DialogRight, SendingRight, Shown,
      IsDirty, Failed
<1> QED
  BY <1>2, <1>3, <1>4, <1>5, <1>6, <1>7 DEF DraftsInv

LEMMA LossKeeps ==
    ASSUME DraftsInv, Lost
    PROVE  DraftsInv' /\ FaithKept
<1>0. IsModal(modal) /\ DraftTypes /\ Copies /\ DialogRight /\ SendingRight /\ PostedRight
  BY DEF DraftsInv, DraftTypes
<1>1. /\ modal'.open = modal.open /\ modal'.saving = "no"
      /\ modal'.expected = modal.expected /\ modal'.base = modal.base
      /\ modal'.isDetailDirty = modal.isDetailDirty
      /\ modal'.isCommentDirty = modal.isCommentDirty
      /\ IsRow(row') /\ (row' = row \/ (row'.version = row.version + 1 /\ row.version > 0))
      /\ count' \in [typed : Nat, troubles : Nat] /\ count'.typed = count.typed
      /\ count'.troubles = count.troubles + 1
  BY <1>0 DEF Lost, IsModal, Savings, DraftTypes, IsRow, Failed, Trouble, Written, IsAccepted
<1>2. DraftTypes'
  <2>1. IsModal(modal)'
    BY <1>0
    DEF Lost, IsModal, Savings, IsDirty, DraftTypes, IsRow, Failed, Trouble, Written,
        IsAccepted
  <2> QED
    BY <1>0, <2>1 DEF Lost, DraftTypes, IsRow, Nothing, Failed, Trouble, Written, IsAccepted
<1>3. Copies'
  BY <1>0, <1>1
  DEF Lost, Copies, IsCopy, DraftTypes, IsRow, Failed, Trouble, Written, IsAccepted
<1>4. DialogRight'
  BY <1>0, <1>1
  DEF Lost, DialogRight, Shown, Copies, DraftTypes, IsRow, IsDirty, Failed, Trouble, Written,
      IsAccepted
<1>5. SendingRight'
  BY <1>0, <1>1
  DEF Lost, SendingRight, Shown, Copies, DraftTypes, IsRow, Nothing, Failed, Trouble, Written,
      IsAccepted
<1>6. PostedRight'
  <2>1. /\ note' = note /\ pressed' = pressed /\ modal.saving \in {"detail", "comment"}
        /\ \/ posted' = posted
           \/ modal.saving = "comment" /\ posted' = [posted EXCEPT ![modal.text] = @ + 1]
    BY DEF Lost
  <2>2. ASSUME NEW n \in 1..MaxTyping
        PROVE  /\ posted'[n] \in {posted[n], posted[n] + 1} /\ posted[n] \in Nat
               /\ posted'[n] # posted[n] => modal.saving = "comment" /\ n = modal.text
    BY <1>0, <2>1 DEF DraftTypes
  <2>3. count.typed \in Nat /\ count.troubles \in Nat /\ modal.text \in Nat
    BY <1>0 DEF DraftTypes, IsModal
  <2>4. ASSUME NEW n \in 1..MaxTyping
        PROVE  /\ posted'[n] <= 1 + count'.troubles
               /\ n > count'.typed => posted'[n] = 0
               /\ CanBeSent(n)' => posted'[n] <= count'.troubles
    BY <1>0, <1>1, <2>1, <2>2, <2>3 DEF PostedRight, CanBeSent
  <2>5. note' <= count'.typed /\ (pressed.note)' <= count'.typed
    BY <1>0, <1>1, <2>1 DEF PostedRight
  <2> QED
    BY <1>1, <2>4, <2>5 DEF PostedRight
<1>7. FaithKept
  <2>1. /\ row.value = modal.base /\ DOMAIN modal.sent \subseteq Fields
        /\ row' = Written(modal.sent) /\ modal.saving = "detail"
     \/ row' = row
    BY <1>0 DEF Lost, IsAccepted, Copies, IsCopy, SendingRight
  <2>2. row' # row => \A f \in DOMAIN modal.sent : row'.value[f] = modal.sent[f]
    BY <2>1 DEF Written
  <2>3. WritesWhatWasMeant
    BY <1>0, <2>1, <2>2 DEF WritesWhatWasMeant, SavesRow, SendingRight
  <2>4. ClosesWhenStored /\ ClosesWithoutLoss
    BY <1>1 DEF ClosesWhenStored, ClosesWithoutLoss, Shown
  <2>5. PostsOnce
    BY <1>0, <1>6 DEF PostsOnce, PostedRight, DraftTypes
  <2> QED
    BY <2>3, <2>4, <2>5 DEF FaithKept
<1> QED
  BY <1>2, <1>3, <1>4, <1>5, <1>6, <1>7 DEF DraftsInv

LEMMA ProposeKeeps ==
    ASSUME DraftsInv, ProposeBar
    PROVE  DraftsInv' /\ FaithKept
<1>0. IsModal(modal) /\ DraftTypes /\ Copies /\ DialogRight /\ SendingRight /\ PostedRight
  BY DEF DraftsInv, DraftTypes
<1>1. /\ modal' = modal
      /\ count' \in [typed : Nat, troubles : Nat] /\ count'.typed = count.typed + 1
      /\ count'.troubles = count.troubles
  BY <1>0 DEF ProposeBar, IsModal, Savings, DraftTypes, IsRow
<1>2. DraftTypes'
  <2>1. IsModal(modal)'
    BY <1>0 DEF ProposeBar, IsModal, Savings, IsDirty, DraftTypes, IsRow
  <2> QED
    BY <1>0, <1>1, <2>1, DraftsAssumption DEF ProposeBar, DraftTypes, IsRow
<1>3. Copies'
  BY <1>0, <1>1 DEF ProposeBar, Copies, IsCopy, DraftTypes, IsRow
<1>4. DialogRight'
  BY <1>0, <1>1 DEF ProposeBar, DialogRight, Shown, Copies, DraftTypes, IsRow, IsDirty
<1>5. SendingRight'
  BY <1>0, <1>1 DEF ProposeBar, SendingRight, Shown, Copies, DraftTypes, IsRow, Nothing
<1>6. PostedRight'
  BY <1>0, <1>1 DEF ProposeBar, PostedRight, CanBeSent, DraftTypes, Nothing
<1>7. FaithKept
  BY <1>0, <1>1, <1>6
  DEF ProposeBar, FaithKept, WritesWhatWasMeant, ClosesWhenStored, PostsOnce,
      ClosesWithoutLoss, SavesRow, PostedRight, DraftTypes, DialogRight, SendingRight, Shown,
      IsDirty
<1> QED
  BY <1>2, <1>3, <1>4, <1>5, <1>6, <1>7 DEF DraftsInv

LEMMA BarCancelKeeps ==
    ASSUME DraftsInv, CancelBar
    PROVE  DraftsInv' /\ FaithKept
<1>0. IsModal(modal) /\ DraftTypes /\ Copies /\ DialogRight /\ SendingRight /\ PostedRight
  BY DEF DraftsInv, DraftTypes
<1>1. modal' = modal
  BY <1>0 DEF CancelBar, IsModal, Savings, DraftTypes, IsRow, NoBar
<1>2. DraftTypes'
  <2>1. IsModal(modal)'
    BY <1>0 DEF CancelBar, IsModal, Savings, IsDirty, DraftTypes, IsRow, NoBar
  <2> QED
    BY <1>0, <2>1 DEF CancelBar, DraftTypes, IsRow, Nothing, NoBar
<1>3. Copies'
  BY <1>0, <1>1 DEF CancelBar, Copies, IsCopy, DraftTypes, IsRow, NoBar
<1>4. DialogRight'
  BY <1>0, <1>1 DEF CancelBar, DialogRight, Shown, Copies, DraftTypes, IsRow, IsDirty, NoBar
<1>5. SendingRight'
  BY <1>0, <1>1 DEF CancelBar, SendingRight, Shown, Copies, DraftTypes, IsRow, Nothing, NoBar
<1>6. PostedRight'
  BY <1>0, <1>1 DEF CancelBar, PostedRight, CanBeSent, DraftTypes, Nothing, NoBar
<1>7. FaithKept
  BY <1>0, <1>1, <1>6
  DEF CancelBar, FaithKept, WritesWhatWasMeant, ClosesWhenStored, PostsOnce, ClosesWithoutLoss,
      SavesRow, PostedRight, DraftTypes, DialogRight, SendingRight, Shown, IsDirty, NoBar
<1> QED
  BY <1>2, <1>3, <1>4, <1>5, <1>6, <1>7 DEF DraftsInv

LEMMA BarConfirmKeeps ==
    ASSUME DraftsInv, ConfirmBar
    PROVE  DraftsInv' /\ FaithKept
<1>0. IsModal(modal) /\ DraftTypes /\ Copies /\ DialogRight /\ SendingRight /\ PostedRight
  BY DEF DraftsInv, DraftTypes
<1>1. /\ modal'.open = modal.open /\ modal'.saving = "bar"
      /\ modal'.expected = bar.version /\ modal'.base = bar.value
      /\ modal'.isDetailDirty = modal.isDetailDirty
      /\ modal'.isCommentDirty = modal.isCommentDirty
  BY <1>0 DEF ConfirmBar, IsModal, Savings, DraftTypes, IsRow
<1>2. DraftTypes'
  <2>1. IsModal(modal)'
    BY <1>0 DEF ConfirmBar, IsModal, Savings, IsDirty, DraftTypes, IsRow
  <2> QED
    BY <1>0, <2>1 DEF ConfirmBar, DraftTypes, IsRow, Nothing
<1>3. Copies'
  BY <1>0, <1>1 DEF ConfirmBar, Copies, IsCopy, DraftTypes, IsRow
<1>4. DialogRight'
  BY <1>0, <1>1 DEF ConfirmBar, DialogRight, Shown, Copies, DraftTypes, IsRow, IsDirty
<1>5. SendingRight'
  BY <1>0, <1>1 DEF ConfirmBar, SendingRight, Shown, Copies, DraftTypes, IsRow, Nothing
<1>6. PostedRight'
  BY <1>0, <1>1 DEF ConfirmBar, PostedRight, CanBeSent, DraftTypes, Nothing
<1>7. FaithKept
  BY <1>0, <1>1, <1>6
  DEF ConfirmBar, FaithKept, WritesWhatWasMeant, ClosesWhenStored, PostsOnce,
      ClosesWithoutLoss, SavesRow, PostedRight, DraftTypes, DialogRight, SendingRight, Shown,
      IsDirty
<1> QED
  BY <1>2, <1>3, <1>4, <1>5, <1>6, <1>7 DEF DraftsInv

LEMMA BarKeeps ==
    ASSUME DraftsInv, BarAnswered
    PROVE  DraftsInv' /\ FaithKept
<1>0. IsModal(modal) /\ DraftTypes /\ Copies /\ DialogRight /\ SendingRight /\ PostedRight
  BY DEF DraftsInv, DraftTypes
<1>1. /\ modal'.open = FALSE /\ modal'.saving = "no" /\ modal'.expected = 0
      /\ IsRow(row') /\ (row' = row \/ (row'.version = row.version + 1 /\ row.version > 0))
  BY <1>0
  DEF BarAnswered, IsModal, Savings, DraftTypes, IsRow, NoModal, NoBar, Written, IsAccepted
<1>2. DraftTypes'
  <2>1. IsModal(modal)'
    BY <1>0
    DEF BarAnswered, IsModal, Savings, IsDirty, DraftTypes, IsRow, NoModal, NoBar, Written,
        IsAccepted
  <2> QED
    BY <1>0, <2>1
    DEF BarAnswered, DraftTypes, IsRow, Nothing, NoModal, NoBar, Written, IsAccepted
<1>3. Copies'
  BY <1>0, <1>1
  DEF BarAnswered, Copies, IsCopy, DraftTypes, IsRow, NoModal, NoBar, Written, IsAccepted
<1>4. DialogRight'
  BY <1>0, <1>1
  DEF BarAnswered, DialogRight, Shown, Copies, DraftTypes, IsRow, IsDirty, NoModal, NoBar,
      Written, IsAccepted
<1>5. SendingRight'
  BY <1>0, <1>1
  DEF BarAnswered, SendingRight, Shown, Copies, DraftTypes, IsRow, Nothing, NoModal, NoBar,
      Written, IsAccepted
<1>6. PostedRight'
  BY <1>0, <1>1
  DEF BarAnswered, PostedRight, CanBeSent, DraftTypes, Nothing, NoModal, NoBar, Written,
      IsAccepted
<1>7. FaithKept
  <2>1. /\ row.value = modal.base
        /\ row' = Written(modal.sent) /\ modal.saving = "bar"
     \/ row' = row
    BY <1>0 DEF BarAnswered, IsAccepted, Copies, IsCopy, SendingRight
  <2>2. WritesWhatWasMeant
    BY <1>0, <2>1 DEF WritesWhatWasMeant, SavesRow, SendingRight
  <2>3. ClosesWhenStored /\ ClosesWithoutLoss
    BY <1>0 DEF BarAnswered, ClosesWhenStored, ClosesWithoutLoss, Shown, DialogRight
  <2>4. PostsOnce
    BY <1>0, <1>6 DEF BarAnswered, PostsOnce, PostedRight, DraftTypes
  <2> QED
    BY <2>2, <2>3, <2>4 DEF FaithKept
<1> QED
  BY <1>2, <1>3, <1>4, <1>5, <1>6, <1>7 DEF DraftsInv

LEMMA OtherKeeps ==
    ASSUME DraftsInv, OtherEditsRow
    PROVE  DraftsInv' /\ FaithKept
<1>0. IsModal(modal) /\ DraftTypes /\ Copies /\ DialogRight /\ SendingRight /\ PostedRight
  BY DEF DraftsInv, DraftTypes
<1>1. /\ modal' = modal
      /\ IsRow(row') /\ row.version > 0
      /\ row'.version = 0 \/ row'.version = row.version + 1
      /\ count' \in [typed : Nat, troubles : Nat] /\ count'.typed = count.typed
      /\ count'.troubles = count.troubles + 1
  BY <1>0 DEF OtherEditsRow, IsModal, Savings, DraftTypes, IsRow, Trouble, Written
<1>2. DraftTypes'
  <2>1. IsModal(modal)'
    BY <1>0 DEF OtherEditsRow, IsModal, Savings, IsDirty, DraftTypes, IsRow, Trouble, Written
  <2> QED
    BY <1>0, <2>1 DEF OtherEditsRow, DraftTypes, IsRow, Nothing, Trouble, Written
<1>3. Copies'
  <2>1. /\ seen' = seen /\ bar' = bar /\ row.version \in Nat /\ seen.version \in Nat
        /\ bar.version \in Nat /\ modal.expected \in Nat
    BY <1>0 DEF OtherEditsRow, DraftTypes, IsRow, IsModal
  <2>2. ASSUME NEW v \in Nat, NEW x, IsCopy(v, x) PROVE IsCopy(v, x)'
    BY <1>1, <2>1, <2>2 DEF IsCopy
  <2>3. /\ IsCopy(seen.version, seen.value)' /\ IsCopy(bar.version, bar.value)'
        /\ IsCopy(modal.expected, modal.base)'
    BY <1>0, <1>1, <2>1, <2>2 DEF Copies
  <2> QED
    BY <1>0, <1>1, <2>1, <2>3 DEF Copies
<1>4. DialogRight'
  BY <1>0, <1>1
  DEF OtherEditsRow, DialogRight, Shown, Copies, DraftTypes, IsRow, IsDirty, Trouble, Written
<1>5. SendingRight'
  BY <1>0, <1>1
  DEF OtherEditsRow, SendingRight, Shown, Copies, DraftTypes, IsRow, Nothing, Trouble, Written
<1>6. PostedRight'
  BY <1>0, <1>1
  DEF OtherEditsRow, PostedRight, CanBeSent, DraftTypes, Nothing, Trouble, Written
<1>7. FaithKept
  BY <1>0, <1>1, <1>6
  DEF OtherEditsRow, FaithKept, WritesWhatWasMeant, ClosesWhenStored, PostsOnce,
      ClosesWithoutLoss, SavesRow, PostedRight, DraftTypes, DialogRight, SendingRight, Shown,
      IsDirty, Trouble, Written
<1> QED
  BY <1>2, <1>3, <1>4, <1>5, <1>6, <1>7 DEF DraftsInv

\* Every step of the screen.
LEMMA DraftSteps == ASSUME DraftsInv, DraftsNext PROVE DraftsInv' /\ FaithKept
<1>1. CASE AttemptClose
  BY <1>1, AskKeeps, CloseKeeps
<1>2. CASE Save
  BY <1>2, SendKeeps, SendNoteKeeps, SaveNothingKeeps
<1>3. CASE DetailSaved
  BY <1>3, SavedKeepsOpen, SavedCloses
<1> QED
  BY <1>1, <1>2, <1>3, OpenKeeps, TypeKeeps, ArrivalKeeps, DiscardKeeps, KeepEditingKeeps,
     CommentKeeps, RefusalKeeps, LossKeeps, ProposeKeeps, BarCancelKeeps, BarConfirmKeeps,
     BarKeeps, OtherKeeps DEF DraftsNext

LEMMA DraftsBegin == ASSUME NEW value \in [Fields -> Values], DraftsInit(value) PROVE DraftsInv
<1>1. IsModal(NoModal) /\ NoModal.open = FALSE /\ NoModal.saving = "no" /\ NoModal.expected = 0
  BY DEF IsModal, NoModal, Savings
<1>2. IsRow(NoBar) /\ NoBar.version = 0 /\ Nothing.note = 0
  BY DEF IsRow, NoBar, Nothing
<1>3. DraftTypes
  BY <1>1, <1>2, DraftsAssumption DEF DraftsInit, DraftTypes, IsRow
<1>4. Copies
  BY <1>1, <1>2 DEF DraftsInit, Copies, IsCopy
<1>5. DialogRight /\ SendingRight
  BY <1>1 DEF DraftsInit, DialogRight, SendingRight, Shown
<1>6. PostedRight
  BY <1>1, <1>2, DraftsAssumption DEF DraftsInit, PostedRight, CanBeSent
<1> QED
  BY <1>3, <1>4, <1>5, <1>6 DEF DraftsInv

(***************************************************************************)
(* A save writes what was typed over the row it was typed for and nothing  *)
(* else, a dialog closes only when it has stored what was in it or there   *)
(* was nothing in it, and a comment is stored once but for lost answers    *)
(* (handleSaveAndClose and applyBarChange, ProjectDetailPage.tsx): for any *)
(* fields, values and number of troubles.                                  *)
(***************************************************************************)
THEOREM EditsAreFaithful == DraftsSpec => EditsKeepFaith
<1>1. DraftsInv /\ [DraftsNext]_draftVars => DraftsInv'
  <2>1. ASSUME DraftsInv, UNCHANGED draftVars PROVE DraftsInv'
    BY <2>1 DEF draftVars, DraftsInv, DraftTypes, Copies, IsCopy, DialogRight, Shown, IsDirty,
                SendingRight, PostedRight, CanBeSent, IsModal, IsRow
  <2>2. ASSUME DraftsInv, DraftsNext PROVE DraftsInv' /\ FaithKept
    BY <2>2, DraftSteps
  <2> QED
    BY <2>1, <2>2
<1>2. DraftsInv /\ [DraftsNext]_draftVars => [FaithKept]_draftVars
  BY DraftSteps
<1>3. (\E value \in [Fields -> Values] : DraftsInit(value)) => DraftsInv
  BY DraftsBegin
<1> QED
  BY <1>1, <1>2, <1>3, PTL DEF DraftsSpec, EditsKeepFaith

-------------------------------------------------------------------------------
SyncSpec ==
    /\ \E groups \in [People -> DOMAIN Within \cup {NoGroup}],
          roles \in [Pairs -> {"NONE", "MEMBER", "MANAGER"}] : SyncInit(groups, roles)
    /\ [][SyncNext]_syncVars

-------------------------------------------------------------------------------
(* The question about the projects of a group                              *)

SyncSteps == {"idle", "ask", "survey", "managers", "change", "entered"}

\* moving and blocked are what they are.
IsScreen(s) ==
    s \in [step : SyncSteps, group : DOMAIN Within \cup {NoGroup}, users : SUBSET People,
           moving : {s.moving}, remove : SUBSET Pairs, blocked : {s.blocked}]

IsDialog(d) ==
    d \in [open : BOOLEAN, add : SUBSET Pairs, remove : SUBSET Pairs, blocked : {d.blocked},
           toAdd : {d.toAdd}, toRemove : {d.toRemove}, doneAdd : {d.doneAdd},
           donePair : SUBSET Pairs, busy : BOOLEAN, todo : {d.todo}, denied : {d.denied},
           asked : {d.asked}, promise : {d.promise}, before : {d.before},
           entered : {d.entered}, left : {d.left}]

SyncTypes ==
    /\ belongs \in [People -> DOMAIN Within \cup {NoGroup}]
    /\ listed \in [People -> DOMAIN Within \cup {NoGroup}]
    /\ role \in [Pairs -> {"NONE", "MEMBER", "MANAGER"}]
    /\ IsScreen(screen) /\ IsDialog(dialog)
    /\ meddling \in [changes : Nat, writes : Nat, mishaps : Nat]

\* One thing at a time, and those who may be removed come from somewhere.
ScreenRight ==
    /\ dialog.open => screen.step = "idle"
    /\ ~dialog.open => dialog = NoDialog
    /\ DOMAIN screen.moving \subseteq screen.users
    /\ \A k \in screen.remove : k[2] \in DOMAIN screen.moving

\* As long as nobody else writes and no answer is lost, the page knows the
\* groups, and who may be removed takes part.
Undisturbed == meddling.writes = 0 /\ meddling.mishaps = 0

CalmRight ==
    Undisturbed =>
      /\ screen.step # "entered" => listed = belongs
      /\ screen.step \in {"ask", "survey", "managers", "change"} =>
            \A u \in DOMAIN screen.moving : /\ screen.moving[u] = belongs[u]
                                            /\ belongs[u] \in DOMAIN Within
      /\ screen.step \in {"managers", "change", "entered"} =>
            \A k \in screen.remove : role[k] # "NONE"
      /\ Torn = {}

\* What is asked for is what is offered.
IsAdd(r) ==
    /\ r[1] = "add" /\ PairsOf(r) = {k \in dialog.add : k[1] = r[2]}
    /\ r = <<"add", r[2], {pair[2] : pair \in {q \in dialog.add : q[1] = r[2]}}>>

IsRemove(r) == r[1] = "remove" /\ \E k \in dialog.remove : r = <<"remove", k[1], {k[2]}>>

OffersRight ==
    /\ \A k \in dialog.add : k[2] \in dialog.entered
    /\ \A k \in dialog.remove : k[2] \in dialog.left
    /\ dialog.donePair \subseteq dialog.remove
    /\ dialog.todo \subseteq dialog.promise /\ dialog.promise \subseteq dialog.asked
    /\ \A r \in dialog.asked : IsAdd(r) \/ IsRemove(r)

NotYet ==
    \A r \in dialog.todo : /\ r[1] = "add" => r[2] \notin dialog.doneAdd
                           /\ r[1] = "remove" => PairsOf(r) \cap dialog.donePair = {}

\* The role of k follows from a box.
Asked(k, new) ==
    \E r \in dialog.asked : /\ k \in PairsOf(r)
                            /\ \/ r[1] = "add" /\ new = "MEMBER"
                               \/ r[1] = "remove" /\ new = "NONE"

Explained ==
    dialog.open => \A k \in Pairs \ foreign : role[k] # dialog.before[k] => Asked(k, role[k])

DoneRight ==
    \A k \in Pairs \ (foreign \cup Torn) :
        /\ k \in dialog.add /\ k[1] \in dialog.doneAdd => role[k] # "NONE"
        /\ k \in dialog.donePair => role[k] = "NONE"

PromiseRight ==
    dialog.busy => \A r \in dialog.promise : r \in dialog.todo \cup dialog.denied \/ IsServed(r)

LoopRight == OffersRight /\ NotYet /\ Explained /\ DoneRight /\ PromiseRight

SyncInv == SyncTypes /\ ScreenRight /\ CalmRight /\ LoopRight

LEMMA NoDialogIsRight ==
    /\ IsDialog(NoDialog) /\ NoDialog.open = FALSE /\ NoDialog.busy = FALSE
    /\ NoDialog.add = {} /\ NoDialog.remove = {} /\ NoDialog.doneAdd = {}
    /\ NoDialog.donePair = {} /\ NoDialog.todo = {} /\ NoDialog.denied = {}
    /\ NoDialog.asked = {} /\ NoDialog.promise = {}
BY DEF NoDialog, IsDialog

LEMMA NoScreenIsRight ==
    /\ IsScreen(NoScreen) /\ NoScreen.step = "idle" /\ NoScreen.remove = {}
    /\ NoScreen.users = {} /\ DOMAIN NoScreen.moving = {}
BY DEF NoScreen, IsScreen, SyncSteps

\* A dialog that has just opened, or did not have to.
LEMMA NewDialog ==
    ASSUME SyncTypes, NEW add \in SUBSET Pairs, NEW remove \in SUBSET Pairs,
           NEW entered, NEW left,
           \A k \in add : k[2] \in entered, \A k \in remove : k[2] \in left,
           dialog' = OpenDialog(add, remove, entered, left, role), role' = role
    PROVE  /\ IsDialog(dialog)' /\ (~dialog.open => dialog = NoDialog)'
           /\ LoopRight'
           /\ dialog'.add \subseteq add /\ dialog'.remove \subseteq remove
<1>1. CASE add \cup remove = {}
  <2>1. dialog' = NoDialog
    BY <1>1 DEF OpenDialog
  <2> QED
    BY <2>1, NoDialogIsRight
    DEF LoopRight, OffersRight, NotYet, Explained, DoneRight, PromiseRight, IsDialog, Torn
<1>2. CASE add \cup remove # {}
  <2>1. dialog' = [NoDialog EXCEPT !.open = TRUE, !.add = add, !.remove = remove,
                      !.before = role, !.blocked = screen.blocked,
                      !.entered = entered, !.left = left]
    BY <1>2 DEF OpenDialog
  <2>2. /\ IsDialog(dialog') /\ dialog'.open = TRUE /\ dialog'.busy = FALSE
        /\ dialog'.add = add /\ dialog'.remove = remove /\ dialog'.doneAdd = {}
        /\ dialog'.donePair = {} /\ dialog'.todo = {} /\ dialog'.asked = {}
        /\ dialog'.promise = {} /\ dialog'.before = role
        /\ dialog'.entered = entered /\ dialog'.left = left
    <3>1. IsDialog(NoDialog) /\ NoDialog.busy = FALSE /\ NoDialog.doneAdd = {}
          /\ NoDialog.donePair = {} /\ NoDialog.todo = {} /\ NoDialog.asked = {}
          /\ NoDialog.promise = {}
      BY NoDialogIsRight
    <3> DEFINE d == [NoDialog EXCEPT !.open = TRUE, !.add = add, !.remove = remove]
    <3>2. /\ IsDialog(d) /\ d.open = TRUE /\ d.busy = FALSE
          /\ d.add = add /\ d.remove = remove /\ d.doneAdd = {}
          /\ d.donePair = {} /\ d.todo = {} /\ d.asked = {} /\ d.promise = {}
      BY <3>1 DEF IsDialog
    <3>3. dialog' = [d EXCEPT !.before = role, !.blocked = screen.blocked,
                              !.entered = entered, !.left = left]
      BY <2>1
    <3> HIDE DEF d
    <3> QED
      BY <3>2, <3>3 DEF IsDialog
  <2> QED
    BY <2>2 DEF LoopRight, OffersRight, NotYet, Explained, DoneRight, PromiseRight, IsDialog
<1> QED
  BY <1>1, <1>2

\* The page does something else than the dialog.
LEMMA LoopStays ==
    ASSUME LoopRight, UNCHANGED <<role, dialog, foreign>>
    PROVE  LoopRight'
BY DEF LoopRight, OffersRight, IsAdd, IsRemove, PairsOf, NotYet, Explained, Asked, DoneRight,
   Torn,
       PromiseRight, IsServed

\* What is promised of a step of an open dialog.
LEMMA WordFollows ==
    ASSUME SyncInv, NothingTwice, ClosesWhenDone, dialog.open,
           \A k \in Pairs \ foreign' : role'[k] # dialog.before[k] => Asked(k, role'[k])
    PROVE  WordKept
<1>1. OffersAreApart
  BY DEF OffersAreApart, SyncInv, CalmRight, Undisturbed
<1>2. ASSUME NEW k \in Pairs \ foreign', role'[k] # dialog.before[k]
      PROVE  \E r \in dialog.asked :
                /\ k \in PairsOf(r)
                /\ \/ r[1] = "add" /\ role'[k] = "MEMBER" /\ k[2] \in dialog.entered
                   \/ r[1] = "remove" /\ role'[k] = "NONE" /\ k[2] \in dialog.left
  <2>1. PICK r \in dialog.asked : /\ k \in PairsOf(r)
                                  /\ \/ r[1] = "add" /\ role'[k] = "MEMBER"
                                     \/ r[1] = "remove" /\ role'[k] = "NONE"
    BY <1>2 DEF Asked
  <2>2. IsAdd(r) \/ IsRemove(r)
    BY DEF SyncInv, LoopRight, OffersRight
  <2>3. CASE IsAdd(r)
    BY <2>1, <2>3 DEF IsAdd, SyncInv, LoopRight, OffersRight
  <2>4. CASE IsRemove(r)
    <3>1. PICK q \in dialog.remove : r = <<"remove", q[1], {q[2]}>>
      BY <2>4 DEF IsRemove
    <3>2. k[2] = q[2]
      BY <2>1, <3>1 DEF PairsOf
    <3> QED
      BY <2>1, <2>4, <3>2 DEF IsRemove, SyncInv, LoopRight, OffersRight
  <2> QED
    BY <2>2, <2>3, <2>4
<1> QED
  BY <1>1, <1>2 DEF WordKept, ChangesAreAsked

LEMMA WordStays ==
    ASSUME SyncInv, UNCHANGED <<role, foreign>>, dialog'.open = dialog.open
    PROVE  WordKept
<1> SUFFICES ASSUME dialog.open PROVE WordKept
  BY DEF WordKept
<1>1. NothingTwice /\ ClosesWhenDone
  BY DEF NothingTwice, ClosesWhenDone
<1> QED
  BY <1>1, WordFollows DEF SyncInv, LoopRight, Explained

LEMMA AddMembersKeeps ==
    ASSUME SyncInv, NEW g \in DOMAIN Within, NEW users \in SUBSET People, AddMembers(g, users)
    PROVE  SyncInv' /\ WordKept
<1> DEFINE elsewhere == {u \in users : belongs[u] \notin {g, NoGroup}}
<1>1. /\ dialog.open = FALSE /\ UNCHANGED <<listed, role, dialog, foreign>>
      /\ meddling'.writes = meddling.writes /\ meddling'.mishaps = meddling.mishaps
      /\ meddling' \in [changes : Nat, writes : Nat, mishaps : Nat]
  BY DEF AddMembers, Counted, SyncInv, SyncTypes, IsDialog
<1>2. LoopRight' /\ WordKept
  BY <1>1, LoopStays DEF SyncInv, WordKept
<1>3. CASE elsewhere = {}
  <2>1. /\ belongs' = [u \in People |-> IF u \in users THEN g ELSE belongs[u]]
        /\ screen' = [NoScreen EXCEPT !.step = "entered", !.group = g, !.users = users]
    BY <1>3 DEF AddMembers
  <2>2. /\ IsScreen(screen') /\ screen'.step = "entered" /\ screen'.remove = {}
        /\ DOMAIN screen'.moving = {}
    BY <2>1, NoScreenIsRight DEF NoScreen, IsScreen, SyncSteps
  <2>3. SyncTypes'
    BY <1>1, <2>1, <2>2 DEF SyncInv, SyncTypes, IsDialog, IsScreen
  <2>4. ScreenRight' /\ CalmRight'
    BY <1>1, <2>2 DEF SyncInv, ScreenRight, CalmRight, Undisturbed, Torn
  <2> QED
    BY <1>2, <2>3, <2>4 DEF SyncInv
<1>4. CASE elsewhere # {}
  <2>1. /\ screen' = [NoScreen EXCEPT !.step = "ask", !.group = g, !.users = users,
                                      !.moving = Restrict(belongs, elsewhere)]
        /\ belongs' = belongs
    BY <1>4 DEF AddMembers
  <2>2. /\ IsScreen(screen') /\ screen'.step = "ask" /\ screen'.remove = {}
        /\ screen'.users = users /\ screen'.moving = [u \in elsewhere |-> belongs[u]]
    BY <2>1 DEF NoScreen, IsScreen, SyncSteps, Restrict
  <2>3. SyncTypes'
    BY <1>1, <2>1, <2>2 DEF SyncInv, SyncTypes, IsDialog, IsScreen
  <2>4. ScreenRight'
    BY <1>1, <2>2 DEF SyncInv, ScreenRight
  <2>5. \A u \in elsewhere : belongs[u] \in DOMAIN Within
    BY DEF SyncInv, SyncTypes
  <2>6. screen.step = "idle"
    BY NoScreenIsRight DEF AddMembers
  <2>7. CalmRight'
    BY <1>1, <2>1, <2>2, <2>5, <2>6 DEF SyncInv, CalmRight, Undisturbed, Torn
  <2> QED
    BY <1>2, <2>3, <2>4, <2>7 DEF SyncInv
<1> QED
  BY <1>3, <1>4

LEMMA MoveUserKeeps ==
    ASSUME SyncInv, NEW u \in People, NEW g \in DOMAIN Within \cup {NoGroup}, MoveUser(u, g)
    PROVE  SyncInv' /\ WordKept
<1> DEFINE mover == {v \in {u} : listed[v] # NoGroup}
<1>1. /\ dialog.open = FALSE /\ UNCHANGED <<belongs, listed, role, dialog, foreign>>
      /\ meddling'.writes = meddling.writes /\ meddling'.mishaps = meddling.mishaps
      /\ meddling' \in [changes : Nat, writes : Nat, mishaps : Nat]
  BY DEF MoveUser, Counted, SyncInv, SyncTypes, IsDialog
<1>2. LoopRight' /\ WordKept
  BY <1>1, LoopStays DEF SyncInv, WordKept
<1>3. screen' = [NoScreen EXCEPT !.step = "survey", !.group = g, !.users = {u},
                    !.moving = Restrict(listed, mover)]
  BY DEF MoveUser
<1>4. /\ IsScreen(screen') /\ screen'.step = "survey" /\ screen'.remove = {}
      /\ screen'.users = {u} /\ screen'.moving = [v \in mover |-> listed[v]]
  BY <1>3 DEF NoScreen, IsScreen, SyncSteps, Restrict
<1>5. SyncTypes'
  BY <1>1, <1>4 DEF SyncInv, SyncTypes, IsDialog, IsScreen
<1>6. ScreenRight'
  BY <1>1, <1>4 DEF SyncInv, ScreenRight
<1>7. screen.step = "idle"
  BY NoScreenIsRight DEF MoveUser
<1>8. \A v \in mover : v \in People /\ (listed[v] = belongs[v] => belongs[v] \in DOMAIN Within)
  BY DEF SyncInv, SyncTypes
<1>9. CalmRight'
  BY <1>1, <1>4, <1>7, <1>8 DEF SyncInv, CalmRight, Undisturbed, Torn
<1> QED
  BY <1>2, <1>5, <1>6, <1>9 DEF SyncInv

LEMMA RelistKeeps == ASSUME SyncInv, Relist PROVE SyncInv' /\ WordKept
<1>1. UNCHANGED <<belongs, role, screen, dialog, meddling, foreign>> /\ listed' = belongs
  BY DEF Relist, Calm
<1>2. LoopRight' /\ WordKept
  BY <1>1, LoopStays, WordStays DEF SyncInv
<1>3. SyncTypes' /\ ScreenRight' /\ CalmRight'
  BY <1>1 DEF SyncInv, SyncTypes, ScreenRight, CalmRight, Undisturbed, Torn, IsScreen, IsDialog
<1> QED
  BY <1>2, <1>3 DEF SyncInv

LEMMA AnswerKeeps ==
    ASSUME SyncInv, NEW yes \in BOOLEAN, Answer(yes) PROVE SyncInv' /\ WordKept
<1>1. /\ dialog.open = FALSE /\ UNCHANGED <<belongs, listed, role, dialog, meddling, foreign>>
      /\ IsScreen(screen) /\ screen.step = "ask"
  BY DEF Answer, Calm, SyncInv, SyncTypes, ScreenRight, IsDialog
<1>2. LoopRight' /\ WordKept
  BY <1>1, LoopStays DEF SyncInv, WordKept
<1>3. \/ /\ IsScreen(screen') /\ screen'.step = "survey" /\ screen'.users = screen.users
         /\ screen'.moving = screen.moving /\ screen'.remove = screen.remove
      \/ screen' = NoScreen
  BY <1>1 DEF Answer, IsScreen, SyncSteps
<1>4. SyncTypes'
  BY <1>1, <1>3, NoScreenIsRight DEF SyncInv, SyncTypes, IsDialog, IsScreen
<1>5. ScreenRight' /\ CalmRight'
  BY <1>1, <1>3, NoScreenIsRight DEF SyncInv, ScreenRight, CalmRight, Undisturbed, Torn
<1> QED
  BY <1>2, <1>4, <1>5 DEF SyncInv

\* Who may be removed comes from the group, and is not known to be missing.
LEMMA RemoveSide ==
    ASSUME SyncTypes, NEW moving, NEW users, NEW k \in buildRemoveSide(moving, users)
    PROVE  /\ k \in SyncProjects \X DOMAIN moving
           /\ k[2] \notin missingUserIds(moving[k[2]], k[1])
<1>1. PICK g \in Range(moving) :
         k \in UNION {{p} \X ({u \in DOMAIN moving : moving[u] = g} \ missingUserIds(g, p)) :
                         p \in Covered(g)}
  BY DEF buildRemoveSide
<1>2. PICK p \in Covered(g) :
         k \in {p} \X ({u \in DOMAIN moving : moving[u] = g} \ missingUserIds(g, p))
  BY <1>1
<1>3. p \in SyncProjects
  BY DEF Covered
<1> QED
  BY <1>2, <1>3

LEMMA SurveyKeeps == ASSUME SyncInv, Survey PROVE SyncInv' /\ WordKept
<1>1. /\ dialog.open = FALSE /\ UNCHANGED <<belongs, listed, role, dialog, meddling, foreign>>
      /\ IsScreen(screen) /\ screen.step = "survey"
  BY DEF Survey, Calm, SyncInv, SyncTypes, ScreenRight, IsDialog
<1>2. LoopRight' /\ WordKept
  BY <1>1, LoopStays DEF SyncInv, WordKept
<1> DEFINE remove == buildRemoveSide(screen.moving, screen.users)
<1>3. ASSUME NEW k \in remove
      PROVE  /\ k \in Pairs /\ k[2] \in DOMAIN screen.moving
             /\ Undisturbed => role[k] # "NONE"
  <2>1. /\ k \in SyncProjects \X DOMAIN screen.moving
        /\ k[2] \notin missingUserIds(screen.moving[k[2]], k[1])
    BY RemoveSide DEF SyncInv
  <2>2. DOMAIN screen.moving \subseteq People
    BY <1>1 DEF SyncInv, ScreenRight, IsScreen
  <2>3. k = <<k[1], k[2]>> /\ k[2] \in People
    BY <2>1, <2>2
  <2>4. ASSUME Undisturbed PROVE role[k] # "NONE"
    <3>1. screen.moving[k[2]] = belongs[k[2]] /\ belongs[k[2]] \in DOMAIN Within
      BY <1>1, <2>1, <2>4 DEF SyncInv, CalmRight
    <3>2. k[2] \in UsersOf(screen.moving[k[2]])
      BY <2>3, <3>1, SyncAssumption DEF UsersOf
    <3> QED
      BY <2>1, <2>3, <3>2 DEF missingUserIds
  <2> QED
    BY <2>1, <2>2, <2>4 DEF Pairs
<1>4. /\ IsScreen(screen') /\ screen'.step = "managers" /\ screen'.users = screen.users
      /\ screen'.moving = screen.moving /\ screen'.remove = remove
  <2> HIDE DEF remove
  <2>1. screen' = [screen EXCEPT !.step = "managers", !.remove = remove]
    BY DEF Survey, remove
  <2>2. remove \in SUBSET Pairs
    BY <1>3
  <2> QED
    BY <1>1, <2>1, <2>2 DEF IsScreen, SyncSteps
<1> HIDE DEF remove
<1>5. SyncTypes'
  BY <1>1, <1>4 DEF SyncInv, SyncTypes, IsDialog, IsScreen
<1>6. ScreenRight' /\ CalmRight'
  BY <1>1, <1>3, <1>4 DEF SyncInv, ScreenRight, CalmRight, Undisturbed, Torn
<1> QED
  BY <1>2, <1>5, <1>6 DEF SyncInv

LEMMA AnnotateKeeps == ASSUME SyncInv, Annotate PROVE SyncInv' /\ WordKept
<1>1. /\ dialog.open = FALSE /\ UNCHANGED <<belongs, listed, role, dialog, foreign>>
      /\ IsScreen(screen) /\ screen.step = "managers"
  BY DEF Annotate, SyncInv, SyncTypes, ScreenRight, IsDialog
<1>2. LoopRight' /\ WordKept
  BY <1>1, LoopStays DEF SyncInv, WordKept
<1>3. /\ IsScreen(screen') /\ screen'.step = "change" /\ screen'.users = screen.users
      /\ screen'.moving = screen.moving /\ screen'.remove = screen.remove
  BY <1>1 DEF Annotate, IsScreen, SyncSteps
<1>4. /\ meddling' \in [changes : Nat, writes : Nat, mishaps : Nat]
      /\ meddling'.writes = meddling.writes
      /\ meddling'.mishaps = 0 => meddling.mishaps = 0
  BY DEF Annotate, SyncInv, SyncTypes
<1>5. SyncTypes'
  BY <1>1, <1>3, <1>4 DEF SyncInv, SyncTypes, IsDialog, IsScreen
<1>6. ScreenRight' /\ CalmRight'
  BY <1>1, <1>3, <1>4 DEF SyncInv, ScreenRight, CalmRight, Undisturbed, Torn
<1> QED
  BY <1>2, <1>5, <1>6 DEF SyncInv

LEMMA GiveUpKeeps == ASSUME SyncInv, GiveUp PROVE SyncInv' /\ WordKept
<1>1. /\ dialog.open = FALSE /\ UNCHANGED <<listed, role, dialog, foreign>>
      /\ screen' = NoScreen /\ screen.step \in {"survey", "change", "entered"}
      /\ IsScreen(screen)
  BY DEF GiveUp, SyncInv, SyncTypes, ScreenRight, IsDialog
<1>2. LoopRight' /\ WordKept
  BY <1>1, LoopStays DEF SyncInv, WordKept
<1>3. /\ meddling' \in [changes : Nat, writes : Nat, mishaps : Nat]
      /\ \/ meddling'.mishaps # 0
         \/ UNCHANGED <<meddling, belongs>> /\ screen.step = "change"
  BY <1>1 DEF GiveUp, SyncInv, SyncTypes
<1>4. belongs' \in [People -> DOMAIN Within \cup {NoGroup}]
  <2>1. CASE belongs' = belongs
    BY <2>1 DEF SyncInv, SyncTypes
  <2>2. CASE belongs' # belongs
    <3>1. screen.step = "change" /\ belongs' = [u \in People |->
             IF u \in screen.users THEN screen.group ELSE belongs[u]]
      BY <2>2 DEF GiveUp
    <3>2. screen.group \in DOMAIN Within \cup {NoGroup}
      BY <1>1 DEF IsScreen
    <3> QED
      BY <3>1, <3>2 DEF SyncInv, SyncTypes
  <2> QED
    BY <2>1, <2>2
<1>5. SyncTypes'
  BY <1>1, <1>3, <1>4, NoScreenIsRight DEF SyncInv, SyncTypes, IsDialog
<1>6. ScreenRight' /\ CalmRight'
  BY <1>1, <1>3, NoScreenIsRight DEF SyncInv, ScreenRight, CalmRight, Undisturbed, Torn
<1> QED
  BY <1>2, <1>5, <1>6 DEF SyncInv

LEMMA ChangeKeeps == ASSUME SyncInv, Change PROVE SyncInv' /\ WordKept
<1>1. /\ dialog.open = FALSE /\ UNCHANGED <<role, meddling>> /\ foreign' = {}
      /\ screen.step = "change" /\ IsScreen(screen) /\ IsDialog(dialog)
      /\ dialog = NoDialog
  BY DEF Change, SyncInv, SyncTypes, ScreenRight, IsDialog
<1>2. WordKept
  BY <1>1 DEF WordKept
<1>3. CASE screen.group # NoGroup
  <2>1. /\ belongs' = [u \in People |-> IF u \in screen.users THEN screen.group ELSE belongs[u]]
        /\ screen' = [screen EXCEPT !.step = "entered"]
        /\ UNCHANGED <<listed, dialog>>
    BY <1>3 DEF Change
  <2>2. /\ IsScreen(screen') /\ screen'.step = "entered" /\ screen'.users = screen.users
        /\ screen'.moving = screen.moving /\ screen'.remove = screen.remove
        /\ screen.group \in DOMAIN Within \cup {NoGroup}
    BY <1>1, <2>1 DEF IsScreen, SyncSteps
  <2>3. SyncTypes'
    BY <1>1, <2>1, <2>2 DEF SyncInv, SyncTypes, IsDialog
  <2>4. ScreenRight' /\ CalmRight'
    BY <1>1, <2>1, <2>2 DEF SyncInv, ScreenRight, CalmRight, Undisturbed, Torn
  <2>5. LoopRight'
    BY <1>1, <2>1, NoDialogIsRight
    DEF LoopRight, OffersRight, NotYet, Explained, DoneRight, PromiseRight, Torn
  <2> QED
    BY <1>2, <2>3, <2>4, <2>5 DEF SyncInv
<1>4. CASE screen.group = NoGroup
  <2>1. /\ \A u \in screen.users : belongs[u] = screen.moving[u]
        /\ belongs' = [u \in People |-> IF u \in screen.users THEN NoGroup ELSE belongs[u]]
        /\ dialog' = OpenDialog({}, screen.remove, {}, screen.users, role)
        /\ listed' = belongs'
        /\ screen' = NoScreen
    BY <1>4 DEF Change
  <2>2. screen.remove \in SUBSET Pairs /\ \A k \in screen.remove : k[2] \in screen.users
    BY <1>1 DEF IsScreen, SyncInv, ScreenRight
  <2>3. /\ IsDialog(dialog)' /\ (~dialog.open => dialog = NoDialog)' /\ LoopRight'
        /\ dialog'.add = {}
    <3> DEFINE none == {}
    <3>1. /\ none \in SUBSET Pairs /\ \A k \in none : k[2] \in none
          /\ dialog' = OpenDialog(none, screen.remove, none, screen.users, role)
      BY <2>1
    <3>2. SyncTypes /\ role' = role
      BY <1>1 DEF SyncInv
    <3>3. \A set : set \subseteq none => set = {}
      OBVIOUS
    <3> HIDE DEF none
    <3> QED
      BY <2>2, <3>1, <3>2, <3>3, NewDialog
  <2>4. SyncTypes'
    BY <1>1, <2>1, <2>3, NoScreenIsRight DEF SyncInv, SyncTypes
  <2>5. ScreenRight' /\ CalmRight'
    BY <2>1, <2>3, NoScreenIsRight DEF ScreenRight, CalmRight, Torn
  <2> QED
    BY <1>2, <2>3, <2>4, <2>5 DEF SyncInv
<1> QED
  BY <1>3, <1>4

\* Who may be added has entered, and is missing.
LEMMA AddSide ==
    ASSUME NEW g, NEW users \in SUBSET People, NEW k \in buildAddSide(g, users)
    PROVE  k \in Pairs /\ k[2] \in users /\ role[k] = "NONE"
<1>1. PICK p \in Covered(g) : k \in {p} \X (users \cap missingUserIds(g, p))
  BY DEF buildAddSide
<1>2. p \in SyncProjects
  BY DEF Covered
<1>3. k = <<p, k[2]>> /\ k[2] \in users /\ role[<<p, k[2]>>] = "NONE"
  BY <1>1 DEF missingUserIds
<1> QED
  BY <1>2, <1>3 DEF Pairs

LEMMA EnteredKeeps == ASSUME SyncInv, Entered PROVE SyncInv' /\ WordKept
<1> DEFINE add == buildAddSide(screen.group, screen.users)
<1>1. /\ dialog.open = FALSE /\ UNCHANGED <<role, meddling, belongs>> /\ foreign' = {}
      /\ screen.step = "entered" /\ IsScreen(screen)
      /\ screen' = NoScreen /\ listed' = belongs
      /\ dialog' = OpenDialog(add, screen.remove, screen.users, DOMAIN screen.moving, role)
  BY DEF Entered, SyncInv, SyncTypes, ScreenRight, IsDialog
<1>2. WordKept
  BY <1>1 DEF WordKept
<1>3. /\ screen.users \in SUBSET People /\ screen.remove \in SUBSET Pairs
      /\ \A k \in screen.remove : k[2] \in DOMAIN screen.moving
  BY <1>1 DEF IsScreen, SyncInv, ScreenRight
<1>4. \A k \in add : k \in Pairs /\ k[2] \in screen.users /\ role[k] = "NONE"
  BY <1>3, AddSide
<1> HIDE DEF add
<1>5. /\ IsDialog(dialog)' /\ (~dialog.open => dialog = NoDialog)' /\ LoopRight'
      /\ dialog'.add \subseteq add /\ dialog'.remove \subseteq screen.remove
  <2>1. add \in SUBSET Pairs /\ \A k \in add : k[2] \in screen.users
    BY <1>4
  <2> DEFINE left == DOMAIN screen.moving
  <2>2. /\ \A k \in screen.remove : k[2] \in left
        /\ dialog' = OpenDialog(add, screen.remove, screen.users, left, role)
    BY <1>1, <1>3
  <2>3. SyncTypes /\ role' = role
    BY <1>1 DEF SyncInv
  <2> HIDE DEF left
  <2> QED
    BY <1>3, <2>1, <2>2, <2>3, NewDialog
<1>6. SyncTypes'
  BY <1>1, <1>5, NoScreenIsRight DEF SyncInv, SyncTypes
<1>7. ScreenRight' /\ CalmRight'
  BY <1>1, <1>4, <1>5, NoScreenIsRight
  DEF ScreenRight, CalmRight, Undisturbed, Torn, SyncInv
<1> QED
  BY <1>2, <1>5, <1>6, <1>7 DEF SyncInv

-------------------------------------------------------------------------------
(* The loop of requests                                                    *)

\* Steps that leave the server and what is offered alone.
LEMMA PageStays ==
    ASSUME SyncInv, dialog.open, dialog'.open = TRUE, IsDialog(dialog'),
           dialog'.add = dialog.add, dialog'.remove = dialog.remove,
           UNCHANGED <<belongs, listed, role, screen, meddling, foreign>>
    PROVE  SyncTypes' /\ ScreenRight' /\ CalmRight'
<1>1. SyncTypes'
  BY DEF SyncInv, SyncTypes, IsScreen
<1> QED
  BY <1>1 DEF SyncInv, ScreenRight, CalmRight, Undisturbed, Torn

LEMMA ToggleKeeps ==
    ASSUME SyncInv, NEW side, NEW p, Toggle(side, p) PROVE SyncInv' /\ WordKept
<1>1. IsDialog(dialog) /\ dialog.open /\ UNCHANGED <<belongs, listed, role, screen, meddling, foreign>>
  BY DEF Toggle, Calm, SyncInv, SyncTypes
<1>2. /\ IsDialog(dialog') /\ dialog'.open = TRUE /\ dialog'.add = dialog.add
      /\ dialog'.remove = dialog.remove /\ dialog'.doneAdd = dialog.doneAdd
      /\ dialog'.donePair = dialog.donePair /\ dialog'.busy = dialog.busy
      /\ dialog'.todo = dialog.todo /\ dialog'.denied = dialog.denied
      /\ dialog'.asked = dialog.asked /\ dialog'.promise = dialog.promise
      /\ dialog'.before = dialog.before /\ dialog'.entered = dialog.entered
      /\ dialog'.left = dialog.left
  BY <1>1 DEF Toggle, IsDialog
<1>3. LoopRight'
  BY <1>1, <1>2
  DEF SyncInv, LoopRight, OffersRight, IsAdd, IsRemove, PairsOf, NotYet, Explained, Asked,
      DoneRight, Torn, PromiseRight, IsServed
<1> QED
  BY <1>1, <1>2, <1>3, PageStays, WordStays DEF SyncInv, IsDialog

LEMMA CancelKeeps == ASSUME SyncInv, Cancel PROVE SyncInv' /\ WordKept
<1>1. /\ IsDialog(dialog) /\ dialog.open /\ ~dialog.busy /\ dialog' = NoDialog
      /\ UNCHANGED <<belongs, listed, role, screen, meddling, foreign>>
  BY DEF Cancel, Calm, SyncInv, SyncTypes
<1>2. NothingTwice /\ ClosesWhenDone
  BY <1>1 DEF NothingTwice, ClosesWhenDone
<1>3. WordKept
  BY <1>1, <1>2, WordFollows DEF SyncInv, LoopRight, Explained
<1>4. LoopRight'
  BY <1>1, NoDialogIsRight
  DEF LoopRight, OffersRight, NotYet, Explained, DoneRight, PromiseRight, Torn
<1>5. SyncTypes'
  BY <1>1, NoDialogIsRight DEF SyncInv, SyncTypes, IsScreen
<1>6. ScreenRight' /\ CalmRight'
  BY <1>1, NoDialogIsRight DEF SyncInv, ScreenRight, CalmRight, Undisturbed, Torn
<1> QED
  BY <1>3, <1>4, <1>5, <1>6 DEF SyncInv

LEMMA TickedIsOffered ==
    ASSUME SyncTypes, NEW r \in WhatIsTicked(dialog)
    PROVE  IsAdd(r) \/ IsRemove(r)
<1>1. CASE \E p \in dialog.toAdd :
              r = <<"add", p, {pair[2] : pair \in {q \in dialog.add : q[1] = p}}>>
  <2>1. PICK p \in dialog.toAdd :
               r = <<"add", p, {pair[2] : pair \in {q \in dialog.add : q[1] = p}}>>
    BY <1>1
  <2>2. dialog.add \subseteq Pairs
    BY DEF SyncTypes, IsDialog
  <2>3. ASSUME NEW k PROVE k \in PairsOf(r) <=> k \in dialog.add /\ k[1] = p
    BY <2>1, <2>2 DEF PairsOf, Pairs
  <2> QED
    BY <2>1, <2>3 DEF IsAdd
<1>2. CASE \E pair \in dialog.remove : r = <<"remove", pair[1], {pair[2]}>>
  BY <1>2 DEF IsRemove
<1> QED
  BY <1>1, <1>2 DEF WhatIsTicked

\* The only pair of a request to remove.
LEMMA RemovesOne ==
    ASSUME SyncTypes, NEW r, IsRemove(r)
    PROVE  \E k \in dialog.remove : /\ k \in Pairs /\ PairsOf(r) = {k}
                                    /\ r = <<"remove", k[1], {k[2]}>>
<1>1. PICK k \in dialog.remove : r = <<"remove", k[1], {k[2]}>>
  BY DEF IsRemove
<1>2. k \in Pairs
  BY DEF SyncTypes, IsDialog
<1>3. PairsOf(r) = {<<k[1], k[2]>>}
  BY <1>1 DEF PairsOf
<1> QED
  BY <1>1, <1>2, <1>3 DEF Pairs

LEMMA ConfirmKeeps == ASSUME SyncInv, Confirm PROVE SyncInv' /\ WordKept
<1> DEFINE marked == WhatIsTicked(dialog)
           remaining == WhatIsLeft(dialog)
<1>1. /\ IsDialog(dialog) /\ dialog.open /\ ~dialog.busy
      /\ UNCHANGED <<belongs, listed, role, screen, meddling, foreign>>
  BY DEF Confirm, Calm, SyncInv, SyncTypes
<1>2. dialog' = [dialog EXCEPT !.busy = TRUE, !.todo = remaining, !.denied = {},
                               !.asked = @ \cup marked, !.promise = marked]
  BY DEF Confirm
<1>3. \A r \in marked : IsAdd(r) \/ IsRemove(r)
  BY TickedIsOffered DEF SyncInv
<1>4. /\ remaining \subseteq marked
      /\ \A r \in marked : \/ r \in remaining
                           \/ r[1] = "add" /\ r[2] \in dialog.doneAdd
                           \/ r[1] = "remove" /\ \E u \in r[3] : <<r[2], u>> \in dialog.donePair
      /\ \A r \in remaining :
            /\ r[1] = "add" => r[2] \notin dialog.doneAdd
            /\ r[1] = "remove" => \A u \in r[3] : <<r[2], u>> \notin dialog.donePair
  BY <1>3 DEF WhatIsLeft, IsAdd, IsRemove
<1> HIDE DEF marked, remaining
<1>5. /\ IsDialog(dialog') /\ dialog'.open = TRUE /\ dialog'.add = dialog.add
      /\ dialog'.remove = dialog.remove /\ dialog'.doneAdd = dialog.doneAdd
      /\ dialog'.donePair = dialog.donePair /\ dialog'.busy = TRUE
      /\ dialog'.todo = remaining /\ dialog'.denied = {}
      /\ dialog'.asked = dialog.asked \cup marked /\ dialog'.promise = marked
      /\ dialog'.before = dialog.before /\ dialog'.entered = dialog.entered
      /\ dialog'.left = dialog.left
  BY <1>1, <1>2 DEF IsDialog
<1>6. OffersRight'
  BY <1>3, <1>4, <1>5 DEF SyncInv, LoopRight, OffersRight, IsAdd, IsRemove, PairsOf
<1>7. NotYet'
  BY <1>4, <1>5 DEF NotYet, PairsOf
<1>8. Explained' /\ DoneRight'
  BY <1>1, <1>5 DEF SyncInv, LoopRight, Explained, Asked, PairsOf, DoneRight, Torn
<1>9. PromiseRight'
  <2> SUFFICES ASSUME NEW r \in marked, r \notin remaining PROVE IsServed(r)'
    BY <1>5 DEF PromiseRight
  <2>1. CASE IsAdd(r)
    BY <1>1, <1>4, <1>5, <2>1
    DEF IsServed, IsAdd, SyncInv, LoopRight, DoneRight, Torn, SyncTypes, IsDialog, PairsOf
  <2>2. CASE IsRemove(r)
    <3>1. PICK k \in dialog.remove : /\ k \in Pairs /\ PairsOf(r) = {k}
                                     /\ r = <<"remove", k[1], {k[2]}>>
      BY <2>2, RemovesOne DEF SyncInv
    <3>2. k \in dialog.donePair
      <4>1. r[1] = "remove" /\ r[2] = k[1] /\ r[3] = {k[2]}
        BY <3>1
      <4>2. <<k[1], k[2]>> \in dialog.donePair
        BY <1>4, <4>1
      <4> QED
        BY <3>1, <4>2 DEF Pairs
    <3>3. k \notin foreign \cup Torn => role[k] = "NONE"
      BY <3>1, <3>2 DEF SyncInv, LoopRight, DoneRight
    <3> QED
      BY <1>1, <1>5, <3>1, <3>3 DEF IsServed, PairsOf, Torn
  <2> QED
    BY <1>3, <2>1, <2>2
<1> QED
  BY <1>1, <1>5, <1>6, <1>7, <1>8, <1>9, PageStays, WordStays DEF SyncInv, LoopRight, IsDialog

LEMMA WhatRequestsDo ==
    ASSUME SyncTypes, NEW r, IsAdd(r) \/ IsRemove(r)
    PROVE  /\ Effect(r) \in [Pairs -> {"NONE", "MEMBER", "MANAGER"}]
           /\ \A k \in Pairs \ PairsOf(r) : Effect(r)[k] = role[k]
           /\ IsAdd(r) => /\ PairsOf(r) \subseteq dialog.add /\ r[1] = "add"
                          /\ \A k \in PairsOf(r) : Effect(r)[k] =
                                IF role[k] = "NONE" THEN "MEMBER" ELSE role[k]
           /\ IsRemove(r) => /\ PairsOf(r) \subseteq dialog.remove /\ r[1] = "remove"
                             /\ \A k \in PairsOf(r) : Effect(r)[k] = "NONE"
<1>1. dialog.add \subseteq Pairs /\ dialog.remove \subseteq Pairs
  BY DEF SyncTypes, IsDialog
<1>2. IsAdd(r) => PairsOf(r) \subseteq dialog.add /\ r[1] = "add"
  BY DEF IsAdd
<1>3. IsRemove(r) => PairsOf(r) \subseteq dialog.remove /\ r[1] = "remove"
  BY RemovesOne DEF IsRemove
<1>4. PairsOf(r) \subseteq Pairs
  BY <1>1, <1>2, <1>3
<1>5. \A k \in Pairs : Effect(r)[k] = IF k \notin PairsOf(r) THEN role[k]
                                      ELSE IF r[1] = "remove" THEN "NONE"
                                      ELSE IF role[k] = "NONE" THEN "MEMBER" ELSE role[k]
  BY DEF Effect
<1>6. Effect(r) \in [Pairs -> {"NONE", "MEMBER", "MANAGER"}]
  BY DEF Effect, SyncTypes
<1> QED
  BY <1>1, <1>2, <1>3, <1>4, <1>5, <1>6

\* A request of the loop, whatever the page hears of it.
LEMMA RequestIsRight ==
    ASSUME SyncInv, NEW r \in dialog.todo, dialog.busy, role' = Effect(r), UNCHANGED foreign,
           dialog'.add = dialog.add, dialog'.remove = dialog.remove
    PROVE  /\ role' \in [Pairs -> {"NONE", "MEMBER", "MANAGER"}]
           /\ \A k \in Pairs \ foreign' : role'[k] # dialog.before[k] => Asked(k, role'[k])
           /\ \A k \in Pairs \ (foreign \cup Torn) :
                 /\ k \in dialog.add /\ k[1] \in dialog.doneAdd => role'[k] # "NONE"
                 /\ k \in dialog.donePair => role'[k] = "NONE"
                 /\ k \in PairsOf(r) => (role'[k] = "NONE") = (r[1] = "remove")
           /\ NothingTwice
           /\ \A q \in dialog.promise : q = r \/ IsServed(q) => IsServed(q)'
<1>1. r \in dialog.asked /\ dialog.open /\ (IsAdd(r) \/ IsRemove(r))
  <2>1. dialog.open
    BY NoDialogIsRight DEF SyncInv, ScreenRight
  <2> QED
    BY <2>1 DEF SyncInv, LoopRight, OffersRight
<1>2. /\ role' \in [Pairs -> {"NONE", "MEMBER", "MANAGER"}]
      /\ \A k \in Pairs \ PairsOf(r) : role'[k] = role[k]
      /\ IsAdd(r) => /\ PairsOf(r) \subseteq dialog.add /\ r[1] = "add"
                     /\ \A k \in PairsOf(r) : role'[k] =
                           IF role[k] = "NONE" THEN "MEMBER" ELSE role[k]
      /\ IsRemove(r) => /\ PairsOf(r) \subseteq dialog.remove /\ r[1] = "remove"
                        /\ \A k \in PairsOf(r) : role'[k] = "NONE"
  BY <1>1, WhatRequestsDo DEF SyncInv
<1>3. ASSUME NEW k \in Pairs \ foreign', role'[k] # dialog.before[k] PROVE Asked(k, role'[k])
  <2>1. CASE role'[k] = role[k]
    BY <1>1, <1>3, <2>1 DEF SyncInv, LoopRight, Explained
  <2>2. CASE role'[k] # role[k]
    BY <1>1, <1>2, <2>2 DEF Asked
  <2> QED
    BY <2>1, <2>2
<1>4. /\ \A k \in dialog.donePair : k \in dialog.remove
      /\ r[1] = "add" => r[2] \notin dialog.doneAdd
      /\ r[1] = "remove" => PairsOf(r) \cap dialog.donePair = {}
  BY DEF SyncInv, LoopRight, OffersRight, NotYet
<1>5. ASSUME NEW k \in Pairs \ (foreign \cup Torn)
      PROVE  /\ k \in dialog.add /\ k[1] \in dialog.doneAdd => role'[k] # "NONE"
             /\ k \in dialog.donePair => role'[k] = "NONE"
             /\ k \in PairsOf(r) => (role'[k] = "NONE") = (r[1] = "remove")
  <2>1. /\ k \in dialog.add /\ k[1] \in dialog.doneAdd => role[k] # "NONE"
        /\ k \in dialog.donePair => role[k] = "NONE"
        /\ ~(k \in dialog.add /\ k \in dialog.remove)
    BY <1>5 DEF SyncInv, LoopRight, DoneRight, Torn
  <2>2. CASE IsAdd(r)
    BY <1>2, <1>4, <1>5, <2>1, <2>2
  <2>3. CASE IsRemove(r)
    BY <1>2, <1>4, <1>5, <2>1, <2>3
  <2> QED
    BY <1>1, <2>2, <2>3
<1>6. ASSUME NEW k \in Pairs \ Torn, role'[k] # role[k]
      PROVE  k \notin dialog.donePair /\ (role[k] = "NONE" => k[1] \notin dialog.doneAdd)
  <2>1. k \in PairsOf(r)
    BY <1>2, <1>6
  <2>2. CASE IsAdd(r)
    BY <1>2, <1>4, <1>6, <2>1, <2>2 DEF IsAdd, Torn
  <2>3. CASE IsRemove(r)
    BY <1>2, <1>4, <1>6, <2>1, <2>3
  <2> QED
    BY <1>1, <2>2, <2>3
<1>7. ASSUME NEW q \in dialog.promise, q = r \/ IsServed(q) PROVE IsServed(q)'
  <2>1. PairsOf(q)' = PairsOf(q) /\ Torn' = Torn
    BY DEF PairsOf, Torn
  <2>2. IsAdd(q) \/ IsRemove(q)
    BY DEF SyncInv, LoopRight, OffersRight
  <2>3. /\ IsAdd(q) => PairsOf(q) \subseteq dialog.add /\ q[1] = "add"
        /\ IsRemove(q) => PairsOf(q) \subseteq dialog.remove /\ q[1] = "remove"
        /\ dialog.add \subseteq Pairs /\ dialog.remove \subseteq Pairs
    BY <2>2, WhatRequestsDo DEF SyncInv, SyncTypes, IsDialog
  <2> SUFFICES ASSUME NEW k \in PairsOf(q) \ (foreign \cup Torn)
               PROVE  (role'[k] = "NONE") = (q[1] = "remove")
    BY <2>1 DEF IsServed
  <2>4. k \in Pairs /\ ~(k \in dialog.add /\ k \in dialog.remove)
    BY <2>2, <2>3 DEF Torn
  <2>5. CASE q = r
    BY <1>5, <2>4, <2>5
  <2>6. CASE IsServed(q)
    <3>1. (role[k] = "NONE") = (q[1] = "remove")
      BY <2>6 DEF IsServed
    <3>2. CASE k \notin PairsOf(r)
      BY <1>2, <2>4, <3>1, <3>2
    <3>3. CASE k \in PairsOf(r) /\ IsAdd(r)
      BY <1>2, <2>2, <2>3, <2>4, <3>1, <3>3
    <3>4. CASE k \in PairsOf(r) /\ IsRemove(r)
      BY <1>2, <2>2, <2>3, <2>4, <3>1, <3>4
    <3> QED
      BY <1>1, <3>2, <3>3, <3>4
  <2> QED
    BY <1>7, <2>5, <2>6
<1> QED
  BY <1>2, <1>3, <1>5, <1>6, <1>7 DEF NothingTwice

LEMMA SuccessKeeps ==
    ASSUME SyncInv, NEW r \in dialog.todo, RequestSucceeds(r)
    PROVE  SyncInv' /\ WordKept
<1>1. /\ IsDialog(dialog) /\ dialog.busy /\ role' = Effect(r)
      /\ UNCHANGED <<belongs, listed, screen, meddling, foreign>>
  BY DEF RequestSucceeds, Calm, SyncInv, SyncTypes
<1>2. r \in dialog.asked /\ dialog.open /\ (IsAdd(r) \/ IsRemove(r))
  <2>1. dialog.open
    BY <1>1, NoDialogIsRight DEF SyncInv, ScreenRight
  <2> QED
    BY <2>1 DEF SyncInv, LoopRight, OffersRight
<1>3. /\ PairsOf(r) \in SUBSET Pairs
      /\ IsAdd(r) => r[1] = "add"
      /\ IsRemove(r) => r[1] = "remove" /\ PairsOf(r) \subseteq dialog.remove
  BY <1>1, <1>2, WhatRequestsDo DEF SyncInv, IsDialog
<1>4. /\ dialog'.open = TRUE /\ dialog'.add = dialog.add
      /\ dialog'.remove = dialog.remove /\ dialog'.busy = TRUE
      /\ dialog'.doneAdd = dialog.doneAdd \cup IF r[1] = "add" THEN {r[2]} ELSE {}
      /\ dialog'.donePair = dialog.donePair \cup IF r[1] = "remove" THEN PairsOf(r) ELSE {}
      /\ dialog'.todo = dialog.todo \ {r} /\ dialog'.denied = dialog.denied
      /\ dialog'.asked = dialog.asked /\ dialog'.promise = dialog.promise
      /\ dialog'.before = dialog.before /\ dialog'.entered = dialog.entered
      /\ dialog'.left = dialog.left
      /\ IsDialog(dialog')
  BY <1>1, <1>2, <1>3 DEF RequestSucceeds, IsDialog
<1>5. /\ role' \in [Pairs -> {"NONE", "MEMBER", "MANAGER"}]
      /\ \A k \in Pairs \ foreign' : role'[k] # dialog.before[k] => Asked(k, role'[k])
      /\ \A k \in Pairs \ (foreign \cup Torn) :
            /\ k \in dialog.add /\ k[1] \in dialog.doneAdd => role'[k] # "NONE"
            /\ k \in dialog.donePair => role'[k] = "NONE"
            /\ k \in PairsOf(r) => (role'[k] = "NONE") = (r[1] = "remove")
      /\ NothingTwice
      /\ \A q \in dialog.promise : q = r \/ IsServed(q) => IsServed(q)'
  BY <1>1, <1>4, RequestIsRight
<1>6. WordKept
  BY <1>2, <1>4, <1>5, WordFollows DEF ClosesWhenDone
<1>7. OffersRight'
  BY <1>2, <1>3, <1>4 DEF SyncInv, LoopRight, OffersRight, IsAdd, IsRemove, PairsOf
<1>8. Explained'
  BY <1>1, <1>4, <1>5 DEF Explained, Asked, PairsOf
<1>9. ASSUME NEW q \in dialog'.todo
      PROVE  /\ q[1] = "add" => q[2] \notin dialog'.doneAdd
             /\ q[1] = "remove" => PairsOf(q) \cap dialog'.donePair = {}
  <2>1. /\ q \in dialog.todo /\ q # r
        /\ q[1] = "add" => q[2] \notin dialog.doneAdd
        /\ q[1] = "remove" => PairsOf(q) \cap dialog.donePair = {}
        /\ IsAdd(q) \/ IsRemove(q)
    BY <1>4 DEF SyncInv, LoopRight, NotYet, OffersRight
  <2>2. ASSUME IsRemove(q), IsRemove(r) PROVE PairsOf(q) \cap PairsOf(r) = {}
    <3>1. PICK k \in dialog.remove : /\ k \in Pairs /\ PairsOf(q) = {k}
                                     /\ q = <<"remove", k[1], {k[2]}>>
      BY <2>2, RemovesOne DEF SyncInv
    <3>2. PICK l \in dialog.remove : /\ l \in Pairs /\ PairsOf(r) = {l}
                                     /\ r = <<"remove", l[1], {l[2]}>>
      BY <2>2, RemovesOne DEF SyncInv
    <3> QED
      BY <2>1, <3>1, <3>2
  <2>3. ASSUME IsAdd(q), IsAdd(r) PROVE q[2] # r[2]
    BY <2>1, <2>3 DEF IsAdd
  <2> QED
    BY <1>2, <1>3, <1>4, <2>1, <2>2, <2>3 DEF IsAdd, IsRemove
<1>10. NotYet'
  BY <1>9 DEF NotYet, PairsOf
<1>11. DoneRight'
  <2> SUFFICES ASSUME NEW k \in Pairs \ (foreign \cup Torn)
               PROVE  /\ k \in dialog.add /\ k[1] \in dialog'.doneAdd => role'[k] # "NONE"
                      /\ k \in dialog'.donePair => role'[k] = "NONE"
    BY <1>1, <1>4 DEF DoneRight, Torn
  <2> QED
    BY <1>2, <1>3, <1>4, <1>5 DEF IsAdd
<1>12. PromiseRight'
  <2> SUFFICES ASSUME NEW q \in dialog.promise, q \notin dialog'.todo, q \notin dialog.denied
               PROVE  IsServed(q)'
    BY <1>4 DEF PromiseRight
  <2>1. q = r \/ IsServed(q)
    BY <1>1, <1>4 DEF SyncInv, LoopRight, PromiseRight
  <2> QED
    BY <1>5, <2>1
<1>13. SyncTypes' /\ ScreenRight'
  BY <1>1, <1>2, <1>4, <1>5 DEF SyncInv, SyncTypes, ScreenRight, IsScreen
<1>14. CalmRight'
  BY <1>1, <1>2, <1>4 DEF SyncInv, ScreenRight, CalmRight, Undisturbed, Torn
<1> QED
  BY <1>6, <1>7, <1>8, <1>10, <1>11, <1>12, <1>13, <1>14 DEF SyncInv, LoopRight

LEMMA DenyKeeps ==
    ASSUME SyncInv, NEW r \in dialog.todo, Deny(r)
    PROVE  SyncInv' /\ WordKept
<1>1. /\ IsDialog(dialog) /\ dialog.busy
      /\ UNCHANGED <<belongs, listed, role, screen, foreign>>
      /\ meddling' \in [changes : Nat, writes : Nat, mishaps : Nat]
      /\ meddling'.writes = meddling.writes
      /\ meddling'.mishaps = 0 => meddling.mishaps = 0
      /\ dialog' = [dialog EXCEPT !.todo = @ \ {r}, !.denied = @ \cup {r}]
  BY DEF Deny, SyncInv, SyncTypes
<1>2. dialog.open
  BY <1>1, NoDialogIsRight DEF SyncInv, ScreenRight
<1>3. /\ dialog'.open = TRUE /\ dialog'.add = dialog.add
      /\ dialog'.remove = dialog.remove /\ dialog'.doneAdd = dialog.doneAdd
      /\ dialog'.donePair = dialog.donePair /\ dialog'.busy = TRUE
      /\ dialog'.todo = dialog.todo \ {r} /\ dialog'.denied = dialog.denied \cup {r}
      /\ dialog'.asked = dialog.asked /\ dialog'.promise = dialog.promise
      /\ dialog'.before = dialog.before /\ dialog'.entered = dialog.entered
      /\ dialog'.left = dialog.left /\ IsDialog(dialog')
  BY <1>1, <1>2 DEF IsDialog
<1>4. OffersRight' /\ NotYet' /\ Explained' /\ DoneRight'
  BY <1>1, <1>2, <1>3
  DEF SyncInv, LoopRight, OffersRight, IsAdd, IsRemove, PairsOf, NotYet, Explained, Asked,
      DoneRight, Torn
<1>5. PromiseRight'
  BY <1>1, <1>3 DEF SyncInv, LoopRight, PromiseRight, IsServed, PairsOf, Torn
<1>6. SyncTypes' /\ ScreenRight' /\ CalmRight'
  BY <1>1, <1>2, <1>3
  DEF SyncInv, SyncTypes, IsScreen, ScreenRight, CalmRight, Undisturbed, Torn
<1>7. WordKept
  BY <1>1, <1>2, <1>3, WordStays
<1> QED
  BY <1>4, <1>5, <1>6, <1>7 DEF SyncInv, LoopRight

\* The loop is over, and the dialog stays.
LEMMA DeselectedIsRight ==
    ASSUME SyncInv, dialog.open, dialog' = Deselected(dialog),
           UNCHANGED <<belongs, listed, screen, foreign>>,
           role' \in [Pairs -> {"NONE", "MEMBER", "MANAGER"}],
           meddling' \in [changes : Nat, writes : Nat, mishaps : Nat],
           Undisturbed' => Undisturbed,
           \A k \in Pairs \ foreign' : role'[k] # dialog.before[k] => Asked(k, role'[k]),
           \A k \in Pairs \ (foreign \cup Torn) :
              /\ k \in dialog.add /\ k[1] \in dialog.doneAdd => role'[k] # "NONE"
              /\ k \in dialog.donePair => role'[k] = "NONE"
    PROVE  SyncInv' /\ dialog'.open = TRUE
<1>1. IsDialog(dialog)
  BY DEF SyncInv, SyncTypes
<1>2. /\ dialog'.open = TRUE /\ dialog'.add = dialog.add
      /\ dialog'.remove = dialog.remove /\ dialog'.doneAdd = dialog.doneAdd
      /\ dialog'.donePair = dialog.donePair /\ dialog'.busy = FALSE
      /\ dialog'.todo = {} /\ dialog'.asked = dialog.asked
      /\ dialog'.promise = dialog.promise
      /\ dialog'.before = dialog.before /\ dialog'.entered = dialog.entered
      /\ dialog'.left = dialog.left /\ IsDialog(dialog')
  BY <1>1 DEF IsDialog, Deselected
<1>3. OffersRight' /\ NotYet' /\ PromiseRight'
  BY <1>2
  DEF SyncInv, LoopRight, OffersRight, IsAdd, IsRemove, PairsOf, NotYet, PromiseRight
<1>4. Explained' /\ DoneRight'
  BY <1>2 DEF Explained, Asked, PairsOf, DoneRight, Torn
<1>5. SyncTypes'
  BY <1>2 DEF SyncInv, SyncTypes, IsScreen
<1>6. ScreenRight' /\ CalmRight'
  BY <1>2 DEF SyncInv, ScreenRight, CalmRight, Undisturbed, Torn
<1> QED
  BY <1>2, <1>3, <1>4, <1>5, <1>6 DEF SyncInv, LoopRight

LEMMA BreakKeeps ==
    ASSUME SyncInv, NEW r \in dialog.todo, Break(r)
    PROVE  SyncInv' /\ WordKept
<1>1. /\ IsDialog(dialog) /\ dialog.busy /\ dialog' = Deselected(dialog)
      /\ UNCHANGED <<belongs, listed, screen, foreign>>
      /\ role' = role \/ role' = Effect(r)
      /\ meddling' \in [changes : Nat, writes : Nat, mishaps : Nat]
      /\ meddling'.mishaps # 0
  BY DEF Break, SyncInv, SyncTypes
<1>2. dialog.open
  BY <1>1, NoDialogIsRight DEF SyncInv, ScreenRight
<1>3. dialog'.add = dialog.add /\ dialog'.remove = dialog.remove
  BY <1>1 DEF IsDialog, Deselected
<1>4. /\ role' \in [Pairs -> {"NONE", "MEMBER", "MANAGER"}]
      /\ \A k \in Pairs \ foreign' : role'[k] # dialog.before[k] => Asked(k, role'[k])
      /\ \A k \in Pairs \ (foreign \cup Torn) :
            /\ k \in dialog.add /\ k[1] \in dialog.doneAdd => role'[k] # "NONE"
            /\ k \in dialog.donePair => role'[k] = "NONE"
      /\ NothingTwice
  <2>1. CASE role' = role
    BY <1>1, <1>2, <2>1
    DEF SyncInv, SyncTypes, LoopRight, Explained, DoneRight, NothingTwice
  <2>2. CASE role' = Effect(r)
    BY <1>1, <1>3, <2>2, RequestIsRight
  <2> QED
    BY <1>1, <2>1, <2>2
<1>5. SyncInv' /\ dialog'.open = TRUE
  BY <1>1, <1>2, <1>4, DeselectedIsRight DEF Undisturbed
<1>6. WordKept
  BY <1>2, <1>4, <1>5, WordFollows DEF ClosesWhenDone
<1> QED
  BY <1>5, <1>6

LEMMA FinishKeeps == ASSUME SyncInv, Finish PROVE SyncInv' /\ WordKept
<1>1. /\ dialog.busy /\ dialog.todo = {}
      /\ UNCHANGED <<belongs, listed, role, screen, meddling, foreign>>
  BY DEF Finish, Calm
<1>2. dialog.open
  BY <1>1, NoDialogIsRight DEF SyncInv, ScreenRight
<1>3. CASE dialog.denied = {}
  <2>1. dialog' = NoDialog
    BY <1>3 DEF Finish
  <2>2. NothingTwice /\ ClosesWhenDone
    BY <1>1, <1>3 DEF NothingTwice, ClosesWhenDone, SyncInv, LoopRight, PromiseRight
  <2>3. WordKept
    BY <1>1, <1>2, <2>2, WordFollows DEF SyncInv, LoopRight, Explained
  <2>4. LoopRight'
    BY <1>1, <2>1, NoDialogIsRight
    DEF LoopRight, OffersRight, NotYet, Explained, DoneRight, PromiseRight, Torn
  <2>5. SyncTypes' /\ ScreenRight'
    BY <1>1, <1>2, <2>1, NoDialogIsRight DEF SyncInv, SyncTypes, ScreenRight, IsScreen
  <2>6. CalmRight'
    BY <1>1, <1>2, <2>1, NoDialogIsRight
    DEF SyncInv, ScreenRight, CalmRight, Undisturbed, Torn
  <2> QED
    BY <2>3, <2>4, <2>5, <2>6 DEF SyncInv
<1>4. CASE dialog.denied # {}
  <2>1. dialog' = Deselected(dialog)
    BY <1>4 DEF Finish
  <2>2. /\ role' \in [Pairs -> {"NONE", "MEMBER", "MANAGER"}]
        /\ meddling' \in [changes : Nat, writes : Nat, mishaps : Nat]
        /\ Undisturbed' => Undisturbed
        /\ \A k \in Pairs \ foreign' : role'[k] # dialog.before[k] => Asked(k, role'[k])
        /\ \A k \in Pairs \ (foreign \cup Torn) :
              /\ k \in dialog.add /\ k[1] \in dialog.doneAdd => role'[k] # "NONE"
              /\ k \in dialog.donePair => role'[k] = "NONE"
    BY <1>1, <1>2 DEF SyncInv, SyncTypes, LoopRight, Explained, DoneRight, Undisturbed
  <2>3. SyncInv' /\ dialog'.open = TRUE
    BY <1>1, <1>2, <2>1, <2>2, DeselectedIsRight
  <2> QED
    BY <1>1, <1>2, <2>3, WordStays
<1> QED
  BY <1>3, <1>4

LEMMA MeddleKeeps == ASSUME SyncInv, Meddle PROVE SyncInv' /\ WordKept
<1>1. /\ UNCHANGED <<listed, screen, dialog>>
      /\ meddling' \in [changes : Nat, writes : Nat, mishaps : Nat]
      /\ meddling'.writes # meddling.writes /\ meddling'.writes # 0
  BY DEF Meddle, SyncInv, SyncTypes
<1>2. /\ foreign \subseteq foreign'
      /\ \A k \in Pairs \ foreign' : role'[k] = role[k]
      /\ role' \in [Pairs -> {"NONE", "MEMBER", "MANAGER"}]
      /\ belongs' \in [People -> DOMAIN Within \cup {NoGroup}]
  BY DEF Meddle, SyncInv, SyncTypes
<1>3. SyncTypes' /\ ScreenRight' /\ CalmRight'
  BY <1>1, <1>2
  DEF SyncInv, SyncTypes, IsDialog, IsScreen, ScreenRight, CalmRight, Undisturbed
<1>4. OffersRight' /\ NotYet'
  BY <1>1 DEF SyncInv, LoopRight, OffersRight, IsAdd, IsRemove, PairsOf, NotYet
<1>5. Explained' /\ DoneRight'
  BY <1>1, <1>2 DEF SyncInv, LoopRight, Explained, Asked, PairsOf, DoneRight, Torn
<1>6. PromiseRight'
  <2> SUFFICES ASSUME dialog.busy, NEW q \in dialog.promise, IsServed(q)
               PROVE  IsServed(q)'
    BY <1>1 DEF SyncInv, LoopRight, PromiseRight
  <2>1. PairsOf(q) \subseteq Pairs
    <3>1. IsAdd(q) \/ IsRemove(q)
      BY DEF SyncInv, LoopRight, OffersRight
    <3> QED
      BY <3>1, WhatRequestsDo DEF SyncInv, SyncTypes, IsDialog
  <2> QED
    BY <1>1, <1>2, <2>1 DEF IsServed, PairsOf, Torn
<1>7. WordKept
  <2> SUFFICES ASSUME dialog.open PROVE WordKept
    BY DEF WordKept
  <2>1. NothingTwice /\ ClosesWhenDone
    BY <1>1 DEF NothingTwice, ClosesWhenDone
  <2>2. \A k \in Pairs \ foreign' : role'[k] # dialog.before[k] => Asked(k, role'[k])
    BY <1>2 DEF SyncInv, LoopRight, Explained
  <2> QED
    BY <2>1, <2>2, WordFollows
<1> QED
  BY <1>3, <1>4, <1>5, <1>6, <1>7 DEF SyncInv, LoopRight

LEMMA SyncBegins ==
    ASSUME NEW groups \in [People -> DOMAIN Within \cup {NoGroup}],
           NEW roles \in [Pairs -> {"NONE", "MEMBER", "MANAGER"}], SyncInit(groups, roles)
    PROVE  SyncInv
<1>1. SyncTypes
  BY NoDialogIsRight, NoScreenIsRight DEF SyncInit, SyncTypes
<1>2. ScreenRight /\ CalmRight
  BY NoDialogIsRight, NoScreenIsRight DEF SyncInit, ScreenRight, CalmRight, Torn
<1>3. LoopRight
  BY NoDialogIsRight
  DEF SyncInit, LoopRight, OffersRight, NotYet, Explained, DoneRight, PromiseRight, Torn
<1> QED
  BY <1>1, <1>2, <1>3 DEF SyncInv

LEMMA SyncStepKeeps == ASSUME SyncInv, SyncNext PROVE SyncInv' /\ WordKept
BY AddMembersKeeps, MoveUserKeeps, RelistKeeps, AnswerKeeps, SurveyKeeps, AnnotateKeeps,
   GiveUpKeeps, ChangeKeeps, EnteredKeeps, ToggleKeeps, CancelKeeps, ConfirmKeeps,
   SuccessKeeps, DenyKeeps, BreakKeeps, FinishKeeps, MeddleKeeps DEF SyncNext

(***************************************************************************)
(* The dialog about the projects of a group changes only what was ticked,  *)
(* of people who have just entered or left one, does nothing twice, and    *)
(* closes by itself only when all of it is done (GroupProjectSyncDialog,   *)
(* groupSync.ts): for any groups, people, projects and number of requests  *)
(* that fail and writes of others.                                         *)
(***************************************************************************)
THEOREM ProjectsFollowTheBoxes == SyncSpec => SyncKeepsItsWord
<1>1. SyncInv /\ [SyncNext]_syncVars => SyncInv'
  <2>1. ASSUME SyncInv, UNCHANGED syncVars PROVE SyncInv'
    <3>1. LoopRight'
      BY <2>1, LoopStays DEF syncVars, SyncInv
    <3> QED
      BY <2>1, <3>1 DEF syncVars, SyncInv, SyncTypes, IsScreen, IsDialog, ScreenRight,
                        CalmRight, Undisturbed, Torn
  <2> QED
    BY <2>1, SyncStepKeeps
<1>2. SyncInv /\ [SyncNext]_syncVars => [WordKept]_syncVars
  BY SyncStepKeeps
<1>3. (\E groups \in [People -> DOMAIN Within \cup {NoGroup}],
          roles \in [Pairs -> {"NONE", "MEMBER", "MANAGER"}] : SyncInit(groups, roles)) => SyncInv
  BY SyncBegins
<1> QED
  BY <1>1, <1>2, <1>3, PTL DEF SyncSpec, SyncKeepsItsWord

-------------------------------------------------------------------------------
(* The chart                                                               *)

ChartSpec == ChartInit /\ [][ChartNext]_chartVars

\* A record of the chart, and one of what is to come.
IsChart(c) ==
    /\ c = [items |-> c.items, project |-> c.project, collapsed |-> c.collapsed, ppd |-> c.ppd,
            unit |-> c.unit, hasFit |-> c.hasFit, tick |-> c.tick]
    /\ c.ppd \in Int /\ c.hasFit \in BOOLEAN /\ c.tick \in {0, 1}

IsView(v) ==
    /\ v = [next |-> v.next, left |-> v.left, reveal |-> v.reveal, unit |-> v.unit,
            scroll |-> v.scroll]
    /\ IsChart(v.next)

\* What the handlers and the effects leave alone: the list, the last tick, the fit.
KeepsRows(v, w) ==
    /\ w.next.items = v.next.items /\ w.next.project = v.next.project

\* The scale that is to come has its position, and only that one waits; the unit
\* is one that the chart has told.
ScaleRight(v) ==
    /\ v.left = Nowhere <=> v.next.ppd = chart.ppd
    /\ v.left # Nowhere => v.left.ppd = v.next.ppd
    /\ v.scroll.ppd = chart.ppd
    /\ v.next.unit = v.unit

\* What was revealed stays: nothing that is to come moves it.
StaysRevealed(v) ==
    revealed # Nowhere =>
        /\ v.left = Nowhere /\ v.scroll = Position("row", revealed, chart.ppd)
        /\ chart.hasFit /\ v.next.items = chart.items
        /\ v.next.collapsed \subseteq chart.collapsed
        /\ revealed \in DrawnRows

\* A row that is still due has not been looked for, or waits where it is not drawn.
DueRight(v, p) ==
    p.wanted = Nowhere /\ p.answer = "due" =>
        /\ v.reveal # Nowhere /\ v.next.hasFit
        /\ v.next.tick # chart.tick \/ v.reveal \notin DrawnRows

ChartInv ==
    /\ IsChart(chart) /\ IsView(view) /\ effects \in BOOLEAN
    /\ page = [wanted |-> page.wanted, answer |-> page.answer]
    /\ chart.hasFit => view.next.hasFit
    /\ effects => chart.unit = view.unit
    /\ HasChart /\ ~effects => view.unit = activeUnit(chart.ppd) /\ page.wanted = Nowhere
    /\ chosen = view.next.ppd
    /\ ScaleRight(view) /\ StaysRevealed(view) /\ DueRight(view, page)

LEMMA ChartInvShows == ChartInv => ChartIsAsAsked
<1> SUFFICES ASSUME ChartInv PROVE ChartIsAsAsked
  OBVIOUS
<1>1. RevealedIsShown
  BY DEF ChartInv, RevealedIsShown, StaysRevealed
<1>2. WantedIsAnswered
  BY DEF ChartInv, WantedIsAnswered, Settled, DueRight
<1>3. ScaleIsAsChosen
  BY DEF ChartInv, ScaleIsAsChosen, Settled, ScaleRight
<1> QED
  BY <1>1, <1>2, <1>3 DEF ChartIsAsAsked

LEMMA ChartBegins == ChartInit => ChartInv
<1> SUFFICES ASSUME ChartInit PROVE ChartInv
  OBVIOUS
<1>1. IsChart(chart) /\ chart.unit = "week" /\ chart.ppd = PPD["week"]
  BY ChartAssumption DEF ChartInit, IsChart
<1>2. IsView(view) /\ view.next = chart /\ view.left = Nowhere /\ view.unit = "week"
      /\ view.scroll = Position("start", Nowhere, PPD["week"])
  BY <1>1 DEF ChartInit, IsView
<1>3. page = [wanted |-> page.wanted, answer |-> page.answer]
      /\ (page.wanted = Nowhere => page.answer = "none")
  BY ChartAssumption DEF ChartInit
<1>4. effects = TRUE /\ chosen = PPD["week"] /\ revealed = Nowhere
  BY DEF ChartInit
<1> QED
  BY <1>1, <1>2, <1>3, <1>4 DEF ChartInv, ScaleRight, StaysRevealed, DueRight, Position

\* Another scale comes with its position.
LEMMA ScaleToFacts ==
    ASSUME NEW v, IsView(v), NEW ppd \in Int, NEW position
    PROVE  LET w == ScaleTo(v, ppd, position) IN
           /\ IsView(w) /\ KeepsRows(v, w) /\ w.left = position /\ w.next.ppd = ppd
           /\ w.reveal = v.reveal /\ w.unit = v.unit /\ w.scroll = v.scroll
           /\ w.next.unit = v.next.unit /\ w.next.hasFit = v.next.hasFit
           /\ w.next.tick = v.next.tick /\ w.next.collapsed = v.next.collapsed
<1> DEFINE n == [items |-> v.next.items, project |-> v.next.project,
                 collapsed |-> v.next.collapsed, ppd |-> ppd, unit |-> v.next.unit,
                 hasFit |-> v.next.hasFit, tick |-> v.next.tick]
<1>1. [v.next EXCEPT !.ppd = ppd] = n
  BY DEF IsView, IsChart
<1>2. ScaleTo(v, ppd, position) = [next |-> n, left |-> position, reveal |-> v.reveal,
                                   unit |-> v.unit, scroll |-> v.scroll]
  <2>1. ScaleTo(v, ppd, position)
          = [v EXCEPT !.next = [v.next EXCEPT !.ppd = ppd], !.left = position]
    BY Zenon DEF ScaleTo
  <2>2. ScaleTo(v, ppd, position) = [v EXCEPT !.next = n, !.left = position]
    BY <1>1, <2>1, Zenon
  <2> HIDE DEF n
  <2> QED
    BY <2>2 DEF IsView
<1> QED
  BY <1>2 DEF IsView, IsChart, KeepsRows

LEMMA FoldedFacts ==
    ASSUME NEW v, IsView(v), NEW folded
    PROVE  LET w == [v EXCEPT !.next.collapsed = folded] IN
           /\ IsView(w) /\ w.left = v.left /\ w.reveal = v.reveal /\ w.unit = v.unit
           /\ w.scroll = v.scroll /\ w.next.ppd = v.next.ppd /\ w.next.unit = v.next.unit
           /\ w.next.hasFit = v.next.hasFit /\ w.next.tick = v.next.tick
<1> DEFINE n == [items |-> v.next.items, project |-> v.next.project,
                 collapsed |-> folded, ppd |-> v.next.ppd, unit |-> v.next.unit,
                 hasFit |-> v.next.hasFit, tick |-> v.next.tick]
           w == [v EXCEPT !.next.collapsed = folded]
<1>1. [v.next EXCEPT !.collapsed = folded] = n
  BY DEF IsView, IsChart
<1>2. w = [v EXCEPT !.next = [v.next EXCEPT !.collapsed = folded]]
  BY Zenon
<1>3. w = [v EXCEPT !.next = n]
  BY <1>1, <1>2, Zenon
<1>4. IsChart(n) /\ n.ppd = v.next.ppd /\ n.unit = v.next.unit /\ n.hasFit = v.next.hasFit
      /\ n.tick = v.next.tick
  BY DEF IsView, IsChart
<1> HIDE DEF n, w
<1>5. w = [next |-> n, left |-> v.left, reveal |-> v.reveal, unit |-> v.unit,
           scroll |-> v.scroll]
  BY <1>3 DEF IsView
<1> QED
  BY <1>4, <1>5 DEF IsView, w

LEMMA OpenedFacts ==
    ASSUME NEW c, IsChart(c), NEW folded, NEW tick
    PROVE  [c EXCEPT !.collapsed = folded, !.tick = tick]
             = [items |-> c.items, project |-> c.project, collapsed |-> folded, ppd |-> c.ppd,
                unit |-> c.unit, hasFit |-> c.hasFit, tick |-> tick]
<1>1. [c EXCEPT !.collapsed = folded]
        = [items |-> c.items, project |-> c.project, collapsed |-> folded, ppd |-> c.ppd,
           unit |-> c.unit, hasFit |-> c.hasFit, tick |-> c.tick]
  BY DEF IsChart
<1>2. [c EXCEPT !.collapsed = folded, !.tick = tick]
        = [[c EXCEPT !.collapsed = folded] EXCEPT !.tick = tick]
  BY Zenon
<1> DEFINE d == [c EXCEPT !.collapsed = folded]
<1> HIDE DEF d
<1>3. d = [items |-> c.items, project |-> c.project, collapsed |-> folded, ppd |-> c.ppd,
           unit |-> c.unit, hasFit |-> c.hasFit, tick |-> c.tick]
  BY <1>1 DEF d
<1>4. [d EXCEPT !.tick = tick]
        = [items |-> c.items, project |-> c.project, collapsed |-> folded, ppd |-> c.ppd,
           unit |-> c.unit, hasFit |-> c.hasFit, tick |-> tick]
  BY <1>3
<1> QED
  BY <1>2, <1>4, Zenon DEF d

LEMMA RevealNodeFacts ==
    ASSUME NEW v, IsView(v), NEW r, IsChart(chart)
    PROVE  LET w == revealNode(v, r) IN
           /\ IsView(w) /\ KeepsRows(v, w) /\ w.left = v.left /\ w.reveal = r
           /\ w.unit = v.unit /\ w.scroll = v.scroll
           /\ w.next.ppd = v.next.ppd /\ w.next.unit = v.next.unit
           /\ w.next.hasFit = v.next.hasFit /\ w.next.tick # chart.tick
           /\ w.next.collapsed \subseteq v.next.collapsed
<1> DEFINE folded == v.next.collapsed \ ChainOf(r)
           tick == 1 - chart.tick
           n == [items |-> v.next.items, project |-> v.next.project,
                 collapsed |-> folded, ppd |-> v.next.ppd, unit |-> v.next.unit,
                 hasFit |-> v.next.hasFit, tick |-> tick]
           w == revealNode(v, r)
<1>1. [v.next EXCEPT !.collapsed = folded, !.tick = tick] = n
  <2> HIDE DEF folded, tick
  <2> QED
    <3>1. IsChart(v.next)
      BY DEF IsView
    <3>2. PICK c : c = v.next
      OBVIOUS
    <3>3. IsChart(c)
      BY <3>1, <3>2
    <3> HIDE DEF n
    <3>4. [c EXCEPT !.collapsed = folded, !.tick = tick]
            = [items |-> c.items, project |-> c.project, collapsed |-> folded, ppd |-> c.ppd,
               unit |-> c.unit, hasFit |-> c.hasFit, tick |-> tick]
      BY <3>3, OpenedFacts
    <3> QED
      BY <3>2, <3>4, Zenon DEF n
<1>2. w = [v EXCEPT !.next = [v.next EXCEPT !.collapsed = folded, !.tick = tick],
                    !.reveal = r]
  BY Zenon DEF revealNode
<1>3. w = [v EXCEPT !.next = n, !.reveal = r]
  BY <1>1, <1>2, Zenon
<1>4. /\ IsChart(n) /\ n.ppd = v.next.ppd /\ n.unit = v.next.unit
      /\ n.hasFit = v.next.hasFit /\ n.tick # chart.tick /\ n.collapsed \subseteq v.next.collapsed
      /\ n.items = v.next.items /\ n.project = v.next.project
  BY DEF IsView, IsChart
<1> HIDE DEF n, w
<1>5. w = [next |-> n, left |-> v.left, reveal |-> r, unit |-> v.unit, scroll |-> v.scroll]
  BY <1>3 DEF IsView
<1> QED
  BY <1>4, <1>5 DEF IsView, KeepsRows, w

LEMMA TellUnitFacts ==
    ASSUME NEW v, IsView(v), v.next.unit = v.unit, chart.unit = v.unit
    PROVE  LET w == SyncUnit(v) IN
           /\ IsView(w) /\ KeepsRows(v, w) /\ w.left = v.left /\ w.reveal = v.reveal
           /\ w.scroll = v.scroll /\ w.next.ppd = v.next.ppd
           /\ w.unit = activeUnit(chart.ppd) /\ w.next.unit = w.unit
           /\ w.next.hasFit = v.next.hasFit /\ w.next.tick = v.next.tick
           /\ w.next.collapsed = v.next.collapsed
<1> DEFINE told == activeUnit(chart.ppd)
           n == [items |-> v.next.items, project |-> v.next.project,
                 collapsed |-> v.next.collapsed, ppd |-> v.next.ppd, unit |-> told,
                 hasFit |-> v.next.hasFit, tick |-> v.next.tick]
<1>1. SyncUnit(v) = TellUnit(v)
  BY DEF SyncUnit, FollowUnit
<1>2. CASE told = v.unit
  BY <1>1, <1>2 DEF TellUnit, KeepsRows
<1>3. CASE told # v.unit
  <2> HIDE DEF told
  <2>1. [v.next EXCEPT !.unit = told] = n
    BY DEF IsView, IsChart
  <2>2. TellUnit(v) = [v EXCEPT !.next = [v.next EXCEPT !.unit = told], !.unit = told]
    BY <1>3, Zenon DEF TellUnit, told
  <2>3. TellUnit(v) = [v EXCEPT !.next = n, !.unit = told]
    BY <2>1, <2>2, Zenon
  <2>4. /\ IsChart(n) /\ n.ppd = v.next.ppd /\ n.unit = told /\ n.hasFit = v.next.hasFit
        /\ n.tick = v.next.tick /\ n.collapsed = v.next.collapsed
        /\ n.items = v.next.items /\ n.project = v.next.project
    BY DEF IsView, IsChart
  <2> HIDE DEF n
  <2>5. TellUnit(v) = [next |-> n, left |-> v.left, reveal |-> v.reveal, unit |-> told,
                       scroll |-> v.scroll]
    BY <2>3 DEF IsView
  <2> QED
    BY <1>1, <2>4, <2>5 DEF IsView, KeepsRows, told
<1> QED
  BY <1>2, <1>3

\* What a handler of the scale may do to what is to come.
Scaled(v, w) ==
    /\ IsView(w) /\ KeepsRows(v, w) /\ w.reveal = v.reveal /\ w.unit = v.unit
    /\ w.next.hasFit = v.next.hasFit /\ w.next.tick = v.next.tick
    /\ w.next.collapsed = v.next.collapsed /\ w.next.unit = v.next.unit /\ ScaleRight(w)

LEMMA ScrollFacts ==
    ASSUME NEW v, IsView(v), ScaleRight(v), NEW what, NEW place
    PROVE  Scaled(v, [v EXCEPT !.scroll = Position(what, place, chart.ppd)])
  BY DEF IsView, KeepsRows, Scaled, ScaleRight, Position

LEMMA PositionFacts ==
    ASSUME NEW what \in {"fit", "centre"}, NEW ppd \in Int
    PROVE  Position(what, Nowhere, ppd) # Nowhere /\ Position(what, Nowhere, ppd).ppd = ppd
  BY ChartAssumption DEF Position

LEMMA ScaleFacts ==
    ASSUME NEW v, IsView(v), ScaleRight(v), NEW ppd \in Int, ppd # chart.ppd,
           NEW what \in {"fit", "centre"}
    PROVE  Scaled(v, ScaleTo(v, ppd, Position(what, Nowhere, ppd)))
<1> DEFINE position == Position(what, Nowhere, ppd)
           w == ScaleTo(v, ppd, position)
<1>1. position # Nowhere /\ position.ppd = ppd
  BY PositionFacts
<1> HIDE DEF position
<1>2. /\ IsView(w) /\ KeepsRows(v, w) /\ w.left = position /\ w.next.ppd = ppd
      /\ w.reveal = v.reveal /\ w.unit = v.unit /\ w.scroll = v.scroll
      /\ w.next.unit = v.next.unit /\ w.next.hasFit = v.next.hasFit
      /\ w.next.tick = v.next.tick /\ w.next.collapsed = v.next.collapsed
  BY ScaleToFacts
<1> HIDE DEF w
<1> QED
  BY <1>1, <1>2 DEF Scaled, ScaleRight, w, position

LEMMA HandlersScale ==
    ASSUME NEW v, IsView(v), ScaleRight(v), IsChart(chart), NEW ppd \in Int
    PROVE  Scaled(v, fitToScreen(v, ppd)) /\ Scaled(v, applyPpd(v, ppd))
<1>1. Scaled(v, v)
  BY DEF Scaled, KeepsRows
<1>2. clampPpd(ppd) \in Int
  BY ChartAssumption DEF clampPpd
<1>3. Scaled(v, fitToScreen(v, ppd))
  BY ScrollFacts, ScaleFacts DEF fitToScreen
<1>4. Scaled(v, applyPpd(v, ppd))
  BY <1>1, <1>2, ScaleFacts DEF applyPpd
<1> QED
  BY <1>3, <1>4

\* Another list, or the project: the rest of what is to come stays.
Listed(v, w) ==
    /\ IsView(w) /\ w.left = v.left /\ w.reveal = v.reveal /\ w.unit = v.unit
    /\ w.scroll = v.scroll /\ w.next.ppd = v.next.ppd /\ w.next.unit = v.next.unit
    /\ w.next.hasFit = v.next.hasFit /\ w.next.tick = v.next.tick
    /\ w.next.collapsed = v.next.collapsed

LEMMA ListedFacts ==
    ASSUME NEW v, IsView(v), NEW n, IsChart(n), n.ppd = v.next.ppd, n.unit = v.next.unit,
           n.hasFit = v.next.hasFit, n.tick = v.next.tick, n.collapsed = v.next.collapsed
    PROVE  LET w == [v EXCEPT !.next = n] IN Listed(v, w) /\ w.next = n
<1> DEFINE w == [v EXCEPT !.next = n]
<1>1. w = [next |-> n, left |-> v.left, reveal |-> v.reveal, unit |-> v.unit,
           scroll |-> v.scroll]
  BY DEF IsView
<1> HIDE DEF w
<1> QED
  BY <1>1 DEF IsView, Listed, w

LEMMA ListComesFacts ==
    ASSUME NEW v, IsView(v), NEW items
    PROVE  Listed(v, [v EXCEPT !.next.items = items])
<1> DEFINE n == [items |-> items, project |-> v.next.project,
                 collapsed |-> v.next.collapsed, ppd |-> v.next.ppd, unit |-> v.next.unit,
                 hasFit |-> v.next.hasFit, tick |-> v.next.tick]
<1>1. [v.next EXCEPT !.items = items] = n
  BY DEF IsView, IsChart
<1>2. [v EXCEPT !.next.items = items] = [v EXCEPT !.next = [v.next EXCEPT !.items = items]]
  BY Zenon
<1>3. [v EXCEPT !.next.items = items] = [v EXCEPT !.next = n]
  BY <1>1, <1>2, Zenon
<1>4. IsChart(n) /\ n.ppd = v.next.ppd /\ n.unit = v.next.unit /\ n.hasFit = v.next.hasFit
      /\ n.tick = v.next.tick /\ n.collapsed = v.next.collapsed
  BY DEF IsView, IsChart
<1> HIDE DEF n
<1>5. Listed(v, [v EXCEPT !.next = n])
  BY <1>4, ListedFacts
<1> QED
  BY <1>3, <1>5, Zenon

LEMMA ProjectComesFacts ==
    ASSUME NEW v, IsView(v), NEW w, w = [v EXCEPT !.next.project = TRUE]
    PROVE  Listed(v, w) /\ w.next.items = v.next.items
<1> DEFINE came == TRUE
           n == [items |-> v.next.items, project |-> came,
                 collapsed |-> v.next.collapsed, ppd |-> v.next.ppd, unit |-> v.next.unit,
                 hasFit |-> v.next.hasFit, tick |-> v.next.tick]
<1>1. [v.next EXCEPT !.project = came] = n
  <2> HIDE DEF came
  <2> QED
    BY DEF IsView, IsChart
<1>2. w = [v EXCEPT !.next = [v.next EXCEPT !.project = came]]
  BY Zenon
<1>3. w = [v EXCEPT !.next = n]
  BY <1>1, <1>2, Zenon
<1> HIDE DEF came
<1>4. IsChart(n) /\ n.ppd = v.next.ppd /\ n.unit = v.next.unit /\ n.hasFit = v.next.hasFit
      /\ n.tick = v.next.tick /\ n.collapsed = v.next.collapsed /\ n.items = v.next.items
  BY DEF IsView, IsChart
<1> HIDE DEF n
<1>5. Listed(v, [v EXCEPT !.next = n]) /\ [v EXCEPT !.next = n].next = n
  BY <1>4, ListedFacts
<1> QED
  BY <1>3, <1>4, <1>5

\* What the user does: whatever was revealed may move.
LEMMA ActKeeps ==
    ASSUME ChartInv, NEW v, IsView(v), ScaleRight(v), v.reveal = view.reveal,
           v.unit = view.unit, v.next.hasFit = view.next.hasFit,
           v.next.tick = view.next.tick, Act(v)
    PROVE  ChartInv'
<1>1. /\ view' = v /\ chosen' = v.next.ppd /\ revealed' = Nowhere
      /\ UNCHANGED <<chart, effects, page>>
  BY DEF Act
<1>2. IsChart(chart)' /\ IsView(view)' /\ ScaleRight(view)' /\ HasChart' = HasChart
      /\ DrawnRows' = DrawnRows
  BY <1>1 DEF ChartInv, IsView, IsChart, ScaleRight, HasChart, DrawnRows, ItemsOf
<1>3. StaysRevealed(view)'
  BY <1>1 DEF StaysRevealed
<1>4. DueRight(view, page)'
  BY <1>1, <1>2 DEF ChartInv, DueRight
<1> QED
  BY <1>1, <1>2, <1>3, <1>4 DEF ChartInv

LEMMA UserKeeps ==
    ASSUME ChartInv,
           \/ \E ppd \in Scales : setZoomPercent(ppd) \/ Fit(ppd)
           \/ \E zoomIn \in BOOLEAN : handleZoom(zoomIn)
           \/ ScrollByHand \/ scrollToToday \/ collapseAll \/ expandAll
           \/ \E r \in ItemsOf(chart) : toggleCollapse(r)
    PROVE  ChartInv'
<1>1. IsView(view) /\ ScaleRight(view) /\ IsChart(chart)
  BY DEF ChartInv
<1>2. \A v : Scaled(view, v) /\ Act(v) => ChartInv'
  BY ActKeeps DEF Scaled
<1>3. ASSUME NEW ppd \in Int PROVE Scaled(view, fitToScreen(view, ppd))
                                   /\ Scaled(view, applyPpd(view, ppd))
  BY <1>1, HandlersScale
<1>4. CASE \E ppd \in Scales : setZoomPercent(ppd) \/ Fit(ppd)
  BY <1>2, <1>3, <1>4, ChartAssumption DEF setZoomPercent, Fit
<1>5. CASE \E zoomIn \in BOOLEAN : handleZoom(zoomIn)
  <2>1. PICK zoomIn \in BOOLEAN : Act(applyPpd(view, zoomPpd(chart.ppd, zoomIn)))
    BY <1>5 DEF handleZoom
  <2>2. chart.ppd \in Int
    BY <1>1 DEF IsChart
  <2>3. zoomPpd(chart.ppd, zoomIn) \in Int
    BY <2>2, ChartAssumption DEF zoomPpd, clampPpd
  <2> QED
    BY <1>2, <1>3, <2>1, <2>3
<1>6. CASE ScrollByHand \/ scrollToToday
  BY <1>1, <1>2, <1>6, ScrollFacts DEF ScrollByHand, scrollToToday
<1>7. \A folded : Act([view EXCEPT !.next.collapsed = folded]) => ChartInv'
  <2> SUFFICES ASSUME NEW folded, Act([view EXCEPT !.next.collapsed = folded]) PROVE ChartInv'
    OBVIOUS
  <2> DEFINE v == [view EXCEPT !.next.collapsed = folded]
  <2>1. /\ IsView(v) /\ v.left = view.left /\ v.reveal = view.reveal /\ v.unit = view.unit
        /\ v.scroll = view.scroll /\ v.next.ppd = view.next.ppd /\ v.next.unit = view.next.unit
        /\ v.next.hasFit = view.next.hasFit /\ v.next.tick = view.next.tick
    BY <1>1, FoldedFacts
  <2>2. Act(v)
    OBVIOUS
  <2> HIDE DEF v
  <2>3. ScaleRight(v)
    BY <1>1, <2>1 DEF ScaleRight
  <2> QED
    BY <2>1, <2>2, <2>3, ActKeeps
<1>8. CASE collapseAll \/ expandAll
  BY <1>7, <1>8, Zenon DEF collapseAll, expandAll
<1>9. CASE \E r \in ItemsOf(chart) : toggleCollapse(r)
  BY <1>7, <1>9, Zenon DEF toggleCollapse
<1> QED
  BY <1>4, <1>5, <1>6, <1>8, <1>9

LEMMA ListsKeep ==
    ASSUME ChartInv, ProjectComes \/ \E items \in Lists : ListComes(items)
    PROVE  ChartInv'
<1>1. IsView(view)
  BY DEF ChartInv
<1>2. /\ Listed(view, view') /\ UNCHANGED <<chart, effects, page, chosen>>
      /\ \/ revealed' = Nowhere
         \/ revealed' = revealed /\ view'.next.items = view.next.items
  <2>1. CASE ProjectComes
    BY <1>1, <2>1, ProjectComesFacts DEF ProjectComes
  <2>2. CASE \E items \in Lists : ListComes(items)
    BY <1>1, <2>2, ListComesFacts DEF ListComes
  <2> QED
    BY <2>1, <2>2
<1>3. IsChart(chart)' /\ IsView(view)' /\ ScaleRight(view)' /\ HasChart' = HasChart
      /\ DrawnRows' = DrawnRows
  BY <1>2 DEF ChartInv, IsView, IsChart, ScaleRight, HasChart, DrawnRows, ItemsOf, Listed
<1>4. StaysRevealed(view)'
  BY <1>2, <1>3 DEF ChartInv, StaysRevealed, Listed
<1>5. DueRight(view, page)'
  BY <1>2, <1>3 DEF ChartInv, DueRight, Listed
<1> QED
  BY <1>2, <1>3, <1>4, <1>5 DEF ChartInv, Listed

\* What is drawn is what was to come, and the position is applied with it.
LEMMA LayoutFacts ==
    ASSUME ChartInv
    PROVE  LET w == LayoutEffects(view) IN
           /\ IsView(w) /\ w.next = view.next /\ w.left = Nowhere /\ w.unit = view.unit
           /\ MayReveal(view) =>
                w.scroll = Position("row", view.reveal, view.next.ppd)
           /\ ~MayReveal(view) =>
                /\ w.reveal = view.reveal /\ w.scroll.ppd = view.next.ppd
                /\ view.left = Nowhere => w.scroll = view.scroll
<1> DEFINE a == ApplyScroll(view)
<1>1. IsView(view) /\ ScaleRight(view)
  BY DEF ChartInv
<1>2. /\ IsView(a) /\ a.next = view.next /\ a.left = Nowhere /\ a.unit = view.unit
      /\ a.reveal = view.reveal /\ a.scroll.ppd = view.next.ppd
      /\ view.left = Nowhere => a.scroll = view.scroll
  <2>1. CASE view.left = Nowhere
    BY <1>1, <2>1 DEF ApplyScroll, ScaleRight
  <2>2. CASE view.left # Nowhere
    <3>1. a = [view EXCEPT !.scroll = view.left, !.left = Nowhere]
      BY <1>1, <2>2 DEF ApplyScroll, ScaleRight
    <3>2. a = [next |-> view.next, left |-> Nowhere, reveal |-> view.reveal,
               unit |-> view.unit, scroll |-> view.left]
      BY <1>1, <3>1 DEF IsView
    <3> HIDE DEF a
    <3> QED
      BY <1>1, <2>2, <3>2 DEF IsView, ScaleRight
  <2> QED
    BY <2>1, <2>2
<1> HIDE DEF a
<1>3. MayReveal(a) = MayReveal(view)
  BY <1>2 DEF MayReveal
<1>4. LayoutEffects(view) = Reveal(a)
  BY DEF LayoutEffects, a
<1>5. CASE MayReveal(view)
  <2>1. Reveal(a) = [a EXCEPT !.scroll = Position("row", a.reveal, a.next.ppd),
                              !.reveal = Nowhere]
    BY <1>3, <1>5 DEF Reveal
  <2>2. Reveal(a) = [next |-> a.next, left |-> a.left, reveal |-> Nowhere, unit |-> a.unit,
                     scroll |-> Position("row", a.reveal, a.next.ppd)]
    BY <1>2, <2>1 DEF IsView
  <2> QED
    BY <1>2, <1>4, <1>5, <2>2 DEF IsView
<1>6. CASE ~MayReveal(view)
  <2>1. Reveal(a) = a
    BY <1>3, <1>6 DEF Reveal
  <2> QED
    BY <1>2, <1>4, <1>6, <2>1
<1> QED
  BY <1>5, <1>6

LEMMA CommitKeepsChart == ASSUME ChartInv, Commit PROVE ChartInv'
<1>1. /\ chart' = view.next /\ view' = LayoutEffects(view) /\ effects' = TRUE
      /\ chosen' = chosen
      /\ revealed' = IF MayReveal(view) THEN view.reveal ELSE revealed
      /\ page' = IF MayReveal(view) THEN [page EXCEPT !.answer = "shown"] ELSE page
  BY DEF Commit
<1>2. /\ IsView(view') /\ view'.next = view.next /\ view'.left = Nowhere
      /\ view'.unit = view.unit
      /\ MayReveal(view) => view'.scroll = Position("row", view.reveal, view.next.ppd)
      /\ ~MayReveal(view) => /\ view'.reveal = view.reveal
                             /\ view'.scroll.ppd = view.next.ppd
                             /\ view.left = Nowhere => view'.scroll = view.scroll
  BY <1>1, LayoutFacts
<1>3. IsChart(chart') /\ IsView(view') /\ chart'.unit = view'.unit
  BY <1>1, <1>2 DEF ChartInv, IsView, ScaleRight
<1>4. DrawnRows' = flattenRows(ItemsOf(view.next), view.next.collapsed)
  BY <1>1 DEF DrawnRows, flattenRows, ItemsOf
<1>5. ScaleRight(view)'
  <2>1. view'.scroll.ppd = view.next.ppd
    BY <1>2 DEF Position
  <2> QED
    BY <1>1, <1>2, <2>1 DEF ChartInv, ScaleRight
<1>6. StaysRevealed(view)'
  <2>1. CASE MayReveal(view)
    BY <1>1, <1>2, <1>4, <2>1 DEF StaysRevealed, MayReveal
  <2>2. CASE ~MayReveal(view)
    <3> SUFFICES ASSUME revealed # Nowhere PROVE StaysRevealed(view)'
      BY <1>1, <2>2 DEF StaysRevealed
    <3>1. /\ view.left = Nowhere /\ view.scroll = Position("row", revealed, chart.ppd)
          /\ chart.hasFit /\ view.next.items = chart.items /\ revealed \in DrawnRows
          /\ view.next.collapsed \subseteq chart.collapsed
          /\ view.next.ppd = chart.ppd /\ view.next.hasFit
      BY DEF ChartInv, StaysRevealed, ScaleRight
    <3>2. revealed \in DrawnRows'
      BY <1>4, <3>1 DEF DrawnRows, flattenRows, ItemsOf
    <3> QED
      BY <1>1, <1>2, <2>2, <3>1, <3>2 DEF StaysRevealed
  <2> QED
    BY <2>1, <2>2
<1>7. page' = [wanted |-> page'.wanted, answer |-> page'.answer] /\ DueRight(view, page)'
  <2>1. CASE MayReveal(view)
    <3>1. page' = [wanted |-> page.wanted, answer |-> "shown"]
      BY <1>1, <2>1 DEF ChartInv
    <3> QED
      BY <3>1 DEF DueRight
  <2>2. CASE ~MayReveal(view)
    <3>1. page' = page
      BY <1>1, <2>2
    <3>2. ASSUME page.wanted = Nowhere, page.answer = "due" PROVE view.reveal \notin DrawnRows'
      BY <1>4, <2>2, <3>2 DEF ChartInv, DueRight, MayReveal
    <3> QED
      BY <1>2, <2>2, <3>1, <3>2 DEF ChartInv, DueRight
  <2> QED
    BY <2>1, <2>2
<1>8. chosen' = view'.next.ppd /\ (chart'.hasFit => view'.next.hasFit)
  BY <1>1, <1>2 DEF ChartInv
<1> QED
  BY <1>1, <1>3, <1>5, <1>6, <1>7, <1>8 DEF ChartInv

\* The first fit is done.
Fitted(v, w) ==
    /\ IsView(w) /\ KeepsRows(v, w) /\ w.left = v.left /\ w.reveal = v.reveal
    /\ w.unit = v.unit /\ w.scroll = v.scroll /\ w.next.ppd = v.next.ppd
    /\ w.next.unit = v.next.unit /\ w.next.hasFit /\ w.next.tick = v.next.tick
    /\ w.next.collapsed = v.next.collapsed

LEMMA FittedFacts ==
    ASSUME NEW v, IsView(v), NEW w, w = [v EXCEPT !.next.hasFit = TRUE]
    PROVE  Fitted(v, w)
<1> DEFINE fits == TRUE
           n == [items |-> v.next.items, project |-> v.next.project,
                 collapsed |-> v.next.collapsed, ppd |-> v.next.ppd, unit |-> v.next.unit,
                 hasFit |-> fits, tick |-> v.next.tick]
<1>1. [v.next EXCEPT !.hasFit = fits] = n
  <2> HIDE DEF fits
  <2> QED
    BY DEF IsView, IsChart
<1>2. w = [v EXCEPT !.next = [v.next EXCEPT !.hasFit = fits]]
  BY Zenon
<1>3. w = [v EXCEPT !.next = n]
  BY <1>1, <1>2, Zenon
<1>4. fits \in BOOLEAN /\ fits
  OBVIOUS
<1> HIDE DEF fits
<1>5. /\ IsChart(n) /\ n.ppd = v.next.ppd /\ n.unit = v.next.unit /\ n.hasFit = fits
      /\ n.tick = v.next.tick /\ n.collapsed = v.next.collapsed
      /\ n.items = v.next.items /\ n.project = v.next.project
  BY <1>4 DEF IsView, IsChart
<1> HIDE DEF n
<1>6. w = [next |-> n, left |-> v.left, reveal |-> v.reveal, unit |-> v.unit,
           scroll |-> v.scroll]
  BY <1>3 DEF IsView
<1>7. /\ w.next = n /\ w.left = v.left /\ w.reveal = v.reveal /\ w.unit = v.unit
      /\ w.scroll = v.scroll
  BY <1>6
<1>8. IsView(w)
  BY <1>5, <1>6, <1>7 DEF IsView
<1>9. w.next.hasFit
  BY <1>4, <1>5, <1>7
<1> QED
  BY <1>5, <1>7, <1>8, <1>9 DEF Fitted, KeepsRows

\* The effects on the chart: the unit, then the first fit.
LEMMA LoadFacts ==
    ASSUME ChartInv, effects, NEW ppd \in Int
    PROVE  LET m == FitOnLoad(SyncUnit(view), ppd) IN
           /\ IsView(m) /\ KeepsRows(view, m) /\ m.reveal = view.reveal /\ ScaleRight(m)
           /\ m.unit = activeUnit(chart.ppd) /\ m.next.tick = view.next.tick
           /\ m.next.collapsed = view.next.collapsed
           /\ view.next.hasFit \/ ItemsOf(chart) # {} => m.next.hasFit
           /\ m.next.ppd = IF ItemsOf(chart) # {} /\ ~chart.hasFit
                           THEN fitToScreen(view, ppd).next.ppd ELSE view.next.ppd
           /\ chart.hasFit => m.left = view.left /\ m.scroll = view.scroll
<1> DEFINE s == SyncUnit(view)
<1>1. IsView(view) /\ ScaleRight(view) /\ IsChart(chart) /\ chart.unit = view.unit
      /\ (chart.hasFit => view.next.hasFit)
  BY DEF ChartInv
<1>2. /\ IsView(s) /\ KeepsRows(view, s) /\ s.left = view.left /\ s.reveal = view.reveal
      /\ s.scroll = view.scroll /\ s.next.ppd = view.next.ppd
      /\ s.unit = activeUnit(chart.ppd) /\ s.next.unit = s.unit
      /\ s.next.hasFit = view.next.hasFit /\ s.next.tick = view.next.tick
      /\ s.next.collapsed = view.next.collapsed
  BY <1>1, TellUnitFacts DEF ScaleRight
<1> HIDE DEF s
<1>3. ScaleRight(s)
  BY <1>1, <1>2 DEF ScaleRight
<1>4. CASE ItemsOf(chart) = {} \/ chart.hasFit
  <2>1. FitOnLoad(s, ppd) = s
    BY <1>4 DEF FitOnLoad
  <2> QED
    BY <1>1, <1>2, <1>3, <1>4, <2>1 DEF s
<1>5. CASE ItemsOf(chart) # {} /\ ~chart.hasFit
  <2> DEFINE f == fitToScreen(s, ppd)
             m == FitOnLoad(s, ppd)
  <2>1. m = [f EXCEPT !.next.hasFit = TRUE]
    BY <1>5 DEF FitOnLoad
  <2>2. Scaled(s, f)
    BY <1>1, <1>2, <1>3, HandlersScale
  <2>3. f.next.ppd = fitToScreen(view, ppd).next.ppd
    <3>1. CASE ppd = chart.ppd
      <4>1. f.next = s.next /\ fitToScreen(view, ppd).next = view.next
        BY <1>1, <1>2, <3>1 DEF fitToScreen, IsView
      <4> QED
        BY <1>2, <4>1
    <3>2. CASE ppd # chart.ppd
      <4>1. ScaleTo(s, ppd, Position("fit", Nowhere, ppd)).next.ppd = ppd
        BY <1>2, ScaleToFacts
      <4>2. ScaleTo(view, ppd, Position("fit", Nowhere, ppd)).next.ppd = ppd
        BY <1>1, ScaleToFacts
      <4> QED
        BY <3>2, <4>1, <4>2 DEF fitToScreen
    <3> QED
      BY <3>1, <3>2
  <2> HIDE DEF f, m
  <2>4. Fitted(f, m)
    <3>1. IsView(f)
      BY <2>2 DEF Scaled
    <3> QED
      BY <2>1, <3>1, FittedFacts, Zenon
  <2>5. ScaleRight(m)
    BY <2>2, <2>4 DEF Scaled, ScaleRight, Fitted
  <2> QED
    BY <1>2, <1>5, <2>2, <2>3, <2>4, <2>5 DEF Scaled, Fitted, KeepsRows, s, m
<1> QED
  BY <1>4, <1>5

LEMMA EffectsKeep == ASSUME ChartInv, NEW ppd \in Scales, RunEffects(ppd) PROVE ChartInv'
<1> DEFINE m == IF HasChart THEN FitOnLoad(SyncUnit(view), ppd) ELSE view
<1>1. /\ effects /\ effects' = FALSE /\ UNCHANGED <<chart, revealed>>
      /\ view' = TakeWanted(m) /\ page' = AfterWanted
      /\ chosen' = IF HasChart /\ ItemsOf(chart) # {} /\ ~chart.hasFit
                   THEN fitToScreen(view, ppd).next.ppd ELSE chosen
  BY DEF RunEffects
<1>2. ppd \in Int
  BY ChartAssumption
<1>3. /\ IsView(m) /\ m.next.items = view.next.items /\ m.reveal = view.reveal /\ ScaleRight(m)
      /\ HasChart => m.unit = activeUnit(chart.ppd)
      /\ m.next.tick = view.next.tick /\ m.next.collapsed = view.next.collapsed
      /\ view.next.hasFit \/ (HasChart /\ ItemsOf(chart) # {}) => m.next.hasFit
      /\ m.next.ppd = chosen'
      /\ chart.hasFit => m.left = view.left /\ m.scroll = view.scroll
  <2>1. CASE HasChart
    BY <1>1, <1>2, <2>1, LoadFacts DEF ChartInv, KeepsRows
  <2>2. CASE ~HasChart
    BY <1>1, <2>2 DEF ChartInv
  <2> QED
    BY <2>1, <2>2
<1> HIDE DEF m
<1> DEFINE takes == page.wanted # Nowhere /\ HasChart /\ page.wanted \in chart.items
<1>4. /\ IsView(view') /\ view'.next.items = m.next.items /\ view'.left = m.left
      /\ view'.unit = m.unit /\ view'.scroll = m.scroll /\ view'.next.ppd = m.next.ppd
      /\ view'.next.unit = m.next.unit /\ view'.next.hasFit = m.next.hasFit
      /\ view'.next.collapsed \subseteq m.next.collapsed
      /\ takes => view'.reveal = page.wanted /\ view'.next.tick # chart.tick
      /\ ~takes => view'.reveal = m.reveal /\ view'.next.tick = m.next.tick
  <2>1. CASE takes
    <3>1. view' = revealNode(m, page.wanted)
      BY <1>1, <2>1 DEF TakeWanted
    <3> QED
      BY <1>3, <2>1, <3>1, RevealNodeFacts DEF ChartInv, KeepsRows
  <2>2. CASE ~takes
    BY <1>1, <1>3, <2>2 DEF TakeWanted
  <2> QED
    BY <2>1, <2>2
<1>5. IsChart(chart)' /\ HasChart' = HasChart /\ DrawnRows' = DrawnRows
  BY <1>1 DEF ChartInv, IsChart, HasChart, DrawnRows, ItemsOf
<1>6. ScaleRight(view)'
  BY <1>1, <1>3, <1>4 DEF ScaleRight
<1>7. StaysRevealed(view)'
  BY <1>1, <1>3, <1>4, <1>5 DEF ChartInv, StaysRevealed
<1>8. /\ page' = [wanted |-> page'.wanted, answer |-> page'.answer]
      /\ HasChart => page'.wanted = Nowhere
  BY <1>1 DEF ChartInv, AfterWanted, IsThere
<1>9. DueRight(view, page)'
  <2> SUFFICES ASSUME page'.wanted = Nowhere, page'.answer = "due"
               PROVE  /\ view'.reveal # Nowhere /\ view'.next.hasFit
                      /\ view'.next.tick # chart.tick \/ view'.reveal \notin DrawnRows
    BY <1>1, <1>5 DEF DueRight
  <2>1. CASE page.wanted = Nowhere
    <3>1. page' = page /\ ~takes
      BY <1>1, <2>1 DEF AfterWanted
    <3> QED
      BY <1>3, <1>4, <2>1, <3>1 DEF ChartInv, DueRight
  <2>2. CASE page.wanted # Nowhere
    <3>1. HasChart
      BY <1>1, <2>2 DEF AfterWanted, IsThere
    <3>2. page.wanted \in chart.items
      BY <1>1, <2>2, <3>1 DEF AfterWanted, IsThere
    <3>3. ItemsOf(chart) # {}
      BY <3>1, <3>2 DEF ItemsOf, HasChart
    <3> QED
      BY <1>3, <1>4, <2>2, <3>1, <3>2, <3>3
  <2> QED
    BY <2>1, <2>2
<1> QED
  BY <1>1, <1>3, <1>4, <1>5, <1>6, <1>7, <1>8, <1>9 DEF ChartInv

(***************************************************************************)
(* A row that was asked for is brought to its place and stays there or is  *)
(* told missing, and the scale is the one that was wanted last             *)
(* (Timeline.tsx, ganttZoom.ts): for any rows, scales and units, and any   *)
(* number of acts and of lists that arrive.                                *)
(***************************************************************************)
THEOREM ChartsKeepToWhatWasAsked == ChartSpec => []ChartIsAsAsked
<1>1. ChartInit => ChartInv
  BY ChartBegins
<1>2. ChartInv /\ [ChartNext]_chartVars => ChartInv'
  <2> SUFFICES ASSUME ChartInv, [ChartNext]_chartVars PROVE ChartInv'
    OBVIOUS
  <2>1. CASE UNCHANGED chartVars
    BY <2>1 DEF chartVars, ChartInv, IsChart, IsView, HasChart, DrawnRows, ItemsOf, ScaleRight,
                StaysRevealed, DueRight
  <2>2. CASE ChartNext
    BY <2>2, CommitKeepsChart, EffectsKeep, UserKeeps, ListsKeep DEF ChartNext
  <2> QED
    BY <2>1, <2>2
<1>3. ChartInv => ChartIsAsAsked
  BY ChartInvShows
<1> QED
  BY <1>1, <1>2, <1>3, PTL DEF ChartSpec

-------------------------------------------------------------------------------
(* Numbers and finite sets                                                 *)

\* Induction, for a set of numbers.
LEMMA AllNumbers ==
    ASSUME NEW S, 0 \in S, \A n \in Nat : n \in S => n + 1 \in S
    PROVE  Nat \subseteq S
<1> SUFFICES ASSUME Nat \ S # {} PROVE FALSE
  OBVIOUS
<1> DEFINE Others == Nat \ S
<1>1. Others \subseteq Nat /\ Others # {}
  OBVIOUS
<1> HIDE DEF Others
<1>2. PICK n \in Others : \A m \in Others : ~(<<m, n>> \in OpToRel(<, Nat))
  BY <1>1, NatLessThanWellFounded, WFMin
<1> USE DEF Others
<1>3. \A m \in Others : ~(m < n)
  BY <1>2 DEF OpToRel
<1>4. n # 0 /\ n \in Nat
  OBVIOUS
<1>5. n - 1 \in Nat /\ n - 1 < n /\ (n - 1) + 1 = n
  BY <1>4
<1>6. n - 1 \in S
  BY <1>3, <1>5
<1> QED
  BY <1>5, <1>6

\* Induction, for a set of subsets.
LEMMA AllSubsets ==
    ASSUME NEW D, IsFiniteSet(D), NEW W, {} \in W,
           \A S \in SUBSET D : \A x \in D \ S : S \in W => S \cup {x} \in W
    PROVE  SUBSET D \subseteq W
<1> DEFINE Sizes == {k \in Nat : \A S \in SUBSET D : Cardinality(S) = k => S \in W}
<1>0. \A S \in SUBSET D : IsFiniteSet(S) /\ Cardinality(S) \in Nat
  BY FS_Subset, FS_CardinalityType
<1>1. 0 \in Sizes
  <2>1. \A S \in SUBSET D : Cardinality(S) = 0 => S = {}
    BY <1>0, FS_EmptySet
  <2> QED
    BY <2>1
<1>2. \A k \in Nat : k \in Sizes => k + 1 \in Sizes
  <2> SUFFICES ASSUME NEW k \in Nat, k \in Sizes, NEW S \in SUBSET D, Cardinality(S) = k + 1
               PROVE  S \in W
    OBVIOUS
  <2>1. S # {}
    BY FS_EmptySet
  <2>2. PICK x \in S : TRUE
    BY <2>1
  <2>3. Cardinality(S \ {x}) = k
    BY <1>0, <2>2, FS_RemoveElement
  <2>4. S \ {x} \in W /\ S \ {x} \in SUBSET D /\ x \in D \ (S \ {x})
    BY <2>3
  <2>5. (S \ {x}) \cup {x} \in W
    BY <2>4
  <2>6. (S \ {x}) \cup {x} = S
    OBVIOUS
  <2> QED
    BY <2>5, <2>6
<1> HIDE DEF Sizes
<1>3. Nat \subseteq Sizes
  BY <1>1, <1>2, AllNumbers
<1> QED
  BY <1>0, <1>3 DEF Sizes


-------------------------------------------------------------------------------
(* TreeView: what lies below a row, and above it                           *)

\* A list that is a tree, or a part of one: who is there is deeper than the parent.
IsTree(items) ==
    /\ IsFiniteSet(DOMAIN items) /\ NULL \notin DOMAIN items
    /\ \A n \in DOMAIN items : items[n].depth \in Nat
    /\ \A n \in DOMAIN items : items[n].parent \in DOMAIN items =>
          items[items[n].parent].depth < items[n].depth

HangsFrom(items, x, U, m) ==
    items[m].parent = x \/ (items[m].parent \in DOMAIN items /\ items[m].parent \in U)

IsClosed(items, x, U) == \A m \in DOMAIN items : HangsFrom(items, x, U, m) => m \in U

\* The rows below x: the least set that takes its children and theirs.
RowsUnder(items, x) ==
    {m \in DOMAIN items : \A U \in SUBSET DOMAIN items : IsClosed(items, x, U) => m \in U}

LEMMA RowsUnderRule ==
    ASSUME NEW items, NEW x
    PROVE  /\ RowsUnder(items, x) \subseteq DOMAIN items
           /\ \A m \in DOMAIN items : m \in RowsUnder(items, x) <=>
                items[m].parent = x
                  \/ (items[m].parent \in DOMAIN items /\ items[m].parent \in RowsUnder(items, x))
<1> DEFINE D == DOMAIN items
           L == RowsUnder(items, x)
           V == {m \in D : HangsFrom(items, x, L, m)}
<1>1. IsClosed(items, x, L)
  BY DEF IsClosed, HangsFrom, RowsUnder
<1>2. V \subseteq L
  BY <1>1 DEF IsClosed
<1>3. L \subseteq D
  BY DEF RowsUnder
<1>4. IsClosed(items, x, V)
  <2>1. \A m \in D : HangsFrom(items, x, V, m) => HangsFrom(items, x, L, m)
    BY <1>2 DEF HangsFrom
  <2> QED
    BY <2>1 DEF IsClosed
<1>5. V \in SUBSET D
  OBVIOUS
<1>6. L \subseteq V
  <2> HIDE DEF V
  <2> QED
    BY <1>4, <1>5 DEF RowsUnder
<1>7. \A m \in D : m \in L <=> HangsFrom(items, x, L, m)
  BY <1>2, <1>6
<1> QED
  BY <1>3, <1>7 DEF HangsFrom

\* Induction from the top down, and from the leaves up.
LEMMA TreeDownwards ==
    ASSUME NEW items, IsTree(items), NEW W,
           \A m \in DOMAIN items : (items[m].parent \in DOMAIN items => items[m].parent \in W) => m \in W
    PROVE  DOMAIN items \subseteq W
<1> DEFINE K == {k \in Nat : \A m \in DOMAIN items : items[m].depth < k => m \in W}
<1>0. /\ \A n \in DOMAIN items : items[n].depth \in Nat
      /\ \A n \in DOMAIN items : items[n].parent \in DOMAIN items =>
            items[items[n].parent].depth < items[n].depth
  BY DEF IsTree
<1>1. 0 \in K
  BY <1>0
<1>2. \A k \in Nat : k \in K => k + 1 \in K
  <2> SUFFICES ASSUME NEW k \in Nat, k \in K, NEW m \in DOMAIN items, items[m].depth < k + 1 PROVE m \in W
    OBVIOUS
  <2>1. ASSUME items[m].parent \in DOMAIN items PROVE items[m].parent \in W
    <3>1. items[items[m].parent].depth < k
      BY <1>0, <2>1
    <3> QED
      BY <2>1, <3>1
  <2> QED
    BY <2>1
<1> HIDE DEF K
<1>3. Nat \subseteq K
  BY <1>1, <1>2, AllNumbers
<1>4. \A m \in DOMAIN items : items[m].depth + 1 \in K /\ items[m].depth < items[m].depth + 1
  BY <1>0, <1>3
<1> QED
  BY <1>4 DEF K

LEMMA TreeUpwards ==
    ASSUME NEW items, IsTree(items), NEW W,
           \A m \in DOMAIN items : childrenOf(items, m) \subseteq W => m \in W
    PROVE  DOMAIN items \subseteq W
<1> DEFINE D == DOMAIN items
           S == {m \in D : m \notin W}
           T == {T \in SUBSET D : T = {} \/ \E m \in T : \A n \in T : items[n].depth <= items[m].depth}
<1>0. /\ \A n \in D : items[n].depth \in Nat
      /\ \A n \in D : items[n].parent \in D => items[items[n].parent].depth < items[n].depth
      /\ IsFiniteSet(D)
  BY DEF IsTree
<1>1. {} \in T
  OBVIOUS
<1>2. ASSUME NEW A \in SUBSET D, NEW x \in D \ A, A \in T PROVE A \cup {x} \in T
  <2>1. CASE A = {}
    BY <1>0, <2>1
  <2>2. CASE A # {}
    <3>1. PICK m \in A : \A n \in A : items[n].depth <= items[m].depth
      BY <1>2, <2>2
    <3>2. CASE items[x].depth <= items[m].depth
      BY <3>1, <3>2
    <3>3. CASE ~(items[x].depth <= items[m].depth)
      <4>1. \A n \in A \cup {x} : items[n].depth <= items[x].depth
        BY <1>0, <3>1, <3>3
      <4> QED
        BY <4>1
    <3> QED
      BY <3>2, <3>3
  <2> QED
    BY <2>1, <2>2
<1> HIDE DEF T
<1>3. SUBSET D \subseteq T
  BY <1>0, <1>1, <1>2, AllSubsets
<1>4. S \in T
  BY <1>3
<1>5. ASSUME S # {} PROVE FALSE
  <2>1. PICK m \in S : \A n \in S : items[n].depth <= items[m].depth
    BY <1>4, <1>5 DEF T
  <2>2. \A c \in childrenOf(items, m) : c \in W
    <3> TAKE c \in childrenOf(items, m)
    <3>1. c \in D /\ items[c].parent = m
      BY DEF childrenOf
    <3>2. items[m].depth < items[c].depth /\ items[m].depth \in Nat /\ items[c].depth \in Nat
      BY <1>0, <3>1
    <3>3. ~(items[c].depth <= items[m].depth)
      BY <3>2
    <3> QED
      BY <2>1, <3>1, <3>3
  <2>3. m \in W
    BY <2>2
  <2> QED
    BY <2>3
<1> QED
  BY <1>5

LEMMA UnderByChildren ==
    ASSUME NEW items, IsTree(items), NEW x
    PROVE  \A m \in DOMAIN items : m \in RowsUnder(items, x) <=>
              \E c \in childrenOf(items, x) : m = c \/ m \in RowsUnder(items, c)
<1> DEFINE D == DOMAIN items
           W == {m \in D : m \in RowsUnder(items, x) <=>
                    \E c \in childrenOf(items, x) : m = c \/ m \in RowsUnder(items, c)}
<1>1. \A y : \A m \in D : m \in RowsUnder(items, y) <=>
         items[m].parent = y \/ (items[m].parent \in D /\ items[m].parent \in RowsUnder(items, y))
  BY RowsUnderRule
<1>2. \A m \in D : m \in childrenOf(items, x) <=> items[m].parent = x
  BY DEF childrenOf
<1>3. \A c \in childrenOf(items, x) : c \in D
  BY DEF childrenOf
<1>4. ASSUME NEW m \in D, items[m].parent \in D => items[m].parent \in W
      PROVE  m \in W
  <2> DEFINE p == items[m].parent
  <2>1. m \in RowsUnder(items, x) <=> p = x \/ (p \in D /\ p \in RowsUnder(items, x))
    BY <1>1
  <2>2. \A c \in childrenOf(items, x) :
           m \in RowsUnder(items, c) <=> p = c \/ (p \in D /\ p \in RowsUnder(items, c))
    BY <1>1
  <2>3. p \in D => (p \in RowsUnder(items, x) <=>
                       \E c \in childrenOf(items, x) : p = c \/ p \in RowsUnder(items, c))
    BY <1>4
  <2>4. m \in childrenOf(items, x) <=> p = x
    BY <1>2
  <2> HIDE DEF p
  <2>5. m \in RowsUnder(items, x) <=>
           \E c \in childrenOf(items, x) : m = c \/ m \in RowsUnder(items, c)
    BY <1>3, <2>1, <2>2, <2>3, <2>4
  <2> QED
    BY <2>5
<1> HIDE DEF W
<1>5. DOMAIN items \subseteq W
  BY <1>4, TreeDownwards
<1> QED
  BY <1>5 DEF W

\* What goes along with a row.
OwnRows(items, n) == {n} \cup RowsUnder(items, n)

OwnRule(items, t, n) == {n} \cup UNION {t[c] : c \in childrenOf(items, n)}

IsOwnTable(items, node, t) == t = [n \in DOMAIN items \cup {node} |-> OwnRule(items, t, n)]

LEMMA OwnStep ==
    ASSUME NEW items, IsTree(items), NEW t, NEW n,
           \A c \in childrenOf(items, n) : t[c] = OwnRows(items, c)
    PROVE  OwnRule(items, t, n) = OwnRows(items, n)
<1>1. \A m \in DOMAIN items : m \in RowsUnder(items, n) <=>
         \E c \in childrenOf(items, n) : m = c \/ m \in RowsUnder(items, c)
  BY UnderByChildren
<1>2. \A c \in childrenOf(items, n) : c \in DOMAIN items /\ RowsUnder(items, c) \subseteq DOMAIN items
  BY RowsUnderRule DEF childrenOf
<1>3. RowsUnder(items, n) \subseteq DOMAIN items
  BY RowsUnderRule
<1>4. UNION {t[c] : c \in childrenOf(items, n)} = RowsUnder(items, n)
  <2>1. \A m : m \in UNION {t[c] : c \in childrenOf(items, n)} <=>
                 \E c \in childrenOf(items, n) : m \in OwnRows(items, c)
    OBVIOUS
  <2>2. \A c : \A m : m \in OwnRows(items, c) <=> m = c \/ m \in RowsUnder(items, c)
    BY DEF OwnRows
  <2>3. \A m : m \in UNION {t[c] : c \in childrenOf(items, n)} <=> m \in RowsUnder(items, n)
    BY <1>1, <1>2, <1>3, <2>1, <2>2
  <2> QED
    BY <2>3
<1> QED
  BY <1>4 DEF OwnRule, OwnRows

LEMMA DescendantsAre ==
    ASSUME NEW items, IsTree(items), NEW node
    PROVE  descendantIdsOf(items, node) = OwnRows(items, node)
<1> DEFINE D == DOMAIN items
           E == D \cup {node}
           u == [n \in E |-> OwnRows(items, n)]
<1>0. \A n : \A c \in childrenOf(items, n) : c \in D
  BY DEF childrenOf
<1>1. \A n \in E : u[n] = OwnRows(items, n)
  OBVIOUS
<1>2. IsOwnTable(items, node, u)
  <2>1. \A n \in E : OwnRule(items, u, n) = OwnRows(items, n)
    <3> HIDE DEF u
    <3> TAKE n \in E
    <3>1. \A c \in childrenOf(items, n) : u[c] = OwnRows(items, c)
      BY <1>0, <1>1
    <3> QED
      BY <3>1, OwnStep
  <2>2. u = [n \in E |-> OwnRule(items, u, n)]
    BY <2>1
  <2> QED
    BY <2>2 DEF IsOwnTable
<1> HIDE DEF u
<1> DEFINE t == CHOOSE t : IsOwnTable(items, node, t)
           W == {n \in D : t[n] = OwnRows(items, n)}
<1>3. descendantIdsOf(items, node) = t[node]
  BY DEF descendantIdsOf, IsOwnTable, OwnRule
<1>4. IsOwnTable(items, node, t)
  BY <1>2
<1> HIDE DEF t
<1>5. \A n \in E : t[n] = OwnRule(items, t, n)
  BY <1>4 DEF IsOwnTable
<1>6. ASSUME NEW n \in D, \A c \in childrenOf(items, n) : c \in W PROVE n \in W
  <2>1. \A c \in childrenOf(items, n) : t[c] = OwnRows(items, c)
    BY <1>6
  <2>2. OwnRule(items, t, n) = OwnRows(items, n)
    BY <2>1, OwnStep
  <2> QED
    BY <1>5, <2>2
<1> HIDE DEF W
<1>7. D \subseteq W
  BY <1>6, TreeUpwards
<1>8. \A c \in childrenOf(items, node) : t[c] = OwnRows(items, c)
  BY <1>0, <1>7 DEF W
<1>9. OwnRule(items, t, node) = OwnRows(items, node)
  BY <1>8, OwnStep
<1> QED
  BY <1>3, <1>5, <1>9

AboveRule(items, t, n) ==
    IF items[n].parent = NULL THEN {}
    ELSE {items[n].parent} \cup IF items[n].parent \in DOMAIN items THEN t[items[n].parent] ELSE {}

IsAboveTable(items, t) == t = [n \in DOMAIN items |-> AboveRule(items, t, n)]

ParentsIn(items) == {items[n].parent : n \in DOMAIN items} \ {NULL}

RowsAbove(items, n) == {x \in ParentsIn(items) : n \in RowsUnder(items, x)}

LEMMA AboveStep ==
    ASSUME NEW items, IsTree(items), NEW t, NEW n \in DOMAIN items,
           items[n].parent \in DOMAIN items => t[items[n].parent] = RowsAbove(items, items[n].parent)
    PROVE  AboveRule(items, t, n) = RowsAbove(items, n)
<1> DEFINE p == items[n].parent
           D == DOMAIN items
           X == ParentsIn(items)
<1>1. \A x : n \in RowsUnder(items, x) <=> p = x \/ (p \in D /\ p \in RowsUnder(items, x))
  BY RowsUnderRule
<1>2. NULL \notin D /\ NULL \notin X
  BY DEF IsTree, ParentsIn
<1>3. \A x : x \in RowsAbove(items, n) <=> x \in X /\ n \in RowsUnder(items, x)
  BY DEF RowsAbove
<1>4. \A x : x \in RowsAbove(items, p) <=> x \in X /\ p \in RowsUnder(items, x)
  BY DEF RowsAbove
<1>5. p # NULL => p \in X
  BY DEF ParentsIn
<1>6. CASE p = NULL
  <2>1. AboveRule(items, t, n) = {}
    BY <1>6 DEF AboveRule
  <2>2. \A x : x \notin RowsAbove(items, n)
    BY <1>1, <1>2, <1>3, <1>6
  <2> QED
    BY <2>1, <2>2
<1>7. CASE p # NULL /\ p \notin D
  <2>1. AboveRule(items, t, n) = {p}
    BY <1>7 DEF AboveRule
  <2> HIDE DEF p, D, X
  <2>2. \A x : x \in RowsAbove(items, n) <=> x = p
    BY <1>1, <1>3, <1>5, <1>7
  <2> QED
    BY <2>1, <2>2
<1>8. CASE p # NULL /\ p \in D
  <2>1. AboveRule(items, t, n) = {p} \cup RowsAbove(items, p)
    BY <1>8 DEF AboveRule
  <2> HIDE DEF p, D, X
  <2>2. \A x : x \in RowsAbove(items, n) <=> x = p \/ x \in RowsAbove(items, p)
    BY <1>1, <1>3, <1>4, <1>5, <1>8
  <2> QED
    BY <2>1, <2>2
<1> QED
  BY <1>6, <1>7, <1>8

LEMMA AncestorsAre ==
    ASSUME NEW items, IsTree(items), NEW node \in DOMAIN items
    PROVE  AncestorsOf(items, node) = RowsAbove(items, node)
<1> DEFINE D == DOMAIN items
           u == [n \in D |-> RowsAbove(items, n)]
<1>1. \A n \in D : u[n] = RowsAbove(items, n)
  OBVIOUS
<1>2. IsAboveTable(items, u)
  <2>1. \A n \in D : AboveRule(items, u, n) = RowsAbove(items, n)
    <3> HIDE DEF u
    <3> TAKE n \in D
    <3>1. items[n].parent \in D => u[items[n].parent] = RowsAbove(items, items[n].parent)
      BY <1>1
    <3> QED
      BY <3>1, AboveStep
  <2>2. u = [n \in D |-> AboveRule(items, u, n)]
    BY <2>1
  <2> QED
    BY <2>2 DEF IsAboveTable
<1> HIDE DEF u
<1> DEFINE t == CHOOSE t : IsAboveTable(items, t)
           W == {n \in D : t[n] = RowsAbove(items, n)}
<1>3. AncestorsOf(items, node) = t[node]
  BY DEF AncestorsOf, IsAboveTable, AboveRule
<1>4. IsAboveTable(items, t)
  BY <1>2
<1> HIDE DEF t
<1>5. \A n \in D : t[n] = AboveRule(items, t, n)
  BY <1>4 DEF IsAboveTable
<1>6. ASSUME NEW n \in D, items[n].parent \in D => items[n].parent \in W PROVE n \in W
  <2>1. items[n].parent \in D => t[items[n].parent] = RowsAbove(items, items[n].parent)
    BY <1>6
  <2>2. AboveRule(items, t, n) = RowsAbove(items, n)
    BY <2>1, AboveStep
  <2> QED
    BY <1>5, <2>2
<1> HIDE DEF W
<1>7. D \subseteq W
  BY <1>6, TreeDownwards
<1> QED
  BY <1>3, <1>7 DEF W

-------------------------------------------------------------------------------
(* BulkEdit                                                                *)

BulkSpec == BulkInit /\ [][BulkNext]_bulkVars

Versions == [DOMAIN Forest -> Nat]

\* Who is there has its parent there.
IsWhole(v) ==
    \A n \in DOMAIN Forest : v[n] > 0 /\ Forest[n].parent # NULL => v[Forest[n].parent] > 0

\* None of these rows lies below another one.
StandAlone(S) == \A m, n \in S : m \notin RowsUnder(Forest, n)

ListOf == [version : Versions, complete : SUBSET DOMAIN Forest]

Loop == [mode : Modes \cup {"none"}, todo : SUBSET DOMAIN Forest, targets : SUBSET DOMAIN Forest,
         list : ListOf \cup {<<>>}, succeeded : Nat, failed : Nat, skipped : Nat, calm : BOOLEAN]

BulkTyped ==
    /\ version \in Versions /\ hits \in Versions /\ complete \subseteq DOMAIN Forest
    /\ list \in ListOf /\ loop \in Loop
    /\ IsWhole(version) /\ IsWhole(list.version)
    /\ ticked \subseteq DOMAIN Forest

\* What the loop has done and has still to do.
LoopCounts ==
    /\ loop.mode \in Modes
    /\ loop.todo \subseteq loop.targets
    /\ loop.succeeded + loop.failed + loop.skipped + Cardinality(loop.todo) = Cardinality(loop.targets)
    /\ WrittenRows \subseteq loop.targets \ loop.todo
    /\ \A n \in DOMAIN Forest : hits[n] <= 1
    /\ Cardinality(WrittenRows) \in loop.succeeded..(loop.succeeded + loop.failed)

\* As long as nobody writes and nothing is lost, what is still to do can be done.
LoopCalm ==
    loop.calm =>
        /\ loop.failed = 0
        /\ \A n \in loop.todo : /\ version[n] > 0
                                /\ loop.mode # "delete" => version[n] = loop.list.version[n]
        /\ loop.mode = "delete" => StandAlone(loop.targets)

BulkInv == BulkTyped /\ (loop # NoLoop => LoopCounts /\ LoopCalm)

LEMMA ForestIsTree ==
    /\ IsTree(Forest) /\ IsFiniteSet(DOMAIN Forest) /\ DOMAIN Forest \subseteq Nat
    /\ \A n \in DOMAIN Forest : Forest[n].parent # NULL => Forest[n].parent \in DOMAIN Forest
  BY ForestAssumption DEF IsTree

LEMMA HereIsTree ==
    /\ IsTree(ItemsHere) /\ Here \subseteq DOMAIN Forest
    /\ DOMAIN ItemsHere = Here /\ \A n \in Here : ItemsHere[n] = Forest[n]
<1>1. Here \subseteq DOMAIN Forest
  BY DEF Here
<1>2. IsFiniteSet(Here)
  BY <1>1, ForestIsTree, FS_Subset
<1>3. DOMAIN ItemsHere = Here /\ \A n \in Here : ItemsHere[n] = Forest[n]
  BY DEF ItemsHere
<1> QED
  BY <1>1, <1>2, <1>3, ForestIsTree DEF IsTree

\* Below a row that is there the list has all that is there.
LEMMA HereIsWhole ==
    ASSUME IsWhole(list.version), list.version \in Versions, NEW n \in DOMAIN Forest
    PROVE  \A m \in Here : m \in RowsUnder(Forest, n) => m \in RowsUnder(ItemsHere, n)
<1> DEFINE W == {m \in DOMAIN Forest : m \in Here /\ m \in RowsUnder(Forest, n) => m \in RowsUnder(ItemsHere, n)}
<1>1. \A m \in DOMAIN Forest : m \in RowsUnder(Forest, n) <=>
         Forest[m].parent = n \/ (Forest[m].parent \in DOMAIN Forest /\ Forest[m].parent \in RowsUnder(Forest, n))
  BY RowsUnderRule
<1>2. \A m \in Here : m \in RowsUnder(ItemsHere, n) <=>
         Forest[m].parent = n \/ (Forest[m].parent \in Here /\ Forest[m].parent \in RowsUnder(ItemsHere, n))
  BY HereIsTree, RowsUnderRule
<1>3. \A m \in Here : Forest[m].parent \in DOMAIN Forest => Forest[m].parent \in Here
  BY ForestIsTree DEF IsWhole, Here, IsTree
<1>4. ASSUME NEW m \in DOMAIN Forest, Forest[m].parent \in DOMAIN Forest => Forest[m].parent \in W
      PROVE  m \in W
  BY <1>1, <1>2, <1>3, <1>4
<1> HIDE DEF W
<1>5. DOMAIN Forest \subseteq W
  BY <1>4, ForestIsTree, TreeDownwards
<1>6. Here \subseteq DOMAIN Forest
  BY DEF Here
<1> QED
  BY <1>5, <1>6 DEF W

\* No target of a deletion lies below another one.
LEMMA TargetsStandAlone ==
    ASSUME IsWhole(list.version), list.version \in Versions, ticked \subseteq Here
    PROVE  StandAlone(collectDeleteTargets(ItemsHere, ticked))
<1> DEFINE T == collectDeleteTargets(ItemsHere, ticked)
<1>1. T = {n \in ticked : AncestorsOf(ItemsHere, n) \cap ticked = {}}
  BY DEF collectDeleteTargets
<1> HIDE DEF T
<1>2. SUFFICES ASSUME NEW m \in T, NEW n \in T, m \in RowsUnder(Forest, n) PROVE FALSE
  BY DEF StandAlone, T
<1>3. m \in ticked /\ n \in ticked /\ m \in Here /\ n \in Here
  BY <1>1, <1>2
<1>4. m \in RowsUnder(ItemsHere, n)
  BY <1>2, <1>3, HereIsTree, HereIsWhole
<1>5. n \notin AncestorsOf(ItemsHere, m)
  BY <1>1, <1>3
<1>6. AncestorsOf(ItemsHere, m) = RowsAbove(ItemsHere, m)
  BY <1>3, HereIsTree, AncestorsAre
<1>7. n \in ParentsIn(ItemsHere)
  <2> DEFINE W == {k \in Here : k \in RowsUnder(ItemsHere, n) => n \in ParentsIn(ItemsHere)}
  <2>1. \A k \in Here : k \in RowsUnder(ItemsHere, n) <=>
           ItemsHere[k].parent = n \/ (ItemsHere[k].parent \in Here /\ ItemsHere[k].parent \in RowsUnder(ItemsHere, n))
    BY HereIsTree, RowsUnderRule
  <2>2. n # NULL
    BY <1>3, HereIsTree DEF IsTree
  <2>3. \A k \in Here : ItemsHere[k].parent = n => n \in ParentsIn(ItemsHere)
    BY <2>2, HereIsTree DEF ParentsIn
  <2>4. ASSUME NEW k \in Here, ItemsHere[k].parent \in Here => ItemsHere[k].parent \in W PROVE k \in W
    BY <2>1, <2>3, <2>4
  <2> HIDE DEF W
  <2>5. Here \subseteq W
    BY <2>4, HereIsTree, TreeDownwards
  <2> QED
    BY <1>3, <1>4, <2>5 DEF W
<1> QED
  BY <1>4, <1>5, <1>6, <1>7 DEF RowsAbove

\* What a row takes along: below a row that is gone nothing is left.
LEMMA OwnIsGone ==
    ASSUME NEW v \in Versions, IsWhole(v), NEW n \in DOMAIN Forest, NEW w \in Versions,
           \A m \in DOMAIN Forest : w[m] = IF m \in descendantIdsOf(Forest, n) THEN 0 ELSE v[m]
    PROVE  IsWhole(w)
<1>1. descendantIdsOf(Forest, n) = {n} \cup RowsUnder(Forest, n)
  BY ForestIsTree, DescendantsAre DEF OwnRows
<1>2. \A m \in DOMAIN Forest : m \in RowsUnder(Forest, n) <=>
         Forest[m].parent = n \/ (Forest[m].parent \in DOMAIN Forest /\ Forest[m].parent \in RowsUnder(Forest, n))
  BY RowsUnderRule
<1>3. \A m \in DOMAIN Forest : Forest[m].parent \in {n} \cup RowsUnder(Forest, n) =>
                                  m \in {n} \cup RowsUnder(Forest, n)
  BY <1>2, RowsUnderRule
<1> DEFINE own == {n} \cup RowsUnder(Forest, n)
<1>4. \A m \in DOMAIN Forest : w[m] = IF m \in own THEN 0 ELSE v[m]
  BY <1>1
<1>5. \A m \in DOMAIN Forest : Forest[m].parent \in own => m \in own
  BY <1>3
<1> HIDE DEF own
<1>6. ASSUME NEW m \in DOMAIN Forest, w[m] > 0, Forest[m].parent # NULL PROVE w[Forest[m].parent] > 0
  <2>1. m \notin own /\ v[m] > 0
    BY <1>4, <1>6
  <2>2. Forest[m].parent \in DOMAIN Forest /\ Forest[m].parent \notin own
    BY <1>5, <1>6, <2>1, ForestIsTree
  <2>3. v[Forest[m].parent] > 0
    BY <1>6, <2>1 DEF IsWhole
  <2> QED
    BY <1>4, <2>2, <2>3
<1> QED
  BY <1>6 DEF IsWhole

LEMMA NextRowIsToDo ==
    ASSUME BulkInv, NEW n, IsNextRow(n)
    PROVE  n \in loop.todo /\ loop # NoLoop
<1> DEFINE S == loop.todo
           K == {k \in Nat : (\E x \in S : x <= k) => \E x \in S : \A y \in S : x <= y}
<1>0. S \subseteq Nat /\ S # {}
  BY ForestIsTree DEF BulkInv, BulkTyped, Loop, IsNextRow
<1> HIDE DEF S
<1>1. 0 \in K
  BY <1>0
<1>2. \A k \in Nat : k \in K => k + 1 \in K
  <2> TAKE k \in Nat
  <2> HAVE k \in K
  <2>1. CASE \E x \in S : x <= k
    BY <2>1
  <2>2. CASE ~ \E x \in S : x <= k
    <3>1. \A y \in S : k + 1 <= y
      BY <1>0, <2>2
    <3>2. ASSUME NEW x \in S, x <= k + 1 PROVE \A y \in S : x <= y
      <4>1. x = k + 1
        BY <1>0, <3>1, <3>2
      <4> QED
        BY <3>1, <4>1
    <3> QED
      BY <3>2
  <2> QED
    BY <2>1, <2>2
<1> HIDE DEF K
<1>3. Nat \subseteq K
  BY <1>1, <1>2, AllNumbers
<1>4. PICK x \in S : TRUE
  BY <1>0
<1>5. x \in K /\ x <= x
  BY <1>0, <1>3
<1>6. \E z \in S : \A y \in S : z <= y
  BY <1>5 DEF K
<1>7. Min(S) \in S
  BY <1>6 DEF Min
<1>8. loop # NoLoop
  BY <1>0 DEF S, NoLoop
<1> QED
  BY <1>7, <1>8 DEF IsNextRow, S

\* The loop takes the next row from what is to do.
LEMMA OneRowLess ==
    ASSUME BulkInv, loop # NoLoop, NEW n \in loop.todo
    PROVE  /\ IsFiniteSet(loop.todo) /\ Cardinality(loop.todo) \in Nat /\ Cardinality(loop.targets) \in Nat
           /\ Cardinality(loop.todo \ {n}) = Cardinality(loop.todo) - 1
           /\ IsFiniteSet(WrittenRows) /\ Cardinality(WrittenRows) \in Nat
           /\ n \in DOMAIN Forest /\ n \notin WrittenRows /\ hits[n] = 0
<1>1. loop.todo \subseteq DOMAIN Forest /\ loop.targets \subseteq DOMAIN Forest /\ n \in DOMAIN Forest
  BY DEF BulkInv, BulkTyped, Loop
<1>2. IsFiniteSet(loop.todo) /\ IsFiniteSet(loop.targets) /\ IsFiniteSet(WrittenRows)
  BY <1>1, ForestIsTree, FS_Subset DEF WrittenRows
<1>3. n \notin WrittenRows /\ hits[n] \in Nat
  BY <1>1 DEF BulkInv, BulkTyped, LoopCounts, Versions
<1>4. hits[n] = 0
  BY <1>1, <1>3 DEF WrittenRows
<1> QED
  BY <1>1, <1>2, <1>3, <1>4, FS_CardinalityType, FS_RemoveElement

\* What a request that is carried out does to the table.
LEMMA RowIsApplied ==
    ASSUME BulkInv, loop # NoLoop, NEW n \in loop.todo, Apply(n), MatchesVersion(n)
    PROVE  /\ version' \in Versions /\ hits' \in Versions /\ complete' \subseteq DOMAIN Forest
           /\ IsWhole(version')
           /\ WrittenRows' = WrittenRows \cup {n}
           /\ Cardinality(WrittenRows') = Cardinality(WrittenRows) + 1
           /\ \A m \in DOMAIN Forest : hits'[m] <= 1
           /\ (loop.mode = "delete" => StandAlone(loop.targets)) =>
                 \A m \in loop.todo \ {n} : version'[m] = version[m]
<1> DEFINE D == DOMAIN Forest
           own == descendantIdsOf(Forest, n)
<1>1. /\ n \in D /\ n \notin WrittenRows /\ hits[n] = 0 /\ IsFiniteSet(WrittenRows)
      /\ Cardinality(WrittenRows) \in Nat
  BY OneRowLess
<1>2. version \in Versions /\ hits \in Versions /\ IsWhole(version) /\ complete \subseteq D /\ loop.todo \subseteq D
      /\ loop.todo \subseteq loop.targets /\ \A m \in D : hits[m] <= 1
  BY DEF BulkInv, BulkTyped, LoopCounts, Loop
<1>3. version[n] > 0
  BY DEF MatchesVersion
<1>4. own = {n} \cup RowsUnder(Forest, n)
  BY ForestIsTree, DescendantsAre DEF OwnRows
<1>5. /\ version' = [m \in D |-> IF loop.mode = "delete" /\ m \in (IF loop.mode = "delete" THEN own ELSE {n}) THEN 0
                                 ELSE IF m = n THEN version[m] + 1 ELSE version[m]]
      /\ complete' \subseteq complete \cup {n}
      /\ hits' = [hits EXCEPT ![n] = @ + 1]
  BY DEF Apply
<1> HIDE DEF own
<1>6. hits' \in Versions /\ hits'[n] = 1 /\ \A m \in D : m # n => hits'[m] = hits[m]
  BY <1>1, <1>2, <1>5 DEF Versions
<1>7. WrittenRows' = WrittenRows \cup {n}
  BY <1>1, <1>6 DEF WrittenRows
<1>8. Cardinality(WrittenRows \cup {n}) = Cardinality(WrittenRows) + 1
  BY <1>1, FS_AddElement
<1>9. CASE loop.mode = "delete"
  <2>1. /\ version' \in Versions
        /\ \A m \in D : version'[m] = IF m \in own THEN 0 ELSE IF m = n THEN version[m] + 1 ELSE version[m]
    BY <1>2, <1>5, <1>9 DEF Versions
  <2>2. \A m \in D : version'[m] = IF m \in own THEN 0 ELSE version[m]
    BY <1>4, <2>1
  <2>3. IsWhole(version')
    <3> DEFINE w == version'
    <3>1. w \in Versions /\ \A m \in D : w[m] = IF m \in own THEN 0 ELSE version[m]
      BY <2>1, <2>2
    <3> HIDE DEF w
    <3>2. IsWhole(w)
      BY <1>1, <1>2, <3>1, OwnIsGone DEF own
    <3> QED
      BY <3>2 DEF w
  <2>4. StandAlone(loop.targets) => \A m \in loop.todo \ {n} : version'[m] = version[m]
    BY <1>2, <1>4, <2>2 DEF StandAlone
  <2> QED
    BY <1>1, <1>2, <1>5, <1>6, <1>7, <1>8, <1>9, <2>1, <2>3, <2>4
<1>10. CASE loop.mode # "delete"
  <2>1. /\ version' \in Versions
        /\ \A m \in D : version'[m] = IF m = n THEN version[m] + 1 ELSE version[m]
    BY <1>2, <1>5, <1>10 DEF Versions
  <2>2. IsWhole(version')
    <3>1. \A m \in D : version[m] \in Nat /\ (version'[m] > 0 <=> version[m] > 0)
      BY <1>2, <1>3, <2>1 DEF Versions
    <3>2. \A m \in D : Forest[m].parent # NULL => Forest[m].parent \in D
      BY ForestIsTree
    <3> DEFINE w == version'
    <3>3. \A m \in D : w[m] > 0 <=> version[m] > 0
      BY <3>1
    <3> HIDE DEF w
    <3>4. IsWhole(w)
      BY <1>2, <3>2, <3>3 DEF IsWhole
    <3> QED
      BY <3>4 DEF w
  <2>3. \A m \in loop.todo \ {n} : version'[m] = version[m]
    BY <1>2, <2>1
  <2> QED
    BY <1>1, <1>2, <1>5, <1>6, <1>7, <1>8, <1>10, <2>1, <2>2, <2>3
<1> QED
  BY <1>9, <1>10

LEMMA BulkStarts == BulkInit => BulkInv
<1> SUFFICES ASSUME BulkInit PROVE BulkInv
  OBVIOUS
<1> DEFINE D == DOMAIN Forest
<1>1. /\ version = [n \in D |-> 1] /\ complete \subseteq D
      /\ list = [version |-> version, complete |-> complete]
      /\ ticked = {} /\ loop = NoLoop /\ hits = [n \in D |-> 0]
  BY DEF BulkInit
<1>2. version \in Versions /\ hits \in Versions
  BY <1>1 DEF Versions
<1>3. list \in ListOf /\ list.version = version
  BY <1>1, <1>2 DEF ListOf
<1>4. loop \in Loop
  BY <1>1 DEF Loop, NoLoop
<1>5. IsWhole(version)
  <2>1. \A n \in D : version[n] > 0
    BY <1>1
  <2> QED
    BY <2>1, ForestIsTree DEF IsWhole
<1> QED
  BY <1>1, <1>2, <1>3, <1>4, <1>5 DEF BulkInv, BulkTyped

LEMMA TickingKeeps ==
    ASSUME BulkInv, NEW n \in DOMAIN Forest, toggleNodeSelect(n)
    PROVE  BulkInv'
<1>1. Here \subseteq DOMAIN Forest /\ IsTree(ItemsHere) /\ DOMAIN ItemsHere = Here
  BY HereIsTree
<1>2. descendantIdsOf(ItemsHere, n) = {n} \cup RowsUnder(ItemsHere, n)
  BY <1>1, DescendantsAre DEF OwnRows
<1>3. RowsUnder(ItemsHere, n) \subseteq DOMAIN Forest
  BY <1>1, RowsUnderRule
<1>4. ticked' \subseteq DOMAIN Forest
  BY <1>2, <1>3 DEF toggleNodeSelect, BulkInv, BulkTyped
<1>5. loop = NoLoop /\ UNCHANGED <<version, complete, list, loop, hits>>
  BY DEF toggleNodeSelect
<1> QED
  BY <1>4, <1>5 DEF BulkInv, BulkTyped

\* The targets of a loop are rows of the list; with an old selection only a deletion may
\* name rows that are gone.
LEMMA TargetsAreRows ==
    ASSUME BulkInv, NEW mode \in Modes
    PROVE  Targets(mode) \subseteq DOMAIN Forest /\ (ticked \subseteq Here => Targets(mode) \subseteq Here)
<1>1. Here \subseteq DOMAIN Forest /\ IsTree(ItemsHere) /\ DOMAIN ItemsHere = Here
  BY HereIsTree
<1>2. ticked \subseteq DOMAIN Forest
  BY DEF BulkInv, BulkTyped
<1>3. \A n \in Here : descendantIdsOf(ItemsHere, n) \subseteq Here
  <2> TAKE n \in Here
  <2>1. descendantIdsOf(ItemsHere, n) = {n} \cup RowsUnder(ItemsHere, n)
    BY <1>1, DescendantsAre DEF OwnRows
  <2>2. RowsUnder(ItemsHere, n) \subseteq Here
    BY <1>1, RowsUnderRule
  <2> QED
    BY <2>1, <2>2
<1>4. \A n \in Here : ItemsBelow(ItemsHere, n) \subseteq Here
  BY <1>3 DEF ItemsBelow
<1>5. \A with \in BOOLEAN : collectCompleteTargets(ItemsHere, ticked, with) \subseteq Here
  BY <1>1, <1>4 DEF collectCompleteTargets
<1>6. collectDeleteTargets(ItemsHere, ticked) \subseteq ticked
  BY DEF collectDeleteTargets
<1>7. CASE mode = "delete"
  <2>1. Targets(mode) = collectDeleteTargets(ItemsHere, ticked)
    BY <1>7 DEF Targets
  <2> QED
    BY <1>2, <1>6, <2>1
<1>8. CASE mode # "delete"
  <2>1. \/ Targets(mode) = collectCompleteTargets(ItemsHere, ticked, FALSE)
        \/ Targets(mode) = collectCompleteTargets(ItemsHere, ticked, TRUE)
    BY <1>8 DEF Targets, Modes, collectShiftTargets
  <2>2. Targets(mode) \subseteq Here
    BY <1>5, <2>1
  <2> QED
    BY <1>1, <2>2
<1> QED
  BY <1>7, <1>8

LEMMA StartKeeps ==
    ASSUME BulkInv, NEW mode \in Modes, StartLoop(mode)
    PROVE  BulkInv'
<1> DEFINE D == DOMAIN Forest
           T == Targets(mode)
           quiet == list.version = version /\ ticked \subseteq Here
<1>1. T \subseteq D /\ (ticked \subseteq Here => T \subseteq Here)
  BY TargetsAreRows
<1>2. /\ version \in Versions /\ list \in ListOf /\ list.version \in Versions /\ complete \subseteq D
      /\ IsWhole(version) /\ IsWhole(list.version) /\ ticked \subseteq D
  BY DEF BulkInv, BulkTyped, ListOf
<1>3. /\ loop' = [NoLoop EXCEPT !.mode = mode, !.todo = T, !.targets = T, !.list = list, !.calm = quiet]
      /\ hits' = [n \in D |-> 0] /\ UNCHANGED <<version, complete, list, ticked>>
  BY DEF StartLoop
<1>4. StandAlone(T) \/ mode # "delete" \/ ~quiet
  <2> SUFFICES ASSUME mode = "delete", quiet PROVE StandAlone(T)
    OBVIOUS
  <2>1. T = collectDeleteTargets(ItemsHere, ticked)
    BY DEF Targets
  <2> QED
    BY <1>2, <2>1, TargetsStandAlone
<1>5. quiet => \A n \in T : version[n] > 0 /\ version[n] = list.version[n]
  BY <1>1 DEF Here
<1>6. quiet \in BOOLEAN
  OBVIOUS
<1> HIDE DEF T, quiet
<1>7. loop' = [mode |-> mode, todo |-> T, targets |-> T, list |-> list, succeeded |-> 0, failed |-> 0,
               skipped |-> 0, calm |-> quiet]
  BY <1>3 DEF NoLoop
<1>8. loop' \in Loop
  BY <1>1, <1>2, <1>6, <1>7 DEF Loop
<1>9. /\ loop'.mode = mode /\ loop'.todo = T /\ loop'.targets = T /\ loop'.list = list
      /\ loop'.succeeded = 0 /\ loop'.failed = 0 /\ loop'.skipped = 0 /\ loop'.calm = quiet
  BY <1>7
<1>10. hits' \in Versions /\ WrittenRows' = {} /\ \A n \in D : hits'[n] <= 1
  BY <1>3 DEF Versions, WrittenRows
<1>11. Cardinality({}) = 0 /\ Cardinality(T) \in Nat
  <2>1. IsFiniteSet(T)
    BY <1>1, ForestIsTree, FS_Subset
  <2> QED
    BY <2>1, FS_EmptySet, FS_CardinalityType
<1>12. LoopCounts'
  BY <1>9, <1>10, <1>11 DEF LoopCounts
<1>13. LoopCalm'
  BY <1>3, <1>4, <1>5, <1>9 DEF LoopCalm, StandAlone
<1>14. BulkTyped'
  BY <1>2, <1>3, <1>8, <1>10 DEF BulkTyped, IsWhole, ListOf, Versions
<1> QED
  BY <1>12, <1>13, <1>14 DEF BulkInv

\* The loop with row n behind it: written, failed or skipped.
Onward(n, s, f, k, calm) ==
    [mode |-> loop.mode, todo |-> loop.todo \ {n}, targets |-> loop.targets, list |-> loop.list,
     succeeded |-> loop.succeeded + s, failed |-> loop.failed + f, skipped |-> loop.skipped + k,
     calm |-> calm]

\* The next row is skipped, has succeeded or has failed: one less is to do.
LEMMA LoopGoesOn ==
    ASSUME BulkInv, loop # NoLoop, NEW n \in loop.todo,
           NEW s \in {0, 1}, NEW f \in {0, 1}, NEW k \in {0, 1}, s + f + k = 1, NEW calm \in BOOLEAN,
           loop' = Onward(n, s, f, k, calm)
    PROVE  /\ loop' \in Loop /\ loop'.mode = loop.mode /\ loop'.targets = loop.targets
           /\ loop'.list = loop.list /\ loop'.todo = loop.todo \ {n} /\ loop'.calm = calm
           /\ loop'.succeeded = loop.succeeded + s /\ loop'.failed = loop.failed + f
           /\ loop'.skipped = loop.skipped + k
           /\ loop'.succeeded + loop'.failed + loop'.skipped + Cardinality(loop'.todo)
                = Cardinality(loop'.targets)
<1>1. loop \in Loop /\ loop.succeeded + loop.failed + loop.skipped + Cardinality(loop.todo) = Cardinality(loop.targets)
  BY DEF BulkInv, BulkTyped, LoopCounts
<1>2. Cardinality(loop.todo) \in Nat /\ Cardinality(loop.todo \ {n}) = Cardinality(loop.todo) - 1
  BY OneRowLess
<1>3. /\ loop'.mode = loop.mode /\ loop'.targets = loop.targets
      /\ loop'.list = loop.list /\ loop'.todo = loop.todo \ {n} /\ loop'.calm = calm
      /\ loop'.succeeded = loop.succeeded + s /\ loop'.failed = loop.failed + f
      /\ loop'.skipped = loop.skipped + k
  BY DEF Onward
<1>4. /\ loop.mode \in Modes \cup {"none"} /\ loop.todo \in SUBSET DOMAIN Forest
      /\ loop.targets \in SUBSET DOMAIN Forest /\ loop.list \in ListOf \cup {<<>>}
      /\ loop.succeeded \in Nat /\ loop.failed \in Nat /\ loop.skipped \in Nat
  BY <1>1 DEF Loop
<1>5. loop' \in Loop
  <2>1. loop.succeeded + s \in Nat /\ loop.failed + f \in Nat /\ loop.skipped + k \in Nat
    BY <1>4
  <2>2. loop.todo \ {n} \in SUBSET DOMAIN Forest
    BY <1>4
  <2> QED
    BY <1>4, <2>1, <2>2 DEF Loop, Onward
<1>6. loop.succeeded \in Nat /\ loop.failed \in Nat /\ loop.skipped \in Nat
  BY <1>4
<1>7. loop.succeeded + s + (loop.failed + f) + (loop.skipped + k) + Cardinality(loop.todo \ {n})
        = Cardinality(loop.targets)
  BY <1>1, <1>2, <1>6
<1> QED
  BY <1>3, <1>5, <1>7

\* Nothing is written.
LEMMA NothingWritten ==
    ASSUME BulkInv, loop # NoLoop, NEW n \in loop.todo,
           NEW f \in {0, 1}, NEW k \in {0, 1}, f + k = 1, NEW calm \in BOOLEAN,
           calm => loop.calm /\ f = 0,
           loop' = Onward(n, 0, f, k, calm),
           UNCHANGED <<version, complete, list, ticked, hits>>
    PROVE  BulkInv'
<1>1. /\ loop' \in Loop /\ loop'.mode = loop.mode /\ loop'.targets = loop.targets
      /\ loop'.list = loop.list /\ loop'.todo = loop.todo \ {n} /\ loop'.calm = calm
      /\ loop'.succeeded = loop.succeeded + 0 /\ loop'.failed = loop.failed + f
      /\ loop'.skipped = loop.skipped + k
      /\ loop'.succeeded + loop'.failed + loop'.skipped + Cardinality(loop'.todo)
           = Cardinality(loop'.targets)
  <2>1. 0 \in {0, 1} /\ 0 + f + k = 1
    OBVIOUS
  <2> QED
    BY <2>1, LoopGoesOn
<1>2. WrittenRows' = WrittenRows /\ n \notin WrittenRows /\ Cardinality(WrittenRows) \in Nat
  BY OneRowLess DEF WrittenRows
<1>3. loop.succeeded \in Nat /\ loop.failed \in Nat
  BY DEF BulkInv, BulkTyped, Loop
<1>4. LoopCounts'
  <2>1. loop'.mode \in Modes /\ loop'.todo \subseteq loop'.targets
    BY <1>1 DEF BulkInv, LoopCounts
  <2>2. WrittenRows' \subseteq loop'.targets \ loop'.todo
    BY <1>1, <1>2 DEF BulkInv, LoopCounts
  <2>3. \A m \in DOMAIN Forest : hits'[m] <= 1
    BY DEF BulkInv, LoopCounts
  <2>4. Cardinality(WrittenRows') \in loop'.succeeded..(loop'.succeeded + loop'.failed)
    <3>1. Cardinality(WrittenRows) \in loop.succeeded..(loop.succeeded + loop.failed)
      BY DEF BulkInv, LoopCounts
    <3>2. Cardinality(WrittenRows) \in (loop.succeeded + 0)..(loop.succeeded + 0 + (loop.failed + f))
      BY <1>2, <1>3, <3>1
    <3> QED
      BY <1>1, <1>2, <3>2
  <2> QED
    BY <1>1, <2>1, <2>2, <2>3, <2>4 DEF LoopCounts
<1>5. LoopCalm'
  <2>1. ASSUME calm PROVE /\ loop.failed + f = 0
                          /\ \A m \in loop.todo \ {n} : /\ version[m] > 0
                                                        /\ loop.mode # "delete" => version[m] = loop.list.version[m]
                          /\ loop.mode = "delete" => StandAlone(loop.targets)
    BY <1>3, <2>1 DEF BulkInv, LoopCalm
  <2>2. ASSUME calm, loop.mode = "delete" PROVE StandAlone(loop.targets)'
    BY <1>1, <2>1, <2>2 DEF StandAlone
  <2>3. loop'.calm = calm /\ loop'.failed = loop.failed + f /\ loop'.mode = loop.mode
        /\ loop'.todo = loop.todo \ {n} /\ loop'.list = loop.list /\ version' = version
    BY <1>1
  <2> QED
    BY <2>1, <2>2, <2>3 DEF LoopCalm
<1>6. BulkTyped'
  BY <1>1 DEF BulkInv, BulkTyped, IsWhole, ListOf, Versions
<1> QED
  BY <1>4, <1>5, <1>6 DEF BulkInv

\* The row is written, and the request has succeeded or its answer is lost.
LEMMA OneWritten ==
    ASSUME BulkInv, loop # NoLoop, NEW n \in loop.todo, Apply(n), MatchesVersion(n),
           NEW s \in {0, 1}, NEW f \in {0, 1}, s + f = 1, NEW calm \in BOOLEAN,
           calm => loop.calm /\ f = 0,
           loop' = Onward(n, s, f, 0, calm),
           UNCHANGED <<list, ticked>>
    PROVE  BulkInv'
<1>1. /\ loop' \in Loop /\ loop'.mode = loop.mode /\ loop'.targets = loop.targets
      /\ loop'.list = loop.list /\ loop'.todo = loop.todo \ {n} /\ loop'.calm = calm
      /\ loop'.succeeded = loop.succeeded + s /\ loop'.failed = loop.failed + f
      /\ loop'.skipped = loop.skipped + 0
      /\ loop'.succeeded + loop'.failed + loop'.skipped + Cardinality(loop'.todo)
           = Cardinality(loop'.targets)
  <2>1. 0 \in {0, 1} /\ s + f + 0 = 1
    OBVIOUS
  <2> QED
    BY <2>1, LoopGoesOn
<1>2. n \notin WrittenRows /\ Cardinality(WrittenRows) \in Nat
  BY OneRowLess
<1>3. loop.succeeded \in Nat /\ loop.failed \in Nat
  BY DEF BulkInv, BulkTyped, Loop
<1>4. /\ version' \in Versions /\ hits' \in Versions /\ complete' \subseteq DOMAIN Forest
      /\ IsWhole(version')
      /\ WrittenRows' = WrittenRows \cup {n}
      /\ Cardinality(WrittenRows') = Cardinality(WrittenRows) + 1
      /\ \A m \in DOMAIN Forest : hits'[m] <= 1
      /\ (loop.mode = "delete" => StandAlone(loop.targets)) =>
            \A m \in loop.todo \ {n} : version'[m] = version[m]
  BY RowIsApplied
<1>5. LoopCounts'
  <2>1. loop'.mode \in Modes /\ loop'.todo \subseteq loop'.targets
    BY <1>1 DEF BulkInv, LoopCounts
  <2>2. WrittenRows' \subseteq loop'.targets \ loop'.todo
    <3>1. WrittenRows \subseteq loop.targets \ loop.todo /\ loop.todo \subseteq loop.targets
      BY DEF BulkInv, LoopCounts
    <3> QED
      BY <1>1, <1>4, <3>1
  <2>3. Cardinality(WrittenRows') \in loop'.succeeded..(loop'.succeeded + loop'.failed)
    <3>1. Cardinality(WrittenRows) \in loop.succeeded..(loop.succeeded + loop.failed)
      BY DEF BulkInv, LoopCounts
    <3>2. Cardinality(WrittenRows) + 1 \in (loop.succeeded + s)..(loop.succeeded + s + (loop.failed + f))
      BY <1>2, <1>3, <3>1
    <3> QED
      BY <1>1, <1>4, <3>2
  <2> QED
    BY <1>1, <1>4, <2>1, <2>2, <2>3 DEF LoopCounts
<1>6. LoopCalm'
  <2>1. ASSUME calm PROVE /\ loop.failed + f = 0
                          /\ \A m \in loop.todo \ {n} : /\ version'[m] > 0
                                                        /\ loop.mode # "delete" => version'[m] = loop.list.version[m]
                          /\ loop.mode = "delete" => StandAlone(loop.targets)
    <3>1. /\ loop.failed = 0 /\ f = 0
          /\ \A m \in loop.todo : /\ version[m] > 0
                                  /\ loop.mode # "delete" => version[m] = loop.list.version[m]
          /\ loop.mode = "delete" => StandAlone(loop.targets)
      BY <2>1 DEF BulkInv, LoopCalm
    <3>2. \A m \in loop.todo \ {n} : version'[m] = version[m]
      BY <1>4, <3>1
    <3> QED
      BY <3>1, <3>2
  <2> QED
    BY <1>1, <2>1 DEF LoopCalm, StandAlone
<1>7. BulkTyped'
  BY <1>1, <1>4 DEF BulkInv, BulkTyped, IsWhole, ListOf, Versions
<1> QED
  BY <1>5, <1>6, <1>7 DEF BulkInv

LEMMA RowKeeps ==
    ASSUME BulkInv, NEW n \in DOMAIN Forest,
           SkipRow(n) \/ RowSucceeds(n) \/ RowFails(n) \/ RowIsLost(n)
    PROVE  BulkInv'
<1>1. n \in loop.todo /\ loop # NoLoop
  BY NextRowIsToDo DEF SkipRow, RowSucceeds, RowFails, RowIsLost
<1>2. loop \in Loop /\ loop.calm \in BOOLEAN /\ loop.succeeded \in Nat /\ loop.failed \in Nat /\ loop.skipped \in Nat
  BY DEF BulkInv, BulkTyped, Loop
<1>3. /\ [loop EXCEPT !.todo = @ \ {n}, !.skipped = @ + 1] = Onward(n, 0, 0, 1, loop.calm)
      /\ [loop EXCEPT !.todo = @ \ {n}, !.succeeded = @ + 1] = Onward(n, 1, 0, 0, loop.calm)
      /\ \A c \in BOOLEAN : [loop EXCEPT !.todo = @ \ {n}, !.failed = @ + 1, !.calm = c] = Onward(n, 0, 1, 0, c)
  <2>1. loop.succeeded + 0 = loop.succeeded /\ loop.failed + 0 = loop.failed /\ loop.skipped + 0 = loop.skipped
    BY <1>2
  <2>2. ASSUME NEW w, w = [loop EXCEPT !.todo = @ \ {n}, !.skipped = @ + 1]
        PROVE  w = Onward(n, 0, 0, 1, loop.calm)
    <3>1. w = [mode |-> loop.mode, todo |-> loop.todo \ {n}, targets |-> loop.targets, list |-> loop.list,
               succeeded |-> loop.succeeded, failed |-> loop.failed, skipped |-> loop.skipped + 1,
               calm |-> loop.calm]
      BY <1>2, <2>2 DEF Loop
    <3> QED
      BY <2>1, <3>1 DEF Onward
  <2>3. ASSUME NEW w, w = [loop EXCEPT !.todo = @ \ {n}, !.succeeded = @ + 1]
        PROVE  w = Onward(n, 1, 0, 0, loop.calm)
    <3>1. w = [mode |-> loop.mode, todo |-> loop.todo \ {n}, targets |-> loop.targets, list |-> loop.list,
               succeeded |-> loop.succeeded + 1, failed |-> loop.failed, skipped |-> loop.skipped,
               calm |-> loop.calm]
      BY <1>2, <2>3 DEF Loop
    <3> QED
      BY <2>1, <3>1 DEF Onward
  <2>4. ASSUME NEW c \in BOOLEAN, NEW w, w = [loop EXCEPT !.todo = @ \ {n}, !.failed = @ + 1, !.calm = c]
        PROVE  w = Onward(n, 0, 1, 0, c)
    <3>1. w = [mode |-> loop.mode, todo |-> loop.todo \ {n}, targets |-> loop.targets, list |-> loop.list,
               succeeded |-> loop.succeeded, failed |-> loop.failed + 1, skipped |-> loop.skipped,
               calm |-> c]
      BY <1>2, <2>4 DEF Loop
    <3> QED
      BY <2>1, <3>1 DEF Onward
  <2> QED
    BY <2>2, <2>3, <2>4
<1>4. CASE SkipRow(n)
  <2>1. loop' = Onward(n, 0, 0, 1, loop.calm) /\ UNCHANGED <<version, complete, list, ticked, hits>>
    BY <1>3, <1>4 DEF SkipRow
  <2>2. 0 + 1 = 1 /\ 0 \in {0, 1} /\ 1 \in {0, 1}
    OBVIOUS
  <2> QED
    BY <1>1, <1>2, <2>1, <2>2, NothingWritten
<1>5. CASE RowSucceeds(n)
  <2>1. loop' = Onward(n, 1, 0, 0, loop.calm) /\ UNCHANGED <<list, ticked>> /\ Apply(n) /\ MatchesVersion(n)
    BY <1>3, <1>5 DEF RowSucceeds
  <2>2. 1 + 0 = 1 /\ 0 \in {0, 1} /\ 1 \in {0, 1}
    OBVIOUS
  <2> QED
    BY <1>1, <1>2, <2>1, <2>2, OneWritten
<1>6. CASE RowFails(n)
  <2>1. ~loop.calm
    <3>1. ~MatchesVersion(n)
      BY <1>6 DEF RowFails
    <3>2. loop.calm => MatchesVersion(n)
      BY <1>1 DEF BulkInv, LoopCalm, MatchesVersion
    <3> QED
      BY <3>1, <3>2
  <2>2. loop' = Onward(n, 0, 1, 0, loop.calm) /\ UNCHANGED <<version, complete, list, ticked, hits>>
    BY <1>2, <1>3, <1>6 DEF RowFails, AfterFailure
  <2>3. 1 + 0 = 1 /\ 0 \in {0, 1} /\ 1 \in {0, 1}
    OBVIOUS
  <2> QED
    BY <1>1, <1>2, <2>1, <2>2, <2>3, NothingWritten
<1>7. CASE RowIsLost(n)
  <2> DEFINE no == FALSE
  <2>1. no \in BOOLEAN /\ ~no
    OBVIOUS
  <2>2. loop' = [loop EXCEPT !.todo = @ \ {n}, !.failed = @ + 1, !.calm = no] /\ UNCHANGED <<list, ticked>>
    BY <1>7 DEF RowIsLost, AfterFailure
  <2>3. \/ MatchesVersion(n) /\ Apply(n)
        \/ UNCHANGED <<version, complete, hits>>
    BY <1>7 DEF RowIsLost
  <2> HIDE DEF no
  <2>4. loop' = Onward(n, 0, 1, 0, no)
    BY <1>3, <2>1, <2>2
  <2>5. 0 + 1 = 1 /\ 1 + 0 = 1 /\ 0 \in {0, 1} /\ 1 \in {0, 1}
    OBVIOUS
  <2>6. CASE MatchesVersion(n) /\ Apply(n)
    BY <1>1, <2>1, <2>2, <2>4, <2>5, <2>6, OneWritten
  <2>7. CASE UNCHANGED <<version, complete, hits>>
    BY <1>1, <2>1, <2>2, <2>4, <2>5, <2>7, NothingWritten
  <2> QED
    BY <2>3, <2>6, <2>7
<1> QED
  BY <1>4, <1>5, <1>6, <1>7

LEMMA OtherEditKeeps ==
    ASSUME BulkInv, NEW n \in DOMAIN Forest, OtherEdits(n)
    PROVE  BulkInv'
<1> DEFINE D == DOMAIN Forest
           own == descendantIdsOf(Forest, n)
           no == FALSE
<1>1. /\ version \in Versions /\ hits \in Versions /\ complete \subseteq D /\ list \in ListOf /\ loop \in Loop
      /\ IsWhole(version) /\ IsWhole(list.version) /\ ticked \subseteq D
  BY DEF BulkInv, BulkTyped
<1>2. /\ loop' = [loop EXCEPT !.calm = no] /\ UNCHANGED <<list, ticked, hits>> /\ version[n] > 0
      /\ \/ version' = [version EXCEPT ![n] = @ + 1] /\ UNCHANGED complete
         \/ /\ version' = [m \in D |-> IF m \in own THEN 0 ELSE version[m]]
            /\ complete' = complete \ own
  BY DEF OtherEdits
<1>3. no \in BOOLEAN /\ ~no
  OBVIOUS
<1> HIDE DEF no, own
<1>4. /\ loop' \in Loop /\ loop'.mode = loop.mode /\ loop'.todo = loop.todo /\ loop'.targets = loop.targets
      /\ loop'.succeeded = loop.succeeded /\ loop'.failed = loop.failed /\ loop'.skipped = loop.skipped
      /\ ~loop'.calm
  BY <1>1, <1>2, <1>3 DEF Loop
<1>5. version' \in Versions /\ complete' \subseteq D
  BY <1>1, <1>2 DEF Versions
<1>6. IsWhole(version')
  <2>1. CASE version' = [version EXCEPT ![n] = @ + 1]
    <3> DEFINE w == version'
    <3>1. \A m \in D : w[m] > 0 <=> version[m] > 0
      BY <1>1, <1>2, <2>1 DEF Versions
    <3> HIDE DEF w
    <3>2. IsWhole(w)
      BY <1>1, <3>1, ForestIsTree DEF IsWhole
    <3> QED
      BY <3>2 DEF w
  <2>2. CASE version' = [m \in D |-> IF m \in own THEN 0 ELSE version[m]]
    <3> DEFINE w == version'
    <3>1. w \in Versions /\ \A m \in D : w[m] = IF m \in own THEN 0 ELSE version[m]
      BY <1>5, <2>2
    <3> HIDE DEF w
    <3>2. IsWhole(w)
      BY <1>1, <3>1, OwnIsGone DEF own
    <3> QED
      BY <3>2 DEF w
  <2> QED
    BY <1>2, <2>1, <2>2
<1>7. ASSUME loop = NoLoop PROVE loop' = NoLoop
  <2> DEFINE w == loop'
  <2>1. no = FALSE
    BY DEF no
  <2>2. w = [NoLoop EXCEPT !.calm = no]
    BY <1>2, <1>7
  <2> HIDE DEF w
  <2>3. w = [mode |-> "none", todo |-> {}, targets |-> {}, list |-> <<>>,
             succeeded |-> 0, failed |-> 0, skipped |-> 0, calm |-> no]
    BY <2>2 DEF NoLoop
  <2>4. w = NoLoop
    BY <2>1, <2>3 DEF NoLoop
  <2> QED
    BY <2>4 DEF w
<1>8. ASSUME loop' # NoLoop PROVE LoopCounts' /\ LoopCalm'
  <2>1. LoopCounts
    BY <1>7, <1>8 DEF BulkInv
  <2>2. WrittenRows' = WrittenRows
    BY <1>2 DEF WrittenRows
  <2>3. LoopCounts'
    BY <1>2, <1>4, <2>1, <2>2 DEF LoopCounts
  <2> QED
    BY <1>4, <2>3 DEF LoopCalm
<1>9. BulkTyped'
  BY <1>1, <1>2, <1>4, <1>5, <1>6 DEF BulkTyped, IsWhole, ListOf, Versions
<1> QED
  BY <1>8, <1>9 DEF BulkInv

LEMMA BulkKeeps == BulkInv /\ [BulkNext]_bulkVars => BulkInv'
<1> SUFFICES ASSUME BulkInv, [BulkNext]_bulkVars PROVE BulkInv'
  OBVIOUS
<1>1. CASE UNCHANGED bulkVars
  BY <1>1 DEF bulkVars, BulkInv, BulkTyped, LoopCounts, LoopCalm, IsWhole, Versions, ListOf, WrittenRows,
              StandAlone
<1>2. CASE Report
  <2>1. loop' = NoLoop /\ ticked' = {} /\ UNCHANGED <<version, complete, list, hits>>
    BY <1>2 DEF Report
  <2>2. NoLoop \in Loop
    BY DEF NoLoop, Loop
  <2> QED
    BY <2>1, <2>2 DEF BulkInv, BulkTyped, IsWhole, ListOf, Versions
<1>3. CASE Reread
  <2>1. list' = [version |-> version, complete |-> complete] /\ UNCHANGED <<version, complete, ticked, loop, hits>>
    BY <1>3 DEF Reread
  <2>2. list' \in ListOf /\ list'.version = version
    BY <2>1 DEF ListOf, BulkInv, BulkTyped
  <2> QED
    BY <2>1, <2>2 DEF BulkInv, BulkTyped, LoopCounts, LoopCalm, IsWhole, ListOf, Versions, WrittenRows,
                      StandAlone
<1>4. ASSUME NEW mode \in Modes, StartLoop(mode) PROVE BulkInv'
  BY <1>4, StartKeeps
<1>5. ASSUME NEW n \in DOMAIN Forest, toggleNodeSelect(n) PROVE BulkInv'
  BY <1>5, TickingKeeps
<1>6. ASSUME NEW n \in DOMAIN Forest, SkipRow(n) \/ RowSucceeds(n) \/ RowFails(n) \/ RowIsLost(n)
      PROVE  BulkInv'
  BY <1>6, RowKeeps
<1>7. ASSUME NEW n \in DOMAIN Forest, OtherEdits(n) PROVE BulkInv'
  BY <1>7, OtherEditKeeps
<1> QED
  BY <1>1, <1>2, <1>3, <1>4, <1>5, <1>6, <1>7 DEF BulkNext

\* When the message with the counts comes, every row has been tried: written at most once,
\* all of them counted, and without a failure unless somebody else wrote, something was lost
\* or the list was an old one (ProjectDetailPage.tsx, bulkResult.ts): for any tree.
THEOREM MessagesAreTrue == BulkSpec => []BulkReportsTruly
<1>1. BulkInit => BulkInv
  BY BulkStarts
<1>2. BulkInv /\ [BulkNext]_bulkVars => BulkInv'
  BY BulkKeeps
<1>3. BulkInv => BulkReportsTruly
  <2> SUFFICES ASSUME BulkInv, loop # NoLoop, loop.todo = {}
               PROVE  /\ WrittenRows \subseteq loop.targets
                      /\ \A n \in DOMAIN Forest : hits[n] <= 1
                      /\ Cardinality(WrittenRows) \in loop.succeeded..(loop.succeeded + loop.failed)
                      /\ loop.succeeded + loop.failed + loop.skipped = Cardinality(loop.targets)
                      /\ loop.calm => loop.failed = 0
    BY DEF BulkReportsTruly
  <2>1. LoopCounts /\ LoopCalm /\ loop.succeeded \in Nat /\ loop.failed \in Nat /\ loop.skipped \in Nat
    BY DEF BulkInv, BulkTyped, Loop
  <2>2. Cardinality(loop.todo) = 0
    BY FS_EmptySet
  <2>3. loop.succeeded + loop.failed + loop.skipped = Cardinality(loop.targets)
    BY <2>1, <2>2 DEF LoopCounts
  <2> QED
    BY <2>1, <2>3 DEF LoopCounts, LoopCalm
<1> QED
  BY <1>1, <1>2, <1>3, PTL DEF BulkSpec

-------------------------------------------------------------------------------
(* UserImport: the text and what is read of it                             *)

IsAfter(lines, N, f) ==
    f = [i \in 0 .. N |-> IF i = 0 THEN StartOfText ELSE ParseLine(f[i - 1], lines[i])]

LEMMA AfterStep ==
    ASSUME NEW lines, NEW N \in Nat, NEW f, IsAfter(lines, N, f)
    PROVE  \E g : IsAfter(lines, N + 1, g)
<1> DEFINE g == [i \in 0 .. N + 1 |-> IF i = N + 1 THEN ParseLine(f[N], lines[N + 1]) ELSE f[i]]
<1>1. ASSUME NEW i \in 0 .. N + 1
      PROVE  g[i] = IF i = 0 THEN StartOfText ELSE ParseLine(g[i - 1], lines[i])
  <2>1. CASE i = 0
    <3>1. g[i] = f[0] /\ 0 \in 0 .. N
      BY <2>1
    <3>2. f[0] = StartOfText
      BY <3>1 DEF IsAfter
    <3> QED
      BY <2>1, <3>1, <3>2
  <2>2. CASE i = N + 1
    <3>1. g[i] = ParseLine(f[N], lines[i]) /\ g[i - 1] = f[i - 1] /\ i - 1 = N /\ i # 0
      BY <2>2
    <3> HIDE DEF g
    <3> QED
      BY <3>1
  <2>3. CASE i # 0 /\ i # N + 1
    <3>1. g[i] = f[i] /\ g[i - 1] = f[i - 1] /\ i \in 0 .. N
      BY <2>3
    <3> HIDE DEF g
    <3>2. f[i] = ParseLine(f[i - 1], lines[i])
      BY <2>3, <3>1 DEF IsAfter
    <3> QED
      BY <2>3, <3>1, <3>2
  <2> QED
    BY <2>1, <2>2, <2>3
<1>2. g = [i \in 0 .. N + 1 |-> g[i]]
  OBVIOUS
<1> HIDE DEF g
<1>3. g = [i \in 0 .. N + 1 |-> IF i = 0 THEN StartOfText ELSE ParseLine(g[i - 1], lines[i])]
  BY <1>1, <1>2
<1> QED
  BY <1>3 DEF IsAfter

\* After no line, and after one more.
LEMMA AfterLinesAre ==
    ASSUME NEW lines, Len(lines) \in Nat
    PROVE  /\ AfterLines(lines)[0] = StartOfText
           /\ \A i \in 1 .. Len(lines) :
                 AfterLines(lines)[i] = ParseLine(AfterLines(lines)[i - 1], lines[i])
<1> DEFINE Good == {N \in Nat : \E f : IsAfter(lines, N, f)}
<1>1. 0 \in Good
  <2>1. IsAfter(lines, 0, [i \in 0 .. 0 |-> StartOfText])
    BY DEF IsAfter
  <2> QED
    BY <2>1
<1>2. \A N \in Nat : N \in Good => N + 1 \in Good
  BY AfterStep
<1>3. Nat \subseteq Good
  <2> HIDE DEF Good
  <2> QED
    BY <1>1, <1>2, AllNumbers
<1>4. \E f : IsAfter(lines, Len(lines), f)
  BY <1>3
<1>5. AfterLines(lines) = CHOOSE f : IsAfter(lines, Len(lines), f)
  BY DEF AfterLines, IsAfter
<1>6. IsAfter(lines, Len(lines), AfterLines(lines))
  BY <1>4, <1>5
<1> QED
  BY <1>6 DEF IsAfter

IsDrawing(lines, N, f) ==
    f = [i \in 0 .. N |-> IF i = 0 THEN <<>> ELSE Append(f[GroupAbove(lines, i)], lines[i].name)]

\* The latest of the lines before that are less indented.
LEMMA GroupAboveIs ==
    ASSUME NEW lines, NEW i \in Nat,
           NEW j \in 0 .. i - 1, j # 0 => lines[j].width < lines[i].width,
           \A k \in j + 1 .. i - 1 : ~(lines[k].width < lines[i].width)
    PROVE  GroupAbove(lines, i) = j
<1> DEFINE less == {k \in 1 .. i - 1 : lines[k].width < lines[i].width}
<1>1. CASE j = 0
  <2>1. less = {}
    BY <1>1
  <2> QED
    BY <1>1, <2>1 DEF GroupAbove
<1>2. CASE j # 0
  <2>1. j \in less /\ less # {} /\ less \subseteq Nat
    BY <1>2
  <2>2. \A k \in less : k <= j
    OBVIOUS
  <2>3. GroupAbove(lines, i) = CHOOSE x \in less : \A k \in less : k <= x
    BY <2>1 DEF GroupAbove
  <2> HIDE DEF less
  <2>4. \A x \in less : (\A k \in less : k <= x) => x = j
    BY <2>1, <2>2
  <2> QED
    BY <2>1, <2>2, <2>3, <2>4
<1> QED
  BY <1>1, <1>2

LEMMA GroupAboveBefore ==
    ASSUME NEW lines, NEW i \in Nat \ {0}
    PROVE  GroupAbove(lines, i) \in 0 .. i - 1
<1> DEFINE less == {k \in 1 .. i - 1 : lines[k].width < lines[i].width}
<1>1. CASE less = {}
  BY <1>1 DEF GroupAbove
<1>2. CASE less # {}
  <2>1. less \subseteq 1 .. i - 1
    OBVIOUS
  <2>2. GroupAbove(lines, i) = CHOOSE x \in less : \A k \in less : k <= x
    BY <1>2 DEF GroupAbove
  <2> HIDE DEF less
  <2> DEFINE Good == {n \in Nat : (\E x \in less : x >= i - n) => \E x \in less : \A k \in less : k <= x}
  <2>3. 0 \in Good
    BY <2>1
  <2>4. ASSUME NEW n \in Nat, n \in Good PROVE n + 1 \in Good
    <3>1. CASE \E x \in less : x >= i - n
      BY <2>4, <3>1
    <3>2. CASE ~\E x \in less : x >= i - n
      <4>1. \A x \in less : x <= i - (n + 1)
        BY <2>1, <3>2
      <4>2. ASSUME NEW x \in less, x >= i - (n + 1) PROVE \A k \in less : k <= x
        BY <2>1, <4>1, <4>2
      <4> QED
        BY <4>2
    <3> QED
      BY <3>1, <3>2
  <2>5. Nat \subseteq Good
    <3> HIDE DEF Good
    <3> QED
      BY <2>3, <2>4, AllNumbers
  <2>6. \E x \in less : \A k \in less : k <= x
    <3>1. i \in Good
      BY <2>5
    <3>2. \E x \in less : x >= i - i
      <4>1. PICK x \in less : TRUE
        BY <1>2
      <4>2. x \in 1 .. i - 1 /\ i - i = 0
        BY <2>1, <4>1
      <4>3. x >= i - i
        BY <4>2
      <4> QED
        BY <4>3
    <3> QED
      BY <3>1, <3>2
  <2>7. GroupAbove(lines, i) \in less
    BY <2>2, <2>6
  <2>8. \A k \in 1 .. i - 1 : k \in 0 .. i - 1
    OBVIOUS
  <2> QED
    BY <2>1, <2>7, <2>8
<1> QED
  BY <1>1, <1>2

LEMMA DrawingStep ==
    ASSUME NEW lines, NEW N \in Nat, NEW f, IsDrawing(lines, N, f)
    PROVE  \E g : IsDrawing(lines, N + 1, g)
<1> DEFINE A == GroupAbove(lines, N + 1)
           g == [i \in 0 .. N + 1 |-> IF i = N + 1 THEN Append(f[A], lines[N + 1].name) ELSE f[i]]
<1>1. ASSUME NEW i \in 0 .. N + 1
      PROVE  g[i] = IF i = 0 THEN <<>> ELSE Append(g[GroupAbove(lines, i)], lines[i].name)
  <2>1. CASE i = 0
    <3>1. g[i] = f[0] /\ 0 \in 0 .. N
      BY <2>1
    <3>2. f[0] = <<>>
      BY <3>1 DEF IsDrawing
    <3> QED
      BY <2>1, <3>1, <3>2
  <2>2. ASSUME i # 0 PROVE g[GroupAbove(lines, i)] = f[GroupAbove(lines, i)]
    <3>1. GroupAbove(lines, i) \in 0 .. i - 1
      BY <2>2, GroupAboveBefore
    <3>2. GroupAbove(lines, i) \in 0 .. N + 1 /\ GroupAbove(lines, i) # N + 1
      BY <3>1
    <3> QED
      BY <3>2
  <2>3. CASE i = N + 1
    <3>1. g[i] = Append(f[A], lines[i].name) /\ i # 0
      BY <2>3
    <3> HIDE DEF g
    <3> QED
      BY <2>2, <2>3, <3>1
  <2>4. CASE i # 0 /\ i # N + 1
    <3>1. g[i] = f[i] /\ i \in 0 .. N
      BY <2>4
    <3> HIDE DEF g
    <3>2. f[i] = Append(f[GroupAbove(lines, i)], lines[i].name)
      BY <2>4, <3>1 DEF IsDrawing
    <3> QED
      BY <2>2, <2>4, <3>1, <3>2
  <2> QED
    BY <2>1, <2>3, <2>4
<1>2. g = [i \in 0 .. N + 1 |-> g[i]]
  OBVIOUS
<1> HIDE DEF g
<1>3. g = [i \in 0 .. N + 1 |-> IF i = 0 THEN <<>> ELSE Append(g[GroupAbove(lines, i)], lines[i].name)]
  BY <1>1, <1>2
<1> QED
  BY <1>3 DEF IsDrawing

\* A line is drawn below the one above it that is less indented.
LEMMA DrawnIs ==
    ASSUME NEW lines, Len(lines) \in Nat
    PROVE  /\ Drawn(lines)[0] = <<>>
           /\ \A i \in 1 .. Len(lines) :
                 Drawn(lines)[i] = Append(Drawn(lines)[GroupAbove(lines, i)], lines[i].name)
<1> DEFINE Good == {N \in Nat : \E f : IsDrawing(lines, N, f)}
<1>1. 0 \in Good
  <2>1. IsDrawing(lines, 0, [i \in 0 .. 0 |-> <<>>])
    BY DEF IsDrawing
  <2> QED
    BY <2>1
<1>2. \A N \in Nat : N \in Good => N + 1 \in Good
  BY DrawingStep
<1>3. Nat \subseteq Good
  <2> HIDE DEF Good
  <2> QED
    BY <1>1, <1>2, AllNumbers
<1>4. \E f : IsDrawing(lines, Len(lines), f)
  BY <1>3
<1>5. Drawn(lines) = CHOOSE f : IsDrawing(lines, Len(lines), f)
  BY DEF Drawn, IsDrawing
<1> DEFINE D == Drawn(lines)
<1>6. IsDrawing(lines, Len(lines), D)
  BY <1>4, <1>5
<1> HIDE DEF D
<1>7. \A i \in 0 .. Len(lines) :
         D[i] = IF i = 0 THEN <<>> ELSE Append(D[GroupAbove(lines, i)], lines[i].name)
  BY <1>6, Zenon DEF IsDrawing
<1>8. 0 \in 0 .. Len(lines) /\ \A i \in 1 .. Len(lines) : i \in 0 .. Len(lines) /\ i # 0
  OBVIOUS
<1>9. D[0] = <<>> /\ \A i \in 1 .. Len(lines) : D[i] = Append(D[GroupAbove(lines, i)], lines[i].name)
  BY <1>7, <1>8, Zenon
<1> QED
  BY <1>9 DEF D

\* What comes later changes nothing of what was read.
LEMMA AfterOneMore ==
    ASSUME NEW S, NEW s \in Seq(S), NEW x \in S
    PROVE  /\ \A i \in 0 .. Len(s) : AfterLines(Append(s, x))[i] = AfterLines(s)[i]
           /\ AfterLines(Append(s, x))[Len(s) + 1] = ParseLine(AfterLines(s)[Len(s)], x)
<1> DEFINE t == Append(s, x)
           a == AfterLines(s)
           b == AfterLines(t)
           N == Len(s)
           Good == {n \in Nat : n <= N => b[n] = a[n]}
<1>1. Len(t) = N + 1 /\ N \in Nat /\ t[N + 1] = x /\ \A i \in 1 .. N : t[i] = s[i]
  OBVIOUS
<1>2. a[0] = StartOfText /\ \A i \in 1 .. N : a[i] = ParseLine(a[i - 1], s[i])
  BY <1>1, AfterLinesAre
<1>3. b[0] = StartOfText /\ \A i \in 1 .. N + 1 : b[i] = ParseLine(b[i - 1], t[i])
  <2> HIDE DEF t
  <2>1. Len(t) \in Nat
    BY <1>1
  <2> QED
    BY <1>1, <2>1, AfterLinesAre
<1> HIDE DEF t, a, b, N
<1>4. 0 \in Good
  BY <1>2, <1>3
<1>5. ASSUME NEW n \in Nat, n \in Good PROVE n + 1 \in Good
  <2>1. SUFFICES ASSUME n + 1 <= N PROVE b[n + 1] = a[n + 1]
    OBVIOUS
  <2>2. n + 1 \in 1 .. N /\ n + 1 \in 1 .. N + 1 /\ (n + 1) - 1 = n /\ n <= N
    BY <1>1, <2>1
  <2>3. a[n + 1] = ParseLine(a[n], s[n + 1]) /\ b[n + 1] = ParseLine(b[n], t[n + 1])
    BY <1>2, <1>3, <2>2
  <2> QED
    BY <1>1, <1>5, <2>2, <2>3
<1>6. Nat \subseteq Good
  <2> HIDE DEF Good
  <2> QED
    BY <1>4, <1>5, AllNumbers
<1>7. \A i \in 0 .. N : b[i] = a[i]
  BY <1>1, <1>6
<1>8. b[N + 1] = ParseLine(a[N], x)
  <2>1. N + 1 \in 1 .. N + 1 /\ (N + 1) - 1 = N /\ N \in 0 .. N
    BY <1>1
  <2>2. b[N + 1] = ParseLine(b[N], t[N + 1])
    BY <1>3, <2>1
  <2> QED
    BY <1>1, <1>7, <2>1, <2>2
<1> QED
  BY <1>7, <1>8 DEF t, a, b, N

LatestOf(less) == IF less = {} THEN 0 ELSE CHOOSE j \in less : \A k \in less : k <= j

LEMMA GroupAboveSame ==
    ASSUME NEW S, NEW s \in Seq(S), NEW x \in S, NEW i \in 1 .. Len(s)
    PROVE  GroupAbove(Append(s, x), i) = GroupAbove(s, i)
<1> DEFINE t == Append(s, x)
<1>1. \A j \in 1 .. i : t[j] = s[j]
  OBVIOUS
<1>2. i \in Nat
  OBVIOUS
<1> HIDE DEF t
<1>3. {j \in 1 .. i - 1 : t[j].width < t[i].width} = {j \in 1 .. i - 1 : s[j].width < s[i].width}
  BY <1>1, <1>2
<1>4. /\ GroupAbove(t, i) = LatestOf({j \in 1 .. i - 1 : t[j].width < t[i].width})
      /\ GroupAbove(s, i) = LatestOf({j \in 1 .. i - 1 : s[j].width < s[i].width})
  BY DEF GroupAbove, LatestOf
<1>5. GroupAbove(t, i) = GroupAbove(s, i)
  BY <1>3, <1>4
<1> QED
  BY <1>5 DEF t

LEMMA DrawnOneMore ==
    ASSUME NEW S, NEW s \in Seq(S), NEW x \in S
    PROVE  /\ \A i \in 0 .. Len(s) : Drawn(Append(s, x))[i] = Drawn(s)[i]
           /\ Drawn(Append(s, x))[Len(s) + 1]
                = Append(Drawn(s)[GroupAbove(Append(s, x), Len(s) + 1)], x.name)
<1> DEFINE t == Append(s, x)
           a == Drawn(s)
           b == Drawn(t)
           N == Len(s)
           Good == {n \in Nat : \A i \in 0 .. N : i <= n => b[i] = a[i]}
<1>1. Len(t) = N + 1 /\ N \in Nat /\ t[N + 1] = x /\ \A i \in 1 .. N : t[i] = s[i]
  OBVIOUS
<1>2. a[0] = <<>> /\ \A i \in 1 .. N : a[i] = Append(a[GroupAbove(s, i)], s[i].name)
  BY <1>1, DrawnIs
<1>3. b[0] = <<>> /\ \A i \in 1 .. N + 1 : b[i] = Append(b[GroupAbove(t, i)], t[i].name)
  <2> HIDE DEF t
  <2>1. Len(t) \in Nat
    BY <1>1
  <2> QED
    BY <1>1, <2>1, DrawnIs
<1>4. \A i \in 1 .. N : GroupAbove(t, i) = GroupAbove(s, i) /\ GroupAbove(s, i) \in 0 .. i - 1
  BY GroupAboveSame, GroupAboveBefore
<1>5. GroupAbove(t, N + 1) \in 0 .. N
  <2>1. N + 1 \in Nat \ {0} /\ (N + 1) - 1 = N
    BY <1>1
  <2> HIDE DEF t, N
  <2>2. GroupAbove(t, N + 1) \in 0 .. (N + 1) - 1
    BY <2>1, GroupAboveBefore
  <2> QED
    BY <2>1, <2>2
<1> HIDE DEF t, a, b, N
<1>6. 0 \in Good
  BY <1>1, <1>2, <1>3
<1>7. ASSUME NEW n \in Nat, n \in Good PROVE n + 1 \in Good
  <2>1. SUFFICES ASSUME n + 1 <= N PROVE b[n + 1] = a[n + 1]
    BY <1>1, <1>7
  <2>2. n + 1 \in 1 .. N /\ n + 1 \in 1 .. N + 1 /\ (n + 1) - 1 = n
    BY <1>1, <2>1
  <2>3. GroupAbove(t, n + 1) = GroupAbove(s, n + 1) /\ GroupAbove(s, n + 1) \in 0 .. n
    BY <1>4, <2>2
  <2>4. b[GroupAbove(s, n + 1)] = a[GroupAbove(s, n + 1)]
    BY <1>1, <1>7, <2>1, <2>3
  <2>5. /\ b[n + 1] = Append(b[GroupAbove(t, n + 1)], t[n + 1].name)
        /\ a[n + 1] = Append(a[GroupAbove(s, n + 1)], s[n + 1].name)
    BY <1>2, <1>3, <2>2
  <2> QED
    BY <1>1, <2>2, <2>3, <2>4, <2>5
<1>8. Nat \subseteq Good
  <2> HIDE DEF Good
  <2> QED
    BY <1>6, <1>7, AllNumbers
<1>9. \A i \in 0 .. N : b[i] = a[i]
  BY <1>1, <1>8
<1>10. b[N + 1] = Append(a[GroupAbove(t, N + 1)], x.name)
  <2>1. N + 1 \in 1 .. N + 1
    BY <1>1
  <2>2. b[N + 1] = Append(b[GroupAbove(t, N + 1)], t[N + 1].name)
    BY <1>3, <2>1
  <2> QED
    BY <1>1, <1>5, <1>9, <2>2
<1> QED
  BY <1>9, <1>10 DEF t, a, b, N

LineNames == {line.name : line \in TextLines}
Paths == Seq(LineNames)

IssueCodes == {"BAD_INDENT", "BAD_USER_LINE", "DUPLICATE_USERNAME_IN_FILE", "NAME_TOO_LONG",
               "GROUP_DEPTH_EXCEEDED", "DUPLICATE_GROUP_IN_FILE"}

\* What the parser may know.
ReadStates ==
    [widths : Seq(Nat), path : Paths, lastUser : Int, groups : Seq(Paths),
     users : Seq([name : LineNames, path : Paths]), issues : SUBSET IssueCodes]

Read(s) == AfterLines(s)[Len(s)]

IsGroup(s, i) == s[i].kind = "group"

\* The lines the latest one is drawn under, and itself: at[k] is the one of level k - 1.
IsStack(s, st, at) ==
    LET L == Len(st.widths)
        n == Len(s)
    IN
    /\ at \in [0 .. L -> 0 .. n] /\ at[0] = 0 /\ at[L] = n
    /\ \A k \in 1 .. L : at[k] # 0 /\ st.widths[k] = s[at[k]].width
    /\ \A j \in 0 .. L, k \in 0 .. L : j < k => at[j] < at[k]
    /\ \A j \in 1 .. L, k \in 1 .. L : j < k => st.widths[j] < st.widths[k]
    /\ \A k \in 1 .. L : \A j \in at[k - 1] + 1 .. n : st.widths[k] <= s[j].width

\* The path is that of the latest line, or of those it is under when it is a user's.
PathFits(s, st, at) ==
    LET L == Len(st.widths) IN
    /\ \A k \in 0 .. L : k < L \/ L = 0 \/ IsGroup(s, at[k]) =>
          k <= Len(st.path) /\ Drawn(s)[at[k]] = SubSeq(st.path, 1, k)
    /\ \A k \in 1 .. L : k < L => IsGroup(s, at[k])
    /\ IF L = 0 \/ IsGroup(s, Len(s)) THEN st.lastUser = NoLevel
       ELSE st.lastUser = L - 1 /\ s[Len(s)].kind = "user"
    /\ L = 0 <=> s = <<>>

\* All groups and users so far have been taken.
Collected(s, st) ==
    /\ \A p : (\E i \in DOMAIN st.groups : st.groups[i] = p) <=>
                 \E i \in DOMAIN s : IsGroup(s, i) /\ p = Drawn(s)[i]
    /\ \A u : (\E i \in DOMAIN st.users : st.users[i] = u) <=>
                 \E i \in DOMAIN s : /\ s[i].kind = "user"
                                     /\ u = [name |-> s[i].name, path |-> Drawn(s)[GroupAbove(s, i)]]

LEMMA LineFacts ==
    ASSUME NEW line \in TextLines
    PROVE  /\ line.width \in Nat \cup {NoWidth} /\ line.width \in Int /\ line.name \in LineNames
           /\ line.kind \in {"user", "group", "badUser", "longName"}
BY LinesAssumption DEF LineNames, NoWidth

LEMMA LevelsOfStack ==
    ASSUME NEW widths \in Seq(Nat), NEW width,
           \A j \in 1 .. Len(widths), k \in 1 .. Len(widths) : j < k => widths[j] < widths[k]
    PROVE  /\ \A k \in 1 .. Len(widths) : widths[k] = width /\ ~(width > widths[Len(widths)]) => LevelOf(widths, width) = k - 1
           /\ Len(widths) = 0 => LevelOf(widths, width) = 0
           /\ Len(widths) # 0 /\ width > widths[Len(widths)] => LevelOf(widths, width) = Len(widths)
           /\ Len(widths) # 0 /\ ~(width > widths[Len(widths)])
                /\ (\A k \in 1 .. Len(widths) : widths[k] # width) => LevelOf(widths, width) = NoLevel
<1>1. widths # <<>> <=> Len(widths) # 0
  OBVIOUS
<1>2. DOMAIN widths = 1 .. Len(widths) /\ Len(widths) \in Nat
  OBVIOUS
<1>3. Last(widths) = widths[Len(widths)]
  BY DEF Last
<1>4. ASSUME NEW k \in 1 .. Len(widths), widths[k] = width, ~(width > widths[Len(widths)])
      PROVE  LevelOf(widths, width) = k - 1
  <2>1. LevelOf(widths, width) = (CHOOSE i \in 1 .. Len(widths) : widths[i] = width) - 1
    BY <1>1, <1>2, <1>3, <1>4 DEF LevelOf
  <2>2. \A i \in 1 .. Len(widths) : widths[i] = width => i = k
    <3> SUFFICES ASSUME NEW i \in 1 .. Len(widths), widths[i] = width, i # k PROVE FALSE
      OBVIOUS
    <3>1. i < k \/ k < i
      OBVIOUS
    <3>2. widths[i] < widths[k] \/ widths[k] < widths[i]
      BY <3>1
    <3>3. widths[k] \in Nat
      OBVIOUS
    <3> QED
      BY <1>4, <3>2, <3>3
  <2> QED
    BY <1>4, <2>1, <2>2
<1> QED
  BY <1>1, <1>2, <1>3, <1>4 DEF LevelOf

\* Every line of a text that is clear is on a level that is open.
LEMMA LevelFacts ==
    ASSUME NEW s \in Seq(TextLines), NEW st \in ReadStates, NEW at, IsStack(s, st, at), NEW v \in Nat,
           Len(st.widths) = 0 <=> s = <<>>
    PROVE  LET L == Len(st.widths)
               l == LevelOf(st.widths, v)
               onLine == s = <<>> \/ v > s[Len(s)].width
                            \/ \E j \in 1 .. Len(s) : s[j].width = v /\ \A k \in j .. Len(s) : s[k].width >= v
           IN  /\ l = NoLevel \/ l \in 0 .. L
               /\ l # NoLevel <=> onLine
               /\ l # NoLevel => /\ \A k \in 1 .. l : st.widths[k] < v
                                 /\ \A j \in at[l] + 1 .. Len(s) : v <= s[j].width
                                 /\ l < L => st.widths[l + 1] = v
<1> DEFINE W == st.widths
           L == Len(W)
           l == LevelOf(W, v)
           n == Len(s)
           onLine == s = <<>> \/ v > s[n].width \/ \E j \in 1 .. n : s[j].width = v /\ \A k \in j .. n : s[k].width >= v
<1>1. /\ W \in Seq(Nat) /\ L \in Nat /\ n \in Nat /\ (L = 0 <=> n = 0) /\ (n = 0 <=> s = <<>>)
      /\ \A k \in 1 .. L : W[k] \in Nat
      /\ \A i \in 1 .. n : s[i].width \in Int
  BY LineFacts DEF ReadStates
<1>2. /\ at \in [0 .. L -> 0 .. n] /\ at[0] = 0 /\ at[L] = n
      /\ \A k \in 1 .. L : at[k] # 0 /\ W[k] = s[at[k]].width
      /\ \A j \in 0 .. L, k \in 0 .. L : j < k => at[j] < at[k]
      /\ \A j \in 1 .. L, k \in 1 .. L : j < k => W[j] < W[k]
      /\ \A k \in 1 .. L : \A j \in at[k - 1] + 1 .. n : W[k] <= s[j].width
  BY DEF IsStack
<1>3. /\ \A k \in 1 .. L : W[k] = v /\ ~(v > W[L]) => l = k - 1
      /\ L = 0 => l = 0
      /\ L # 0 /\ v > W[L] => l = L
      /\ L # 0 /\ ~(v > W[L]) /\ (\A k \in 1 .. L : W[k] # v) => l = NoLevel
  BY <1>1, <1>2, LevelsOfStack
<1> HIDE DEF W, L, l, n
<1>4. L # 0 => W[L] = s[n].width
  BY <1>1, <1>2
<1>5. CASE L = 0
  <2>1. l = 0 /\ NoLevel # 0 /\ n = 0 /\ at[0] = 0 /\ onLine
    BY <1>1, <1>2, <1>3, <1>5 DEF NoLevel
  <2> QED
    BY <1>1, <1>5, <2>1 DEF W, L, l, n
<1>6. CASE L # 0 /\ v > W[L]
  <2>1. l = L /\ l # NoLevel /\ at[l] = n /\ onLine
    <3>1. l = L /\ at[L] = n
      BY <1>2, <1>3, <1>6
    <3>2. L # NoLevel
      BY <1>1 DEF NoLevel
    <3>3. v > s[n].width
      BY <1>4, <1>6
    <3> QED
      BY <3>1, <3>2, <3>3
  <2>2. ASSUME NEW k \in 1 .. L PROVE W[k] < v
    <3>1. k = L \/ W[k] < W[L]
      <4>1. L \in 1 .. L /\ (k = L \/ k < L)
        BY <1>1, <1>6
      <4> QED
        BY <1>2, <4>1
    <3>2. W[k] \in Nat /\ W[L] \in Nat
      BY <1>1, <1>6
    <3> QED
      BY <1>6, <3>1, <3>2
  <2>3. /\ \A k \in 1 .. l : W[k] < v
        /\ \A j \in at[l] + 1 .. n : v <= s[j].width
        /\ l < L => W[l + 1] = v
        /\ l \in 0 .. L
    BY <1>1, <2>1, <2>2
  <2> QED
    BY <2>1, <2>3 DEF W, L, l, n
<1>7. ASSUME ~(v > W[L]), NEW i \in 1 .. L, W[i] = v PROVE onLine /\ l = i - 1 /\ l # NoLevel /\ l \in 0 .. L
                                         /\ (\A k \in 1 .. l : W[k] < v)
                                         /\ (\A j \in at[l] + 1 .. n : v <= s[j].width)
                                         /\ (l < L => W[l + 1] = v)
  <2>1. l = i - 1 /\ l # NoLevel /\ l \in 0 .. L /\ l + 1 = i
    BY <1>1, <1>3, <1>7 DEF NoLevel
  <2>2. ASSUME NEW k \in 1 .. l PROVE W[k] < v
    <3>1. k \in 1 .. L /\ k < i
      BY <1>1, <2>1
    <3> QED
      BY <1>2, <1>7, <3>1
  <2>3. \A j \in at[l] + 1 .. n : v <= s[j].width
    BY <1>2, <1>7, <2>1
  <2>4. /\ at[i] \in 1 .. n /\ s[at[i]].width = v
        /\ \A k \in at[i] .. n : k \in at[i - 1] + 1 .. n
    <3>1. at[i - 1] < at[i] /\ at[i] \in 0 .. n /\ at[i - 1] \in 0 .. n /\ i - 1 \in 0 .. L /\ i \in 0 .. L
      BY <1>1, <1>2
    <3>2. at[i] \in 1 .. n
      BY <1>1, <3>1
    <3>3. s[at[i]].width = v
      BY <1>2, <1>7
    <3>4. \A k \in at[i] .. n : k \in at[i - 1] + 1 .. n
      BY <1>1, <3>1
    <3> QED
      BY <3>2, <3>3, <3>4
  <2>5. onLine
    <3>1. \A k \in at[i] .. n : s[k].width >= v
      <4>1. ASSUME NEW k \in at[i] .. n PROVE s[k].width >= v
        <5>1. W[i] <= s[k].width
          BY <1>2, <2>4
        <5>2. k \in 1 .. n
          BY <1>1, <2>4
        <5>3. s[k].width \in Int
          BY <1>1, <5>2
        <5> QED
          BY <1>7, <5>1, <5>3
      <4> QED
        BY <4>1
    <3> QED
      BY <2>4, <3>1
  <2> QED
    BY <1>7, <2>1, <2>2, <2>3, <2>5
<1>8. ASSUME L # 0, ~(v > W[L]), \A k \in 1 .. L : W[k] # v
      PROVE  l = NoLevel /\ ~onLine
  <2>1. l = NoLevel
    BY <1>3, <1>8
  <2>2. SUFFICES ASSUME NEW j \in 1 .. n, s[j].width = v, \A k \in j .. n : s[k].width >= v PROVE FALSE
    BY <1>1, <1>4, <1>8, <2>1
  \* The lines from j on are too deep for every level, from the first one.
  <2> DEFINE Good == {m \in Nat : m <= L => at[m] < j}
  <2>3. 0 \in Good
    BY <1>2
  <2>4. ASSUME NEW m \in Nat, m \in Good PROVE m + 1 \in Good
    <3>1. SUFFICES ASSUME m + 1 <= L PROVE at[m + 1] < j
      OBVIOUS
    <3>2. m + 1 \in 1 .. L /\ (m + 1) - 1 = m /\ m \in 0 .. L /\ at[m] < j /\ at[m] \in 0 .. n /\ at[m + 1] \in 0 .. n
      BY <1>1, <1>2, <2>4, <3>1
    <3>3. j \in at[m] + 1 .. n
      BY <1>1, <3>2
    <3>4. W[m + 1] <= v
      BY <1>2, <2>2, <3>2, <3>3
    <3>5. W[m + 1] < v
      BY <1>1, <1>8, <3>2, <3>4
    <3>6. ~(at[m + 1] >= j)
      <4>1. at[m + 1] >= j => s[at[m + 1]].width >= v
        BY <1>1, <2>2, <3>2
      <4> QED
        BY <1>1, <1>2, <3>2, <3>5, <4>1
    <3> QED
      BY <1>1, <3>2, <3>6
  <2>5. Nat \subseteq Good
    <3> HIDE DEF Good
    <3> QED
      BY <2>3, <2>4, AllNumbers
  <2> QED
    BY <1>1, <1>2, <2>5
<1>9. CASE L # 0 /\ ~(v > W[L])
  <2>1. CASE \E i \in 1 .. L : W[i] = v
    BY <1>7, <1>9, <2>1 DEF W, L, l, n
  <2>2. CASE \A k \in 1 .. L : W[k] # v
    BY <1>8, <1>9, <2>2 DEF W, L, l, n
  <2> QED
    BY <2>1, <2>2
<1> QED
  BY <1>5, <1>6, <1>9

\* What a line more must be for a text that is clear to stay so.
StaysClear(s, x) ==
    LET t == Append(s, x)
        n == Len(s) + 1
        above == GroupAbove(t, n)
    IN
    /\ x.kind \in {"group", "user"} /\ x.width # NoWidth
    /\ above = 0 \/ IsGroup(s, above)
    /\ s = <<>> \/ x.width > s[Len(s)].width
         \/ \E j \in 1 .. Len(s) : s[j].width = x.width /\ \A k \in j .. Len(s) : s[k].width >= x.width
    /\ x.kind = "group" =>
         /\ Len(Drawn(t)[n]) <= MaxGroupDepth
         /\ \A i \in 1 .. Len(s) : IsGroup(s, i) => Drawn(s)[i] # Drawn(t)[n]
    /\ x.kind = "user" => \A i \in 1 .. Len(s) : s[i].kind = "user" => s[i].name # x.name

IsClearLine(lines, i) ==
    /\ lines[i].kind \in {"group", "user"}
    /\ lines[i].width # NoWidth
    /\ GroupAbove(lines, i) = 0 \/ IsGroup(lines, GroupAbove(lines, i))
    /\ i = 1 \/ lines[i].width > lines[i - 1].width
         \/ \E j \in 1 .. i - 1 : /\ lines[j].width = lines[i].width
                                  /\ \A k \in j .. i : lines[k].width >= lines[i].width
    /\ IsGroup(lines, i) =>
         /\ Len(Drawn(lines)[i]) <= MaxGroupDepth
         /\ \A j \in 1 .. i - 1 : IsGroup(lines, j) => Drawn(lines)[j] # Drawn(lines)[i]
    /\ lines[i].kind = "user" =>
         \A j \in 1 .. i - 1 : lines[j].kind = "user" => lines[j].name # lines[i].name

\* A text is clear when each of its lines is, after those before it.
LEMMA ClearByLines ==
    ASSUME NEW S, NEW lines \in Seq(S)
    PROVE  IsClear(lines) <=> lines # <<>> /\ \A i \in 1 .. Len(lines) : IsClearLine(lines, i)
<1> DEFINE N == Len(lines)
           D == Drawn(lines)
           Of(kind) == {i \in DOMAIN lines : lines[i].kind = kind}
           Each == /\ \A i \in 1 .. N : lines[i].kind \in {"group", "user"}
                   /\ \A i \in 1 .. N :
                         /\ lines[i].width # NoWidth
                         /\ GroupAbove(lines, i) = 0 \/ IsGroup(lines, GroupAbove(lines, i))
                         /\ i = 1 \/ lines[i].width > lines[i - 1].width
                              \/ \E j \in 1 .. i - 1 : /\ lines[j].width = lines[i].width
                                                       /\ \A k \in j .. i : lines[k].width >= lines[i].width
                   /\ \A i \in 1 .. N : IsGroup(lines, i) =>
                         Len(D[i]) <= MaxGroupDepth /\ \A j \in 1 .. N : IsGroup(lines, j) /\ D[i] = D[j] => i = j
                   /\ \A i \in 1 .. N, j \in 1 .. N : lines[i].kind = "user" /\ lines[j].kind = "user"
                                                        /\ lines[i].name = lines[j].name => i = j
<1>1. DOMAIN lines = 1 .. N /\ N \in Nat
  OBVIOUS
<1>2. \A i \in 1 .. N : GroupAbove(lines, i) \in 0 .. i - 1
  BY <1>1, GroupAboveBefore
<1>3. \A kind : Of(kind) = {i \in 1 .. N : lines[i].kind = kind}
  BY <1>1
<1>4. IsClear(lines) <=> lines # <<>> /\ Each
  <2>1. 1 .. N = Of("group") \cup Of("user") <=> \A i \in 1 .. N : lines[i].kind \in {"group", "user"}
    BY <1>1
  <2>2. \A i \in 1 .. N : GroupAbove(lines, i) \in Of("group") \cup {0}
                            <=> GroupAbove(lines, i) = 0 \/ IsGroup(lines, GroupAbove(lines, i))
    BY <1>1, <1>2 DEF IsGroup
  <2> HIDE DEF D
  <2>3. (\A i \in Of("group") :
           Len(D[i]) <= MaxGroupDepth /\ \A j \in Of("group") : D[i] = D[j] => i = j)
        <=> \A i \in 1 .. N : IsGroup(lines, i) =>
               Len(D[i]) <= MaxGroupDepth /\ \A j \in 1 .. N : IsGroup(lines, j) /\ D[i] = D[j] => i = j
    BY <1>1 DEF IsGroup
  <2>4. (\A i, j \in Of("user") : lines[i].name = lines[j].name => i = j)
        <=> \A i \in 1 .. N, j \in 1 .. N : lines[i].kind = "user" /\ lines[j].kind = "user"
                                              /\ lines[i].name = lines[j].name => i = j
    BY <1>1
  <2> HIDE DEF N, Of
  <2>5. IsClear(lines) <=>
          /\ lines # <<>>
          /\ 1 .. N = Of("group") \cup Of("user")
          /\ \A i \in 1 .. N :
                /\ lines[i].width # NoWidth
                /\ GroupAbove(lines, i) \in Of("group") \cup {0}
                /\ i = 1 \/ lines[i].width > lines[i - 1].width
                      \/ \E j \in 1 .. i - 1 : /\ lines[j].width = lines[i].width
                                               /\ \A k \in j .. i : lines[k].width >= lines[i].width
          /\ \A i \in Of("group") :
                Len(D[i]) <= MaxGroupDepth /\ \A j \in Of("group") : D[i] = D[j] => i = j
          /\ \A i, j \in Of("user") : lines[i].name = lines[j].name => i = j
    BY <1>1 DEF IsClear, Of, D
  <2> QED
    BY <2>1, <2>2, <2>3, <2>4, <2>5
<1> HIDE DEF D, N
<1>5. Each => \A i \in 1 .. N : IsClearLine(lines, i)
  <2> SUFFICES ASSUME Each, NEW i \in 1 .. N PROVE IsClearLine(lines, i)
    OBVIOUS
  <2>1. \A j \in 1 .. i - 1 : j \in 1 .. N /\ j # i
    BY <1>1
  <2>2. IsGroup(lines, i) => \A j \in 1 .. i - 1 : IsGroup(lines, j) => D[j] # D[i]
    BY <2>1
  <2>3. lines[i].kind = "user" => \A j \in 1 .. i - 1 : lines[j].kind = "user" => lines[j].name # lines[i].name
    BY <2>1
  <2> QED
    BY <2>2, <2>3 DEF IsClearLine, D
<1>6. (\A i \in 1 .. N : IsClearLine(lines, i)) => Each
  <2> SUFFICES ASSUME \A i \in 1 .. N : IsClearLine(lines, i) PROVE Each
    OBVIOUS
  <2>1. \A i \in 1 .. N : IsGroup(lines, i) =>
           Len(D[i]) <= MaxGroupDepth /\ \A j \in 1 .. i - 1 : IsGroup(lines, j) => D[j] # D[i]
    BY DEF IsClearLine, D
  <2>2. \A i \in 1 .. N : lines[i].kind = "user" =>
           \A j \in 1 .. i - 1 : lines[j].kind = "user" => lines[j].name # lines[i].name
    BY DEF IsClearLine
  <2>3. \A i \in 1 .. N, j \in 1 .. N : i = j \/ i \in 1 .. j - 1 \/ j \in 1 .. i - 1
    BY <1>1
  <2>4. \A i \in 1 .. N : IsGroup(lines, i) => \A j \in 1 .. N : IsGroup(lines, j) /\ D[i] = D[j] => i = j
    BY <2>1, <2>3
  <2>5. \A i \in 1 .. N, j \in 1 .. N : lines[i].kind = "user" /\ lines[j].kind = "user"
                                          /\ lines[i].name = lines[j].name => i = j
    BY <2>2, <2>3
  <2>6. /\ \A i \in 1 .. N : lines[i].kind \in {"group", "user"}
        /\ \A i \in 1 .. N :
              /\ lines[i].width # NoWidth
              /\ GroupAbove(lines, i) = 0 \/ IsGroup(lines, GroupAbove(lines, i))
              /\ i = 1 \/ lines[i].width > lines[i - 1].width
                   \/ \E j \in 1 .. i - 1 : /\ lines[j].width = lines[i].width
                                            /\ \A k \in j .. i : lines[k].width >= lines[i].width
    BY DEF IsClearLine
  <2> QED
    BY <2>1, <2>4, <2>5, <2>6
<1> HIDE DEF Each
<1> QED
  BY <1>4, <1>5, <1>6 DEF N

LEMMA ClearStep ==
    ASSUME NEW s \in Seq(TextLines), NEW x \in TextLines
    PROVE  IsClear(Append(s, x)) <=> (s = <<>> \/ IsClear(s)) /\ StaysClear(s, x)
<1> DEFINE t == Append(s, x)
           N == Len(s)
<1>1. /\ t \in Seq(TextLines) /\ t # <<>> /\ Len(t) = N + 1 /\ N \in Nat /\ t[N + 1] = x
      /\ \A i \in 1 .. N : t[i] = s[i]
      /\ (s = <<>> <=> N = 0)
  OBVIOUS
<1>2. /\ \A i \in 0 .. N : Drawn(t)[i] = Drawn(s)[i]
      /\ \A i \in 1 .. N : GroupAbove(t, i) = GroupAbove(s, i) /\ GroupAbove(s, i) \in 0 .. i - 1
  BY DrawnOneMore, GroupAboveSame, GroupAboveBefore
<1>3. GroupAbove(t, N + 1) \in 0 .. N
  <2>1. N + 1 \in Nat \ {0} /\ (N + 1) - 1 = N
    BY <1>1
  <2> HIDE DEF t, N
  <2>2. GroupAbove(t, N + 1) \in 0 .. (N + 1) - 1
    BY <2>1, GroupAboveBefore
  <2> QED
    BY <2>1, <2>2
<1>4. IsClear(s) <=> s # <<>> /\ \A i \in 1 .. N : IsClearLine(s, i)
  BY ClearByLines
<1> HIDE DEF t, N
<1>5. IsClear(t) <=> \A i \in 1 .. N + 1 : IsClearLine(t, i)
  BY <1>1, ClearByLines
<1>6. ASSUME NEW i \in 1 .. N PROVE IsClearLine(t, i) <=> IsClearLine(s, i)
  <2>1. /\ t[i] = s[i] /\ GroupAbove(t, i) = GroupAbove(s, i) /\ Drawn(t)[i] = Drawn(s)[i]
        /\ \A j \in 1 .. i : t[j] = s[j] /\ Drawn(t)[j] = Drawn(s)[j]
        /\ i # 1 => t[i - 1] = s[i - 1]
    BY <1>1, <1>2
  <2>2. GroupAbove(s, i) # 0 => t[GroupAbove(s, i)] = s[GroupAbove(s, i)]
    BY <1>1, <1>2
  <2>3. (\E j \in 1 .. i - 1 : t[j].width = t[i].width /\ \A k \in j .. i : t[k].width >= t[i].width)
        <=> \E j \in 1 .. i - 1 : s[j].width = s[i].width /\ \A k \in j .. i : s[k].width >= s[i].width
    <3>1. \A j \in 1 .. i - 1 : j \in 1 .. i /\ \A k \in j .. i : k \in 1 .. i
      BY <1>1
    <3> QED
      BY <2>1, <3>1
  <2>4. \A j \in 1 .. i - 1 : j \in 1 .. i
    BY <1>1
  <2> QED
    BY <2>1, <2>2, <2>3, <2>4 DEF IsClearLine, IsGroup
<1>7. IsClearLine(t, N + 1) <=> StaysClear(s, x)
  <2>1. (N + 1) - 1 = N /\ (N # 0 => N \in 1 .. N) /\ (N + 1 = 1 <=> N = 0)
    BY <1>1
  <2>2. GroupAbove(t, N + 1) # 0 => t[GroupAbove(t, N + 1)] = s[GroupAbove(t, N + 1)]
    BY <1>1, <1>3
  <2>3. (\E j \in 1 .. N : t[j].width = x.width /\ \A k \in j .. N + 1 : t[k].width >= x.width)
        <=> \E j \in 1 .. N : s[j].width = x.width /\ \A k \in j .. N : s[k].width >= x.width
    <3>1. ASSUME NEW j \in 1 .. N
          PROVE  (\A k \in j .. N + 1 : t[k].width >= x.width) <=> \A k \in j .. N : s[k].width >= x.width
      <4>1. x.width >= x.width /\ t[N + 1] = x
        BY <1>1, LineFacts
      <4>2. \A k \in j .. N + 1 : k = N + 1 \/ k \in j .. N
        BY <1>1
      <4>3. \A k \in j .. N : k \in j .. N + 1 /\ t[k] = s[k]
        BY <1>1
      <4> QED
        BY <4>1, <4>2, <4>3
    <3> QED
      BY <1>1, <3>1
  <2>4. \A j \in 1 .. N : t[j] = s[j] /\ Drawn(t)[j] = Drawn(s)[j]
    BY <1>1, <1>2
  <2>5. s = <<>> \/ x.width > s[N].width <=> N + 1 = 1 \/ t[N + 1].width > t[(N + 1) - 1].width
    BY <1>1, <2>1
  <2>6. StaysClear(s, x) <=>
          /\ x.kind \in {"group", "user"} /\ x.width # NoWidth
          /\ GroupAbove(t, N + 1) = 0 \/ IsGroup(s, GroupAbove(t, N + 1))
          /\ s = <<>> \/ x.width > s[N].width
               \/ \E j \in 1 .. N : s[j].width = x.width /\ \A k \in j .. N : s[k].width >= x.width
          /\ x.kind = "group" =>
               /\ Len(Drawn(t)[N + 1]) <= MaxGroupDepth
               /\ \A i \in 1 .. N : IsGroup(s, i) => Drawn(s)[i] # Drawn(t)[N + 1]
          /\ x.kind = "user" => \A i \in 1 .. N : s[i].kind = "user" => s[i].name # x.name
    BY DEF StaysClear, t, N
  <2>7. IsClearLine(t, N + 1) <=>
          /\ x.kind \in {"group", "user"} /\ x.width # NoWidth
          /\ GroupAbove(t, N + 1) = 0 \/ IsGroup(t, GroupAbove(t, N + 1))
          /\ N + 1 = 1 \/ t[N + 1].width > t[(N + 1) - 1].width
               \/ \E j \in 1 .. N : t[j].width = x.width /\ \A k \in j .. N + 1 : t[k].width >= x.width
          /\ IsGroup(t, N + 1) =>
               /\ Len(Drawn(t)[N + 1]) <= MaxGroupDepth
               /\ \A j \in 1 .. N : IsGroup(t, j) => Drawn(t)[j] # Drawn(t)[N + 1]
          /\ x.kind = "user" => \A j \in 1 .. N : t[j].kind = "user" => t[j].name # x.name
    BY <1>1, <2>1 DEF IsClearLine
  <2> QED
    BY <1>1, <2>2, <2>3, <2>4, <2>5, <2>6, <2>7 DEF IsGroup
<1>8. \A i \in 1 .. N + 1 : i \in 1 .. N \/ i = N + 1
  BY <1>1
<1>9. N + 1 \in 1 .. N + 1 /\ \A i \in 1 .. N : i \in 1 .. N + 1
  BY <1>1
<1>10. IsClear(t) <=> (\A i \in 1 .. N : IsClearLine(s, i)) /\ StaysClear(s, x)
  BY <1>5, <1>6, <1>7, <1>8, <1>9
<1>11. N = 0 => \A i \in 1 .. N : IsClearLine(s, i)
  BY <1>1
<1> QED
  BY <1>1, <1>4, <1>10, <1>11 DEF t, N

\* A line on level l closes the deeper ones.
StackWith(at, l, n) == [k \in 0 .. l + 1 |-> IF k = l + 1 THEN n ELSE at[k]]

LEMMA StackGrows ==
    ASSUME NEW s \in Seq(TextLines), NEW x \in TextLines, NEW st \in ReadStates, NEW at, IsStack(s, st, at),
           x.width \in Nat, NEW l \in 0 .. Len(st.widths),
           \A k \in 1 .. l : st.widths[k] < x.width,
           \A j \in at[l] + 1 .. Len(s) : x.width <= s[j].width,
           NEW new, new.widths = Append(SubSeq(st.widths, 1, l), x.width)
    PROVE  IsStack(Append(s, x), new, StackWith(at, l, Len(s) + 1))
<1> DEFINE W == st.widths
           L == Len(W)
           V == new.widths
           n == Len(s)
           t == Append(s, x)
           v == x.width
           b == StackWith(at, l, n + 1)
<1>1. W \in Seq(Nat) /\ L \in Nat /\ n \in Nat /\ l \in Nat /\ l <= L /\ \A k \in 1 .. L : W[k] \in Nat
  BY DEF ReadStates
<1>2. Len(V) = l + 1 /\ V[l + 1] = v /\ \A k \in 1 .. l : V[k] = W[k]
  BY <1>1
<1>3. Len(t) = n + 1 /\ t[n + 1] = x /\ \A i \in 1 .. n : t[i] = s[i]
  OBVIOUS
<1>4. /\ at \in [0 .. L -> 0 .. n] /\ at[0] = 0
      /\ \A k \in 1 .. L : at[k] # 0 /\ W[k] = s[at[k]].width
      /\ \A j \in 0 .. L, k \in 0 .. L : j < k => at[j] < at[k]
      /\ \A j \in 1 .. L, k \in 1 .. L : j < k => W[j] < W[k]
      /\ \A k \in 1 .. L : \A j \in at[k - 1] + 1 .. n : W[k] <= s[j].width
  BY DEF IsStack
<1> HIDE DEF W, L, V, n, t, v
<1>5. b \in [0 .. l + 1 -> 0 .. n + 1] /\ b[l + 1] = n + 1 /\ \A k \in 0 .. l : b[k] = at[k] /\ at[k] \in 0 .. n
  <2>1. \A k \in 0 .. l : k \in 0 .. L /\ k # l + 1 /\ k \in 0 .. l + 1
    BY <1>1
  <2>2. \A k \in 0 .. l + 1 : k = l + 1 \/ k \in 0 .. l
    BY <1>1
  <2>3. l + 1 \in 0 .. l + 1 /\ n + 1 \in 0 .. n + 1 /\ \A k \in 0 .. n : k \in 0 .. n + 1
    BY <1>1
  <2> QED
    BY <1>4, <2>1, <2>2, <2>3 DEF StackWith
<1> HIDE DEF b
<1>6. \A k \in 1 .. l + 1 : k = l + 1 \/ (k \in 1 .. l /\ k \in 1 .. L /\ k \in 0 .. l)
  BY <1>1
<1>7. \A k \in 0 .. l + 1 : k = l + 1 \/ (k \in 0 .. l /\ k \in 0 .. L)
  BY <1>1
<1>8. b[0] = 0
  BY <1>1, <1>4, <1>5
<1>9. ASSUME NEW k \in 1 .. l + 1 PROVE b[k] # 0 /\ V[k] = t[b[k]].width
  <2>1. CASE k = l + 1
    <3>1. b[k] = n + 1 /\ n + 1 # 0 /\ V[k] = v
      BY <1>1, <1>2, <1>5, <2>1
    <3> QED
      BY <1>3, <3>1 DEF v
  <2>2. CASE k \in 1 .. l
    <3>1. b[k] = at[k] /\ at[k] # 0 /\ at[k] \in 0 .. n /\ V[k] = W[k] /\ W[k] = s[at[k]].width
      <4>1. k \in 0 .. l /\ k \in 1 .. L
        BY <1>1, <2>2
      <4>2. b[k] = at[k] /\ at[k] \in 0 .. n
        BY <1>5, <4>1
      <4> QED
        BY <1>2, <1>4, <2>2, <4>1, <4>2
    <3>2. at[k] \in 1 .. n
      BY <1>1, <3>1
    <3> QED
      BY <1>3, <3>1, <3>2
  <2> QED
    BY <1>6, <2>1, <2>2
<1>10. ASSUME NEW j \in 0 .. l + 1, NEW k \in 0 .. l + 1, j < k PROVE b[j] < b[k]
  <2>1. j \in 0 .. l /\ j \in 0 .. L
    BY <1>1, <1>10
  <2>2. CASE k = l + 1
    <3>1. b[j] \in 0 .. n /\ b[k] = n + 1
      BY <1>5, <2>1, <2>2
    <3> QED
      BY <1>1, <3>1
  <2>3. CASE k \in 0 .. l /\ k \in 0 .. L
    BY <1>4, <1>5, <1>10, <2>1, <2>3
  <2> QED
    BY <1>7, <2>2, <2>3
<1>11. ASSUME NEW j \in 1 .. l + 1, NEW k \in 1 .. l + 1, j < k PROVE V[j] < V[k]
  <2>1. j \in 1 .. l /\ j \in 1 .. L
    BY <1>1, <1>11
  <2>2. CASE k = l + 1
    BY <1>2, <2>1, <2>2 DEF W, v
  <2>3. CASE k \in 1 .. l /\ k \in 1 .. L
    BY <1>2, <1>4, <1>11, <2>1, <2>3
  <2> QED
    BY <1>6, <2>2, <2>3
<1>12. ASSUME NEW k \in 1 .. l + 1, NEW j \in b[k - 1] + 1 .. n + 1 PROVE V[k] <= t[j].width
  <2>1. k - 1 \in 0 .. l /\ b[k - 1] = at[k - 1] /\ at[k - 1] \in 0 .. n
    BY <1>1, <1>5
  <2>2. j = n + 1 \/ (j \in at[k - 1] + 1 .. n /\ j \in 1 .. n)
    BY <1>1, <2>1
  <2>3. CASE j = n + 1
    <3>1. t[j].width = v /\ v \in Nat
      BY <1>3, <2>3 DEF v
    <3>2. k # l + 1 => V[k] = W[k] /\ W[k] < v /\ W[k] \in Nat
      BY <1>1, <1>2, <1>6 DEF W, v
    <3> QED
      BY <1>2, <3>1, <3>2
  <2>4. CASE j \in at[k - 1] + 1 .. n /\ j \in 1 .. n
    <3>1. t[j].width = s[j].width
      BY <1>3, <2>4
    <3>2. CASE k = l + 1
      <4>1. V[k] = v /\ k - 1 = l
        BY <1>1, <1>2, <3>2
      <4> QED
        BY <2>4, <3>1, <4>1 DEF n, v
    <3>3. CASE k \in 1 .. l /\ k \in 1 .. L
      BY <1>2, <1>4, <2>4, <3>1, <3>3
    <3> QED
      BY <1>6, <3>2, <3>3
  <2> QED
    BY <2>2, <2>3, <2>4
<1>13. IsStack(t, new, b)
  BY <1>2, <1>3, <1>5, <1>8, <1>9, <1>10, <1>11, <1>12 DEF IsStack, V
<1> QED
  BY <1>13 DEF t, b, n

\* What the parser knows of the line before it looks at it.
LEMMA LineIsPlaced ==
    ASSUME NEW s \in Seq(TextLines), NEW x \in TextLines, NEW st \in ReadStates, NEW at,
           IsStack(s, st, at), PathFits(s, st, at), x.width \in Nat,
           LevelOf(st.widths, x.width) # NoLevel
    PROVE  LET l == LevelOf(st.widths, x.width)
               t == Append(s, x)
               above == GroupAbove(t, Len(s) + 1)
           IN  /\ l \in 0 .. Len(st.widths) /\ above = at[l]
               /\ HasNoGroupAbove(st, l) <=> ~(above = 0 \/ IsGroup(s, above))
               /\ ~HasNoGroupAbove(st, l) =>
                     /\ l <= Len(st.path)
                     /\ Drawn(s)[above] = SubSeq(st.path, 1, l)
                     /\ Drawn(t)[Len(s) + 1] = Append(SubSeq(st.path, 1, l), x.name)
<1> DEFINE W == st.widths
           L == Len(W)
           n == Len(s)
           t == Append(s, x)
           v == x.width
           l == LevelOf(W, v)
           above == GroupAbove(t, n + 1)
           P == st.path
<1>1. /\ W \in Seq(Nat) /\ L \in Nat /\ n \in Nat /\ P \in Paths /\ Len(P) \in Nat /\ st.lastUser \in Int
      /\ (L = 0 <=> s = <<>>) /\ (s = <<>> <=> n = 0)
      /\ \A k \in 1 .. L : W[k] \in Nat
  BY DEF ReadStates, Paths, PathFits
<1>2. /\ l \in 0 .. L
      /\ \A k \in 1 .. l : W[k] < v
      /\ \A j \in at[l] + 1 .. n : v <= s[j].width
  BY <1>1, LevelFacts
<1>3. Len(t) = n + 1 /\ t[n + 1] = x /\ \A i \in 1 .. n : t[i] = s[i] /\ s[i].width \in Int
  BY LineFacts
<1>4. /\ at \in [0 .. L -> 0 .. n] /\ at[0] = 0 /\ at[L] = n
      /\ \A k \in 1 .. L : at[k] # 0 /\ W[k] = s[at[k]].width
  BY DEF IsStack
<1>5. /\ \A k \in 0 .. L : k < L \/ L = 0 \/ IsGroup(s, at[k]) =>
            k <= Len(P) /\ Drawn(s)[at[k]] = SubSeq(P, 1, k)
      /\ \A k \in 1 .. L : k < L => IsGroup(s, at[k])
      /\ IF L = 0 \/ IsGroup(s, n) THEN st.lastUser = NoLevel
         ELSE st.lastUser = L - 1 /\ s[n].kind = "user"
  BY DEF PathFits
<1>6. Drawn(t)[n + 1] = Append(Drawn(s)[above], x.name)
  BY DrawnOneMore
<1>7. HasNoGroupAbove(st, l) <=> (st.lastUser # NoLevel /\ l > st.lastUser) \/ Len(P) < l
  BY DEF HasNoGroupAbove
<1> HIDE DEF W, L, n, t, v, l, above, P
<1>8. above = at[l]
  <2>1. at[l] \in 0 .. n /\ (n + 1) - 1 = n /\ n + 1 \in Nat
    BY <1>1, <1>2, <1>4
  <2>2. at[l] # 0 => t[at[l]].width < t[n + 1].width
    <3>1. at[l] # 0 => l \in 1 .. L /\ l \in 1 .. l /\ at[l] \in 1 .. n
      BY <1>1, <1>2, <1>4, <2>1
    <3> QED
      BY <1>2, <1>3, <1>4, <3>1 DEF v
  <2>3. \A k \in at[l] + 1 .. n : ~(t[k].width < t[n + 1].width)
    <3> SUFFICES ASSUME NEW k \in at[l] + 1 .. n PROVE ~(t[k].width < t[n + 1].width)
      OBVIOUS
    <3>1. k \in 1 .. n
      BY <1>1, <2>1
    <3>2. v <= s[k].width /\ t[k] = s[k] /\ s[k].width \in Int /\ v \in Nat /\ t[n + 1].width = v
      BY <1>2, <1>3, <3>1 DEF v
    <3> QED
      BY <3>2
  <2>4. at[l] \in 0 .. (n + 1) - 1 /\ \A k \in at[l] + 1 .. (n + 1) - 1 : ~(t[k].width < t[n + 1].width)
    BY <2>1, <2>3
  <2>5. GroupAbove(t, n + 1) = at[l]
    BY <2>1, <2>2, <2>4, GroupAboveIs
  <2> QED
    BY <2>5 DEF above
<1>9. HasNoGroupAbove(st, l) <=> ~(above = 0 \/ IsGroup(s, above))
  <2>1. CASE L = 0
    <3>1. l = 0 /\ above = 0
      BY <1>2, <1>4, <1>8, <2>1
    <3> QED
      BY <1>1, <1>5, <1>7, <2>1, <3>1
  <2>2. CASE L # 0 /\ IsGroup(s, n)
    <3>1. st.lastUser = NoLevel /\ L <= Len(P)
      BY <1>1, <1>4, <1>5, <2>2
    <3>2. ~HasNoGroupAbove(st, l)
      BY <1>1, <1>2, <1>7, <3>1
    <3>3. l = 0 \/ l = L \/ (l \in 1 .. L /\ l < L)
      BY <1>1, <1>2
    <3>4. above = 0 \/ IsGroup(s, above)
      BY <1>4, <1>5, <1>8, <2>2, <3>3
    <3> QED
      BY <3>2, <3>4
  <2>3. CASE L # 0 /\ ~IsGroup(s, n)
    <3>1. st.lastUser = L - 1 /\ L - 1 # NoLevel
      BY <1>1, <1>5, <2>3 DEF NoLevel
    <3>2. L - 1 <= Len(P)
      <4>1. L - 1 \in 0 .. L /\ L - 1 < L
        BY <1>1, <2>3
      <4> QED
        BY <1>5, <4>1
    <3>3. HasNoGroupAbove(st, l) <=> l = L
      BY <1>1, <1>2, <1>7, <3>1, <3>2
    <3>4. l = 0 \/ l = L \/ (l \in 1 .. L /\ l < L)
      BY <1>1, <1>2
    <3>5. n # 0 /\ at[L] = n
      BY <1>1, <1>4, <2>3
    <3>6. l # L => above = 0 \/ IsGroup(s, above)
      BY <1>4, <1>5, <1>8, <3>4
    <3>7. l = L => above # 0 /\ ~IsGroup(s, above)
      BY <1>8, <2>3, <3>5
    <3> QED
      BY <3>3, <3>6, <3>7
  <2> QED
    BY <2>1, <2>2, <2>3
<1>10. ASSUME ~HasNoGroupAbove(st, l)
       PROVE  l <= Len(P) /\ Drawn(s)[above] = SubSeq(P, 1, l)
  <2>1. above = 0 \/ IsGroup(s, above)
    BY <1>9, <1>10
  <2>2. l < L \/ L = 0 \/ IsGroup(s, at[l])
    <3>1. CASE l = L /\ L # 0
      <4>1. at[l] # 0
        BY <1>1, <1>4, <3>1
      <4> QED
        BY <1>8, <2>1, <4>1
    <3> QED
      BY <1>1, <1>2, <3>1
  <2> QED
    BY <1>2, <1>5, <1>8, <2>2
<1> QED
  BY <1>2, <1>6, <1>8, <1>9, <1>10 DEF W, L, n, t, v, l, above, P

LEMMA CollectedGroup ==
    ASSUME NEW s \in Seq(TextLines), NEW x \in TextLines, NEW st, Collected(s, st),
           x.kind = "group", st.groups \in Seq(Paths),
           NEW new, new.groups = Append(st.groups, Drawn(Append(s, x))[Len(s) + 1]), new.users = st.users
    PROVE  Collected(Append(s, x), new)
<1> DEFINE t == Append(s, x)
           n == Len(s)
           p0 == Drawn(t)[n + 1]
           G == st.groups
           H == new.groups
<1>1. Len(t) = n + 1 /\ n \in Nat /\ t[n + 1] = x /\ DOMAIN t = 1 .. n + 1 /\ DOMAIN s = 1 .. n
      /\ \A i \in 1 .. n : t[i] = s[i]
  OBVIOUS
<1>2. /\ \A i \in 1 .. n : Drawn(t)[i] = Drawn(s)[i]
      /\ \A i \in 1 .. n : GroupAbove(t, i) = GroupAbove(s, i) /\ GroupAbove(s, i) \in 0 .. n
  <2>1. \A i \in 0 .. n : Drawn(t)[i] = Drawn(s)[i]
    BY DrawnOneMore
  <2>2. ASSUME NEW i \in 1 .. n PROVE GroupAbove(t, i) = GroupAbove(s, i) /\ GroupAbove(s, i) \in 0 .. n
    <3>1. i \in Nat \ {0} /\ \A j \in 0 .. i - 1 : j \in 0 .. n
      BY <1>1
    <3>2. GroupAbove(s, i) \in 0 .. i - 1
      BY <3>1, GroupAboveBefore
    <3> QED
      BY <3>1, <3>2, GroupAboveSame
  <2> QED
    BY <1>1, <2>1, <2>2
<1>3. \A i \in 0 .. n : Drawn(t)[i] = Drawn(s)[i]
  BY DrawnOneMore
<1>4. \A p : (\E i \in DOMAIN H : H[i] = p) <=> (\E i \in DOMAIN G : G[i] = p) \/ p = p0
  <2>1. H = Append(G, p0) /\ Len(G) \in Nat /\ DOMAIN G = 1 .. Len(G)
    OBVIOUS
  <2> HIDE DEF H, G, p0
  <2>2. DOMAIN H = 1 .. Len(G) + 1 /\ H[Len(G) + 1] = p0 /\ \A i \in 1 .. Len(G) : H[i] = G[i]
    BY <2>1
  <2>3. \A i \in 1 .. Len(G) + 1 : i \in 1 .. Len(G) \/ i = Len(G) + 1
    BY <2>1
  <2>4. Len(G) + 1 \in 1 .. Len(G) + 1 /\ \A i \in 1 .. Len(G) : i \in 1 .. Len(G) + 1
    BY <2>1
  <2> QED
    BY <2>1, <2>2, <2>3, <2>4
<1> DEFINE Named(f, p) == \E i \in DOMAIN f : f[i] = p
           GroupAt(r, p) == \E i \in DOMAIN r : IsGroup(r, i) /\ p = Drawn(r)[i]
           As(r, i) == [name |-> r[i].name, path |-> Drawn(r)[GroupAbove(r, i)]]
           UserAt(r, u) == \E i \in DOMAIN r : r[i].kind = "user" /\ u = As(r, i)
<1>a. \A f, r : Collected(r, f) <=> /\ \A p : Named(f.groups, p) <=> GroupAt(r, p)
                                    /\ \A u : Named(f.users, u) <=> UserAt(r, u)
  BY DEF Collected
<1>b. /\ \A p : Named(G, p) <=> GroupAt(s, p)
      /\ \A u : Named(st.users, u) <=> UserAt(s, u)
  BY <1>a
<1>c. \A p : Named(H, p) <=> Named(G, p) \/ p = p0
  BY <1>4
<1>d. p0 = Drawn(t)[n + 1]
  OBVIOUS
<1> HIDE DEF t, n, H, G, p0
<1>5. \A i \in 1 .. n + 1 : i \in 1 .. n \/ i = n + 1
  BY <1>1
<1>6. n + 1 \in 1 .. n + 1 /\ \A i \in 1 .. n : i \in 1 .. n + 1
  BY <1>1
<1>7. \A p : GroupAt(t, p) <=> GroupAt(s, p) \/ p = p0
  BY <1>1, <1>2, <1>5, <1>6, <1>d DEF IsGroup
<1>8. \A i \in 1 .. n : t[i].kind = s[i].kind /\ As(t, i) = As(s, i)
  BY <1>1, <1>2, <1>3
<1>9. t[n + 1].kind # "user"
  BY <1>1
<1> HIDE DEF As
<1>10. \A u : UserAt(t, u) <=> UserAt(s, u)
  BY <1>1, <1>5, <1>6, <1>8, <1>9
<1> HIDE DEF Named, GroupAt, UserAt
<1>11. /\ \A p : Named(H, p) <=> GroupAt(t, p)
       /\ \A u : Named(st.users, u) <=> UserAt(t, u)
  BY <1>b, <1>c, <1>7, <1>10, Zenon
<1>12. Collected(t, new)
  BY <1>a, <1>11 DEF H
<1> QED
  BY <1>12 DEF t

LEMMA CollectedUser ==
    ASSUME NEW s \in Seq(TextLines), NEW x \in TextLines, NEW st, Collected(s, st),
           x.kind = "user", st.users \in Seq([name : LineNames, path : Paths]),
           GroupAbove(Append(s, x), Len(s) + 1) \in 0 .. Len(s),
           NEW new, new.groups = st.groups,
           new.users = Append(st.users, [name |-> x.name,
                                         path |-> Drawn(s)[GroupAbove(Append(s, x), Len(s) + 1)]])
    PROVE  Collected(Append(s, x), new)
<1> DEFINE t == Append(s, x)
           n == Len(s)
           u0 == [name |-> x.name, path |-> Drawn(s)[GroupAbove(t, n + 1)]]
           U == st.users
           H == new.users
<1>1. Len(t) = n + 1 /\ n \in Nat /\ t[n + 1] = x /\ DOMAIN t = 1 .. n + 1 /\ DOMAIN s = 1 .. n
      /\ \A i \in 1 .. n : t[i] = s[i]
  OBVIOUS
<1>2. \A i \in 0 .. n : Drawn(t)[i] = Drawn(s)[i]
  BY DrawnOneMore
<1>3. ASSUME NEW i \in 1 .. n PROVE GroupAbove(t, i) = GroupAbove(s, i) /\ GroupAbove(s, i) \in 0 .. n
  <2>1. i \in Nat \ {0} /\ \A j \in 0 .. i - 1 : j \in 0 .. n
    BY <1>1
  <2>2. GroupAbove(s, i) \in 0 .. i - 1
    BY <2>1, GroupAboveBefore
  <2> QED
    BY <2>1, <2>2, GroupAboveSame
<1>4. \A u : (\E i \in DOMAIN H : H[i] = u) <=> (\E i \in DOMAIN U : U[i] = u) \/ u = u0
  <2>1. H = Append(U, u0) /\ Len(U) \in Nat /\ DOMAIN U = 1 .. Len(U)
    OBVIOUS
  <2> HIDE DEF H, U, u0
  <2>2. DOMAIN H = 1 .. Len(U) + 1 /\ H[Len(U) + 1] = u0 /\ \A i \in 1 .. Len(U) : H[i] = U[i]
    BY <2>1
  <2>3. \A i \in 1 .. Len(U) + 1 : i \in 1 .. Len(U) \/ i = Len(U) + 1
    BY <2>1
  <2>4. Len(U) + 1 \in 1 .. Len(U) + 1 /\ \A i \in 1 .. Len(U) : i \in 1 .. Len(U) + 1
    BY <2>1
  <2> QED
    BY <2>1, <2>2, <2>3, <2>4
<1> DEFINE Named(f, p) == \E i \in DOMAIN f : f[i] = p
           GroupAt(r, p) == \E i \in DOMAIN r : IsGroup(r, i) /\ p = Drawn(r)[i]
           As(r, i) == [name |-> r[i].name, path |-> Drawn(r)[GroupAbove(r, i)]]
           UserAt(r, u) == \E i \in DOMAIN r : r[i].kind = "user" /\ u = As(r, i)
<1>a. \A f, r : Collected(r, f) <=> /\ \A p : Named(f.groups, p) <=> GroupAt(r, p)
                                    /\ \A u : Named(f.users, u) <=> UserAt(r, u)
  BY DEF Collected
<1>b. /\ \A p : Named(st.groups, p) <=> GroupAt(s, p)
      /\ \A u : Named(U, u) <=> UserAt(s, u)
  BY <1>a
<1>c. \A u : Named(H, u) <=> Named(U, u) \/ u = u0
  BY <1>4
<1> HIDE DEF H, U
<1>5. \A i \in 1 .. n + 1 : i \in 1 .. n \/ i = n + 1
  BY <1>1
<1>6. n + 1 \in 1 .. n + 1 /\ \A i \in 1 .. n : i \in 1 .. n + 1 /\ i \in 0 .. n
  BY <1>1
<1>7. As(t, n + 1) = u0 /\ t[n + 1].kind = "user"
  BY <1>1, <1>2
<1>8. \A i \in 1 .. n : t[i].kind = s[i].kind /\ As(t, i) = As(s, i)
  BY <1>1, <1>2, <1>3
<1> HIDE DEF t, n, As, u0
<1>9. \A u : UserAt(t, u) <=> UserAt(s, u) \/ u = u0
  BY <1>1, <1>5, <1>6, <1>7, <1>8
<1>10. \A p : GroupAt(t, p) <=> GroupAt(s, p)
  BY <1>1, <1>2, <1>5, <1>6, <1>7 DEF IsGroup
<1> HIDE DEF Named, GroupAt, UserAt
<1>11. /\ \A p : Named(st.groups, p) <=> GroupAt(t, p)
       /\ \A u : Named(H, u) <=> UserAt(t, u)
  BY <1>b, <1>c, <1>9, <1>10, Zenon
<1>12. Collected(t, new)
  BY <1>a, <1>11 DEF H
<1> QED
  BY <1>12 DEF t

\* The path after a line on level l, whose name it ends with when the line is a group.
LEMMA PathGrows ==
    ASSUME NEW s \in Seq(TextLines), NEW x \in TextLines, NEW st \in ReadStates, NEW at,
           IsStack(s, st, at), PathFits(s, st, at),
           NEW l \in 0 .. Len(st.widths), at[l] = 0 \/ IsGroup(s, at[l]), l <= Len(st.path),
           x.kind \in {"group", "user"},
           NEW new, Len(new.widths) = l + 1,
           x.kind = "group" => /\ new.lastUser = NoLevel
                               /\ new.path = Append(SubSeq(st.path, 1, l), x.name)
                               /\ Drawn(Append(s, x))[Len(s) + 1] = new.path,
           x.kind = "user"  => new.lastUser = l /\ new.path = st.path
    PROVE  PathFits(Append(s, x), new, StackWith(at, l, Len(s) + 1))
<1> DEFINE L == Len(st.widths)
           n == Len(s)
           t == Append(s, x)
           b == StackWith(at, l, n + 1)
           P == st.path
           Q == new.path
<1>1. L \in Nat /\ n \in Nat /\ l \in Nat /\ l <= L /\ P \in Paths /\ Len(P) \in Nat /\ l <= Len(P)
  BY DEF ReadStates, Paths
<1>2. Len(t) = n + 1 /\ t[n + 1] = x /\ t # <<>> /\ \A i \in 1 .. n : t[i] = s[i]
  OBVIOUS
<1>3. \A i \in 0 .. n : Drawn(t)[i] = Drawn(s)[i]
  BY DrawnOneMore
<1>4. /\ at \in [0 .. L -> 0 .. n] /\ at[0] = 0
      /\ \A k \in 1 .. L : at[k] # 0
  BY DEF IsStack
<1>5. /\ \A k \in 0 .. L : k < L \/ L = 0 \/ IsGroup(s, at[k]) =>
            k <= Len(P) /\ Drawn(s)[at[k]] = SubSeq(P, 1, k)
      /\ \A k \in 1 .. L : k < L => IsGroup(s, at[k])
  BY DEF PathFits
<1>6. \A k \in 0 .. l : b[k] = at[k] /\ k # l + 1 /\ k \in 0 .. L
  BY <1>1 DEF StackWith
<1>7. b[l + 1] = n + 1
  BY <1>1 DEF StackWith
<1>8. \A k \in 0 .. l : SubSeq(Q, 1, k) = SubSeq(P, 1, k) /\ k <= Len(Q)
  <2> SUFFICES ASSUME NEW k \in 0 .. l PROVE SubSeq(Q, 1, k) = SubSeq(P, 1, k) /\ k <= Len(Q)
    OBVIOUS
  <2>1. CASE x.kind = "user"
    <3>1. Q = P
      BY <2>1
    <3> QED
      BY <1>1, <3>1
  <2>2. CASE x.kind = "group"
    <3>1. Q = Append(SubSeq(P, 1, l), x.name) /\ P \in Seq(LineNames) /\ x.name \in LineNames
      BY <1>1, <2>2, LineFacts DEF Paths
    <3> HIDE DEF P, Q
    <3>2. Q \in Seq(LineNames) /\ Len(Q) = l + 1 /\ \A i \in 1 .. l : Q[i] = P[i]
      BY <1>1, <3>1
    <3>3. SubSeq(Q, 1, k) \in Seq(LineNames) /\ SubSeq(P, 1, k) \in Seq(LineNames)
          /\ Len(SubSeq(Q, 1, k)) = k /\ Len(SubSeq(P, 1, k)) = k
          /\ \A i \in 1 .. k : SubSeq(Q, 1, k)[i] = Q[i] /\ SubSeq(P, 1, k)[i] = P[i]
      BY <1>1, <3>1, <3>2
    <3>4. \A i \in 1 .. k : SubSeq(Q, 1, k)[i] = SubSeq(P, 1, k)[i]
      BY <1>1, <3>2, <3>3
    <3> QED
      BY <1>1, <3>2, <3>3, <3>4
  <2> QED
    BY <2>1, <2>2
<1> HIDE DEF L, n, t, b, P, Q
<1>9. \A k \in 0 .. l : k <= Len(P) /\ Drawn(s)[at[k]] = SubSeq(P, 1, k)
  <2> SUFFICES ASSUME NEW k \in 0 .. l PROVE k <= Len(P) /\ Drawn(s)[at[k]] = SubSeq(P, 1, k)
    OBVIOUS
  <2>1. k \in 0 .. L /\ (k < L \/ k = l)
    BY <1>1
  <2>2. k = L /\ L # 0 => at[k] # 0
    BY <1>1, <1>4
  <2>3. k < L \/ L = 0 \/ IsGroup(s, at[k])
    BY <1>1, <2>1, <2>2
  <2> QED
    BY <1>5, <2>1, <2>3
<1>10. ASSUME NEW k \in 0 .. l + 1, k < l + 1 \/ l + 1 = 0 \/ IsGroup(t, b[k])
       PROVE  k <= Len(Q) /\ Drawn(t)[b[k]] = SubSeq(Q, 1, k)
  <2>1. CASE k \in 0 .. l
    <3>1. at[k] \in 0 .. n /\ b[k] = at[k]
      BY <1>4, <1>6, <2>1
    <3> QED
      BY <1>3, <1>8, <1>9, <2>1, <3>1
  <2>2. CASE k = l + 1
    <3>1. x.kind = "group"
      BY <1>1, <1>2, <1>7, <1>10, <2>2 DEF IsGroup
    <3>2. Q = Append(SubSeq(P, 1, l), x.name) /\ Drawn(t)[n + 1] = Q /\ P \in Seq(LineNames) /\ x.name \in LineNames
      BY <1>1, <3>1, LineFacts DEF Paths, P, Q, n, t
    <3>3. Q \in Seq(LineNames) /\ Len(Q) = l + 1
      BY <1>1, <3>2
    <3>4. SubSeq(Q, 1, l + 1) = Q
      <4>1. SubSeq(Q, 1, Len(Q)) = Q
        BY <3>3
      <4> QED
        BY <3>3, <4>1
    <3>5. k <= Len(Q)
      BY <1>1, <2>2, <3>3
    <3>6. Drawn(t)[b[k]] = Q /\ SubSeq(Q, 1, k) = Q
      BY <1>7, <2>2, <3>2, <3>4
    <3> QED
      BY <3>5, <3>6
  <2> QED
    BY <1>1, <2>1, <2>2
<1>11. ASSUME NEW k \in 1 .. l + 1, k < l + 1 PROVE IsGroup(t, b[k])
  <2>1. k \in 0 .. l /\ k \in 1 .. L /\ b[k] = at[k] /\ at[k] # 0 /\ at[k] \in 0 .. n
    <3>1. k \in 0 .. l /\ k \in 1 .. L /\ k \in 0 .. L
      BY <1>1, <1>11
    <3> QED
      BY <1>4, <1>6, <3>1
  <2>2. at[k] \in 1 .. n
    BY <1>1, <2>1
  <2>3. IsGroup(s, at[k])
    <3>1. k < L \/ k = l
      BY <1>1, <2>1
    <3> QED
      BY <1>5, <2>1, <3>1
  <2> QED
    BY <1>2, <2>1, <2>2, <2>3 DEF IsGroup
<1>12. IF l + 1 = 0 \/ IsGroup(t, Len(t)) THEN new.lastUser = NoLevel
       ELSE new.lastUser = (l + 1) - 1 /\ t[Len(t)].kind = "user"
  BY <1>1, <1>2 DEF IsGroup
<1>13. l + 1 = 0 <=> t = <<>>
  BY <1>1, <1>2
<1>14. PathFits(t, new, b)
  BY <1>10, <1>11, <1>12, <1>13 DEF PathFits, Q
<1> QED
  BY <1>14 DEF t, b, n

\* A line that stays clear is collected and placed; with any other there is an issue.
LEMMA GroupIsRead ==
    ASSUME NEW s \in Seq(TextLines), NEW x \in TextLines, NEW st \in ReadStates, NEW at,
           IsStack(s, st, at), PathFits(s, st, at), Collected(s, st), st.issues = {},
           x.width \in Nat, NEW l \in 0 .. Len(st.widths), l = LevelOf(st.widths, x.width), l # NoLevel,
           ~HasNoGroupAbove(st, l), x.kind = "group"
    PROVE  LET new == ParseLine(st, x)
               t   == Append(s, x)
           IN  /\ new.issues = {} <=> StaysClear(s, x)
               /\ new.issues = {} => \E b : IsStack(t, new, b) /\ PathFits(t, new, b) /\ Collected(t, new)
<1> DEFINE W == st.widths
           L == Len(W)
           n == Len(s)
           t == Append(s, x)
           v == x.width
           above == GroupAbove(t, n + 1)
           P == st.path
           path == Append(SubSeq(P, 1, l), x.name)
           kept == SubSeq(W, 1, l)
           new == ParseLine(st, x)
           b == StackWith(at, l, n + 1)
<1>1. /\ W \in Seq(Nat) /\ L \in Nat /\ n \in Nat /\ P \in Paths /\ Len(P) \in Nat /\ l \in Nat
      /\ (L = 0 <=> s = <<>>) /\ (s = <<>> <=> n = 0)
      /\ st.groups \in Seq(Paths) /\ st.users \in Seq([name : LineNames, path : Paths])
  BY DEF ReadStates, Paths, PathFits
<1>2. /\ above = at[l] /\ (above = 0 \/ IsGroup(s, above)) /\ l <= Len(P)
      /\ Drawn(s)[above] = SubSeq(P, 1, l) /\ Drawn(t)[n + 1] = path
  BY LineIsPlaced
<1>3. v # NoWidth /\ MaxGroupDepth \in Nat
  BY LinesAssumption DEF NoWidth
<1>4. /\ \A k \in 1 .. l : W[k] < v
      /\ \A j \in at[l] + 1 .. n : v <= s[j].width
      /\ s = <<>> \/ v > s[n].width \/ \E j \in 1 .. n : s[j].width = v /\ \A k \in j .. n : s[k].width >= v
  BY <1>1, LevelFacts
<1>5. Len(path) = l + 1 /\ path \in Paths
  BY <1>1, <1>2, LineFacts DEF Paths
<1>6. (\E i \in DOMAIN st.groups : st.groups[i] = path) <=> \E i \in 1 .. n : IsGroup(s, i) /\ path = Drawn(s)[i]
  <2>1. \A p : (\E i \in DOMAIN st.groups : st.groups[i] = p) <=> \E i \in DOMAIN s : IsGroup(s, i) /\ p = Drawn(s)[i]
    BY DEF Collected
  <2>2. DOMAIN s = 1 .. n
    OBVIOUS
  <2> HIDE DEF path, n
  <2> QED
    BY <2>1, <2>2, Zenon
<1>7. path \in ToSet(st.groups) <=> \E i \in DOMAIN st.groups : st.groups[i] = path
  <2> HIDE DEF path
  <2> QED
    BY DEF ToSet
<1> DEFINE next == [st EXCEPT !.widths = Append(kept, v), !.lastUser = NoLevel]
<1>8. new = GroupLine(next, x, l, kept)
  BY <1>3 DEF ParseLine
<1>9. /\ next.groups = st.groups /\ next.users = st.users /\ next.path = P /\ next.issues = {}
      /\ next.widths = Append(kept, v) /\ next.lastUser = NoLevel /\ next \in ReadStates
  <2>1. kept \in Seq(Nat)
    BY <1>1
  <2>2. NoLevel \in Int
    BY DEF NoLevel
  <2>3. Append(kept, v) \in Seq(Nat)
    BY <2>1
  <2> DEFINE W2 == Append(kept, v)
  <2>4. W2 \in Seq(Nat) /\ next = [st EXCEPT !.widths = W2, !.lastUser = NoLevel]
    BY <2>3
  <2> HIDE DEF kept, W2, next
  <2>5. /\ next.groups = st.groups /\ next.users = st.users /\ next.path = P /\ next.issues = {}
        /\ next.widths = W2 /\ next.lastUser = NoLevel /\ next \in ReadStates
    BY <2>2, <2>4 DEF ReadStates
  <2> QED
    BY <2>5 DEF W2
<1> HIDE DEF next
<1>10. CASE l + 1 > MaxGroupDepth
  <2>1. new = [next EXCEPT !.issues = @ \cup {"GROUP_DEPTH_EXCEEDED"}, !.widths = kept]
    BY <1>8, <1>10 DEF GroupLine
  <2>2. new.issues # {}
    BY <1>9, <2>1 DEF ReadStates
  <2>3. ~(Len(Drawn(t)[n + 1]) <= MaxGroupDepth)
    BY <1>1, <1>2, <1>3, <1>5, <1>10
  <2>4. ~StaysClear(s, x)
    BY <2>3 DEF StaysClear
  <2> QED
    BY <2>2, <2>4
<1>11. CASE ~(l + 1 > MaxGroupDepth) /\ path \in ToSet(st.groups)
  <2>1. new = [next EXCEPT !.issues = @ \cup {"DUPLICATE_GROUP_IN_FILE"}, !.widths = kept]
    BY <1>8, <1>9, <1>11 DEF GroupLine
  <2>2. new.issues # {}
    BY <1>9, <2>1 DEF ReadStates
  <2>3. ~StaysClear(s, x)
    BY <1>2, <1>6, <1>7, <1>11 DEF StaysClear
  <2> QED
    BY <2>2, <2>3
<1>12. CASE ~(l + 1 > MaxGroupDepth) /\ path \notin ToSet(st.groups)
  <2>1. new = [next EXCEPT !.path = path, !.groups = Append(@, path)]
    BY <1>8, <1>9, <1>12 DEF GroupLine
  <2> HIDE DEF path, new, kept
  <2>2. /\ new.issues = {} /\ new.widths = Append(kept, v) /\ new.path = path /\ new.lastUser = NoLevel
        /\ new.groups = Append(st.groups, path) /\ new.users = st.users
    BY <1>9, <2>1 DEF ReadStates
  <2>3. StaysClear(s, x)
    <3>1. Len(Drawn(t)[n + 1]) <= MaxGroupDepth
      BY <1>1, <1>2, <1>3, <1>5, <1>12
    <3>2. \A i \in 1 .. n : IsGroup(s, i) => Drawn(s)[i] # Drawn(t)[n + 1]
      BY <1>2, <1>6, <1>7, <1>12
    <3>3. above = 0 \/ IsGroup(s, above)
      BY <1>2
    <3> QED
      BY <1>3, <1>4, <3>1, <3>2, <3>3 DEF StaysClear
  <2>4. IsStack(t, new, b)
    BY <1>4, <2>2, StackGrows DEF kept
  <2>5. Collected(t, new)
    BY <1>1, <1>2, <2>2, CollectedGroup
  <2>6. PathFits(t, new, b)
    <3>1. Len(new.widths) = l + 1
      BY <1>1, <2>2 DEF kept
    <3>2. new.path = Append(SubSeq(P, 1, l), x.name) /\ Drawn(t)[n + 1] = new.path
      BY <1>2, <2>2 DEF path
    <3>3. at[l] = 0 \/ IsGroup(s, at[l])
      BY <1>2
    <3> HIDE DEF above
    <3> QED
      BY <1>2, <2>2, <3>1, <3>2, <3>3, PathGrows
  <2> HIDE DEF b, t
  <2>7. \E c : IsStack(t, new, c) /\ PathFits(t, new, c) /\ Collected(t, new)
    BY <2>4, <2>5, <2>6
  <2> QED
    BY <2>2, <2>3, <2>7, Zenon DEF t, new
<1> QED
  BY <1>10, <1>11, <1>12

LEMMA UserIsRead ==
    ASSUME NEW s \in Seq(TextLines), NEW x \in TextLines, NEW st \in ReadStates, NEW at,
           IsStack(s, st, at), PathFits(s, st, at), Collected(s, st), st.issues = {},
           x.width \in Nat, NEW l \in 0 .. Len(st.widths), l = LevelOf(st.widths, x.width), l # NoLevel,
           ~HasNoGroupAbove(st, l), x.kind = "user"
    PROVE  LET new == ParseLine(st, x)
               t   == Append(s, x)
           IN  /\ new.issues = {} <=> StaysClear(s, x)
               /\ new.issues = {} => \E b : IsStack(t, new, b) /\ PathFits(t, new, b) /\ Collected(t, new)
<1> DEFINE W == st.widths
           L == Len(W)
           n == Len(s)
           t == Append(s, x)
           v == x.width
           above == GroupAbove(t, n + 1)
           P == st.path
           kept == SubSeq(W, 1, l)
           new == ParseLine(st, x)
           b == StackWith(at, l, n + 1)
           u0 == [name |-> x.name, path |-> SubSeq(P, 1, l)]
           taken == \E i \in DOMAIN st.users : st.users[i].name = x.name
<1>1. /\ W \in Seq(Nat) /\ L \in Nat /\ n \in Nat /\ P \in Paths /\ Len(P) \in Nat /\ l \in Nat
      /\ (L = 0 <=> s = <<>>) /\ (s = <<>> <=> n = 0)
      /\ st.groups \in Seq(Paths) /\ st.users \in Seq([name : LineNames, path : Paths])
  BY DEF ReadStates, Paths, PathFits
<1>2. /\ above = at[l] /\ (above = 0 \/ IsGroup(s, above)) /\ l <= Len(P)
      /\ Drawn(s)[above] = SubSeq(P, 1, l)
  BY LineIsPlaced
<1>3. v # NoWidth
  BY DEF NoWidth
<1>4. /\ \A k \in 1 .. l : W[k] < v
      /\ \A j \in at[l] + 1 .. n : v <= s[j].width
      /\ s = <<>> \/ v > s[n].width \/ \E j \in 1 .. n : s[j].width = v /\ \A k \in j .. n : s[k].width >= v
  BY <1>1, LevelFacts
<1>5. above \in 0 .. n
  BY <1>1, <1>2 DEF IsStack
<1>6. taken <=> \E i \in 1 .. n : s[i].kind = "user" /\ s[i].name = x.name
  <2> DEFINE As(i) == [name |-> s[i].name, path |-> Drawn(s)[GroupAbove(s, i)]]
  <2>1. \A u : (\E i \in DOMAIN st.users : st.users[i] = u) <=> \E i \in DOMAIN s : s[i].kind = "user" /\ u = As(i)
    BY DEF Collected
  <2>2. DOMAIN s = 1 .. n
    OBVIOUS
  <2>3. \A i : As(i).name = s[i].name
    OBVIOUS
  <2> HIDE DEF As, n
  <2>4. ASSUME NEW i \in DOMAIN st.users, st.users[i].name = x.name
        PROVE  \E j \in 1 .. n : s[j].kind = "user" /\ s[j].name = x.name
    <3>1. PICK j \in DOMAIN s : s[j].kind = "user" /\ st.users[i] = As(j)
      BY <2>1
    <3> QED
      BY <2>2, <2>3, <2>4, <3>1
  <2>5. ASSUME NEW j \in 1 .. n, s[j].kind = "user", s[j].name = x.name PROVE taken
    <3>1. PICK i \in DOMAIN st.users : st.users[i] = As(j)
      BY <2>1, <2>2, <2>5
    <3> QED
      BY <2>3, <2>5, <3>1
  <2> QED
    BY <2>4, <2>5
<1> DEFINE next == [st EXCEPT !.widths = Append(kept, v), !.lastUser = NoLevel]
<1>8. new = UserLine(next, x, l)
  BY <1>3 DEF ParseLine
<1>9. /\ next.groups = st.groups /\ next.users = st.users /\ next.path = P /\ next.issues = {}
      /\ next.widths = Append(kept, v) /\ next.lastUser = NoLevel /\ next \in ReadStates
  <2>1. kept \in Seq(Nat)
    BY <1>1
  <2>2. NoLevel \in Int
    BY DEF NoLevel
  <2>3. Append(kept, v) \in Seq(Nat)
    BY <2>1
  <2> DEFINE W2 == Append(kept, v)
  <2>4. W2 \in Seq(Nat) /\ next = [st EXCEPT !.widths = W2, !.lastUser = NoLevel]
    BY <2>3
  <2> HIDE DEF kept, W2, next
  <2>5. /\ next.groups = st.groups /\ next.users = st.users /\ next.path = P /\ next.issues = {}
        /\ next.widths = W2 /\ next.lastUser = NoLevel /\ next \in ReadStates
    BY <2>2, <2>4 DEF ReadStates
  <2> QED
    BY <2>5 DEF W2
<1> HIDE DEF next
<1>10. CASE taken
  <2>1. new = [next EXCEPT !.issues = @ \cup {"DUPLICATE_USERNAME_IN_FILE"}]
    BY <1>8, <1>9, <1>10 DEF UserLine
  <2>2. new.issues # {}
    BY <1>9, <2>1 DEF ReadStates
  <2>3. ~StaysClear(s, x)
    BY <1>6, <1>10 DEF StaysClear
  <2> QED
    BY <2>2, <2>3
<1>11. CASE ~taken
  <2>1. new = [next EXCEPT !.users = Append(@, u0), !.lastUser = l]
    BY <1>8, <1>9, <1>11 DEF UserLine
  <2> HIDE DEF u0, new, kept
  <2>2. /\ new.issues = {} /\ new.widths = Append(kept, v) /\ new.path = P /\ new.lastUser = l
        /\ new.users = Append(st.users, u0) /\ new.groups = st.groups
    BY <1>9, <2>1 DEF ReadStates
  <2>3. StaysClear(s, x)
    <3>1. \A i \in 1 .. n : s[i].kind = "user" => s[i].name # x.name
      BY <1>6, <1>11
    <3>2. above = 0 \/ IsGroup(s, above)
      BY <1>2
    <3> QED
      BY <1>3, <1>4, <3>1, <3>2 DEF StaysClear
  <2>4. IsStack(t, new, b)
    BY <1>4, <2>2, StackGrows DEF kept
  <2>5. Collected(t, new)
    <3>1. u0 = [name |-> x.name, path |-> Drawn(s)[above]]
      BY <1>2 DEF u0
    <3> QED
      BY <1>1, <1>5, <2>2, <3>1, CollectedUser
  <2>6. PathFits(t, new, b)
    <3>1. Len(new.widths) = l + 1
      BY <1>1, <2>2 DEF kept
    <3>3. at[l] = 0 \/ IsGroup(s, at[l])
      BY <1>2
    <3> HIDE DEF above
    <3> QED
      BY <1>2, <2>2, <3>1, <3>3, PathGrows
  <2> HIDE DEF b, t
  <2>7. \E c : IsStack(t, new, c) /\ PathFits(t, new, c) /\ Collected(t, new)
    BY <2>4, <2>5, <2>6
  <2> QED
    BY <2>2, <2>3, <2>7, Zenon DEF t, new
<1> QED
  BY <1>10, <1>11

\* The parser knows what it may know, whatever the line.
LEMMA StatesStay ==
    ASSUME NEW st \in ReadStates, NEW x \in TextLines
    PROVE  ParseLine(st, x) \in ReadStates /\ st.issues \subseteq ParseLine(st, x).issues
<1> DEFINE level == LevelOf(st.widths, x.width)
           kept == SubSeq(st.widths, 1, level)
           W2 == Append(kept, x.width)
           next == [st EXCEPT !.widths = W2, !.lastUser = NoLevel]
           path == Append(SubSeq(st.path, 1, level), x.name)
           u0 == [name |-> x.name, path |-> SubSeq(st.path, 1, level)]
           worse(code) == st.issues \cup {code}
<1>1. /\ st.widths \in Seq(Nat) /\ st.path \in Paths /\ st.lastUser \in Int /\ st.groups \in Seq(Paths)
      /\ st.users \in Seq([name : LineNames, path : Paths]) /\ st.issues \in SUBSET IssueCodes
  BY DEF ReadStates
<1>0. \A code \in IssueCodes : worse(code) \in SUBSET IssueCodes /\ st.issues \subseteq worse(code)
  BY <1>1
<1>2. NoLevel \in Int /\ x.name \in LineNames
      /\ x.kind \in {"user", "group", "badUser", "longName"}
      /\ (x.width = NoWidth \/ x.width \in Nat)
  BY LineFacts DEF NoLevel
<1>3. level = NoLevel \/ level \in 0 .. Len(st.widths)
  <2>1. DOMAIN st.widths = 1 .. Len(st.widths) /\ Len(st.widths) \in Nat
    BY <1>1
  <2>2. CASE \E i \in DOMAIN st.widths : st.widths[i] = x.width
    <3>1. (CHOOSE i \in DOMAIN st.widths : st.widths[i] = x.width) \in 1 .. Len(st.widths)
      BY <2>1, <2>2
    <3> QED
      BY <2>1, <3>1 DEF LevelOf
  <2>3. CASE ~\E i \in DOMAIN st.widths : st.widths[i] = x.width
    BY <2>1, <2>3 DEF LevelOf
  <2> QED
    BY <2>2, <2>3
<1> HIDE DEF level
<1>4. CASE x.width = NoWidth \/ level = NoLevel
  <2>1. ParseLine(st, x) = [st EXCEPT !.issues = worse("BAD_INDENT")]
    BY <1>4 DEF ParseLine, level
  <2>2. worse("BAD_INDENT") \in SUBSET IssueCodes /\ st.issues \subseteq worse("BAD_INDENT")
    BY <1>0 DEF IssueCodes
  <2> HIDE DEF worse
  <2> QED
    BY <2>1, <2>2 DEF ReadStates
<1>5. ASSUME ~(x.width = NoWidth \/ level = NoLevel)
      PROVE  /\ level \in Nat /\ level <= Len(st.widths) /\ kept \in Seq(Nat) /\ W2 \in Seq(Nat) /\ level \in Int
             /\ next \in ReadStates /\ next.issues = st.issues /\ next.path = st.path
             /\ next.groups = st.groups /\ next.users = st.users
  <2>1. level \in Nat /\ level <= Len(st.widths) /\ x.width \in Nat
    BY <1>1, <1>2, <1>3, <1>5
  <2>2. kept \in Seq(Nat)
    BY <1>1, <2>1
  <2>3. W2 \in Seq(Nat)
    BY <2>1, <2>2
  <2>4. next = [st EXCEPT !.widths = W2, !.lastUser = NoLevel]
    OBVIOUS
  <2> HIDE DEF W2, kept, next
  <2>5. /\ next \in ReadStates /\ next.issues = st.issues /\ next.path = st.path
        /\ next.groups = st.groups /\ next.users = st.users
    BY <1>2, <2>3, <2>4 DEF ReadStates
  <2> QED
    BY <2>1, <2>2, <2>3, <2>5
<1> HIDE DEF W2, kept
<1>6. CASE ~(x.width = NoWidth \/ level = NoLevel) /\ HasNoGroupAbove(st, level)
  <2> DEFINE last == IF level > st.lastUser THEN st.lastUser ELSE NoLevel
  <2>1. ParseLine(st, x) = [st EXCEPT !.issues = worse("BAD_INDENT"), !.widths = kept, !.lastUser = last]
    BY <1>6 DEF ParseLine, level, kept
  <2>2. worse("BAD_INDENT") \in SUBSET IssueCodes /\ st.issues \subseteq worse("BAD_INDENT") /\ last \in Int
    BY <1>0, <1>1, <1>2 DEF IssueCodes
  <2> HIDE DEF worse, last
  <2> QED
    BY <1>5, <1>6, <2>1, <2>2 DEF ReadStates
<1> DEFINE fine == ~(x.width = NoWidth \/ level = NoLevel) /\ ~HasNoGroupAbove(st, level)
<1>7. CASE fine /\ x.kind \in {"user", "badUser"}
  <2>1. ParseLine(st, x) = UserLine(next, x, level)
    BY <1>7 DEF ParseLine, level, kept, W2
  <2> HIDE DEF next
  <2>2. ASSUME NEW code \in IssueCodes, ParseLine(st, x) = [next EXCEPT !.issues = @ \cup {code}]
        PROVE  ParseLine(st, x) \in ReadStates /\ st.issues \subseteq ParseLine(st, x).issues
    <3>1. ParseLine(st, x) = [next EXCEPT !.issues = worse(code)]
      BY <1>5, <1>7, <2>2
    <3>2. worse(code) \in SUBSET IssueCodes /\ st.issues \subseteq worse(code)
      BY <1>1
    <3> HIDE DEF worse
    <3> QED
      BY <1>5, <1>7, <3>1, <3>2 DEF ReadStates
  <2>3. CASE x.kind = "badUser"
    <3>1. ParseLine(st, x) = [next EXCEPT !.issues = @ \cup {"BAD_USER_LINE"}]
      BY <2>1, <2>3 DEF UserLine
    <3> QED
      BY <2>2, <3>1 DEF IssueCodes
  <2>4. CASE x.kind = "user" /\ \E i \in DOMAIN next.users : next.users[i].name = x.name
    <3>1. ParseLine(st, x) = [next EXCEPT !.issues = @ \cup {"DUPLICATE_USERNAME_IN_FILE"}]
      BY <2>1, <2>4 DEF UserLine
    <3> QED
      BY <2>2, <3>1 DEF IssueCodes
  <2>5. CASE x.kind = "user" /\ ~\E i \in DOMAIN next.users : next.users[i].name = x.name
    <3> DEFINE users == Append(st.users, [name |-> x.name, path |-> SubSeq(st.path, 1, level)])
    <3>1. ~HasNoGroupAbove(st, level)
      BY <1>7
    <3>2. SubSeq(st.path, 1, level) \in Paths
      <4>1. level <= Len(st.path)
        BY <1>1, <1>5, <1>7, <3>1 DEF HasNoGroupAbove, Paths
      <4> QED
        BY <1>1, <1>5, <1>7, <4>1 DEF Paths
    <3>3. users \in Seq([name : LineNames, path : Paths])
      BY <1>1, <1>2, <3>2
    <3>4. ParseLine(st, x) = [next EXCEPT !.users = users, !.lastUser = level]
      BY <1>5, <1>7, <2>1, <2>5 DEF UserLine
    <3> HIDE DEF users
    <3> QED
      BY <1>5, <1>7, <3>3, <3>4 DEF ReadStates
  <2> QED
    BY <1>7, <2>3, <2>4, <2>5
<1>8. CASE fine /\ x.kind \in {"group", "longName"}
  <2>1. ParseLine(st, x) = GroupLine(next, x, level, kept)
    BY <1>8 DEF ParseLine, level, kept, W2
  <2> HIDE DEF next
  <2>2. ASSUME NEW code \in IssueCodes, ParseLine(st, x) = [next EXCEPT !.issues = @ \cup {code}, !.widths = kept]
        PROVE  ParseLine(st, x) \in ReadStates /\ st.issues \subseteq ParseLine(st, x).issues
    <3>1. ParseLine(st, x) = [next EXCEPT !.issues = worse(code), !.widths = kept]
      BY <1>5, <1>8, <2>2
    <3>2. worse(code) \in SUBSET IssueCodes /\ st.issues \subseteq worse(code)
      BY <1>1
    <3> HIDE DEF worse
    <3> QED
      BY <1>5, <1>8, <3>1, <3>2 DEF ReadStates
  <2>3. path \in Paths
    <3>1. level <= Len(st.path)
      BY <1>1, <1>5, <1>8 DEF HasNoGroupAbove, Paths
    <3> QED
      BY <1>1, <1>2, <1>5, <1>8, <3>1 DEF Paths
  <2>4. CASE x.kind = "longName"
    <3>1. ParseLine(st, x) = [next EXCEPT !.issues = @ \cup {"NAME_TOO_LONG"}, !.widths = kept]
      BY <2>1, <2>4 DEF GroupLine
    <3> QED
      BY <2>2, <3>1 DEF IssueCodes
  <2>5. CASE x.kind = "group" /\ level + 1 > MaxGroupDepth
    <3>1. ParseLine(st, x) = [next EXCEPT !.issues = @ \cup {"GROUP_DEPTH_EXCEEDED"}, !.widths = kept]
      BY <2>1, <2>5 DEF GroupLine
    <3> QED
      BY <2>2, <3>1 DEF IssueCodes
  <2>6. CASE x.kind = "group" /\ ~(level + 1 > MaxGroupDepth)
    <3>1. path = Append(SubSeq(next.path, 1, level), x.name)
      BY <1>5, <1>8
    <3>2. ParseLine(st, x) = IF path \in ToSet(next.groups)
                             THEN [next EXCEPT !.issues = @ \cup {"DUPLICATE_GROUP_IN_FILE"}, !.widths = kept]
                             ELSE [next EXCEPT !.path = path, !.groups = Append(@, path)]
      BY <2>1, <2>6, <3>1 DEF GroupLine
    <3>3. CASE path \in ToSet(next.groups)
      BY <2>2, <3>2, <3>3 DEF IssueCodes
    <3>4. CASE path \notin ToSet(next.groups)
      <4> DEFINE groups == Append(st.groups, path)
      <4>1. groups \in Seq(Paths)
        BY <1>1, <2>3
      <4>2. ParseLine(st, x) = [next EXCEPT !.path = path, !.groups = groups]
        BY <1>5, <1>8, <3>2, <3>4
      <4> HIDE DEF path, groups
      <4> QED
        BY <1>5, <1>8, <2>3, <4>1, <4>2 DEF ReadStates
    <3> QED
      BY <3>3, <3>4
  <2> QED
    BY <1>8, <2>4, <2>5, <2>6
<1> QED
  BY <1>2, <1>4, <1>6, <1>7, <1>8

LEMMA LineIsRead ==
    ASSUME NEW s \in Seq(TextLines), NEW x \in TextLines, NEW st \in ReadStates, NEW at,
           IsStack(s, st, at), PathFits(s, st, at), Collected(s, st), st.issues = {}
    PROVE  LET new == ParseLine(st, x)
               t   == Append(s, x)
           IN  /\ new.issues = {} <=> StaysClear(s, x)
               /\ new.issues = {} => \E b : IsStack(t, new, b) /\ PathFits(t, new, b) /\ Collected(t, new)
<1> DEFINE l == LevelOf(st.widths, x.width)
           new == ParseLine(st, x)
           kept == SubSeq(st.widths, 1, l)
           next == [st EXCEPT !.widths = Append(kept, x.width), !.lastUser = NoLevel]
<1>1. x.width \in Nat \cup {NoWidth} /\ x.kind \in {"user", "group", "badUser", "longName"}
  BY LineFacts
<1>2. Len(st.widths) = 0 <=> s = <<>>
  BY DEF PathFits
<1>3. DOMAIN st = {"widths", "path", "lastUser", "groups", "users", "issues"}
  BY DEF ReadStates
<1>4. CASE x.width = NoWidth \/ (x.width \in Nat /\ l = NoLevel)
  <2>1. new = [st EXCEPT !.issues = @ \cup {"BAD_INDENT"}]
    BY <1>4 DEF ParseLine
  <2>2. new.issues # {}
    BY <1>3, <2>1
  <2>3. ~StaysClear(s, x)
    <3>1. CASE x.width = NoWidth
      BY <3>1 DEF StaysClear
    <3>2. CASE x.width \in Nat /\ l = NoLevel
      <4>1. ~(s = <<>> \/ x.width > s[Len(s)].width
                \/ \E j \in 1 .. Len(s) : s[j].width = x.width /\ \A k \in j .. Len(s) : s[k].width >= x.width)
        BY <1>2, <3>2, LevelFacts
      <4> QED
        BY <4>1 DEF StaysClear
    <3> QED
      BY <1>4, <3>1, <3>2
  <2> QED
    BY <2>2, <2>3
<1>5. CASE x.width \in Nat /\ l # NoLevel /\ HasNoGroupAbove(st, l)
  <2> DEFINE last == IF l > st.lastUser THEN st.lastUser ELSE NoLevel
  <2>1. x.width # NoWidth
    BY <1>5 DEF NoWidth
  <2>2. new = [st EXCEPT !.issues = @ \cup {"BAD_INDENT"}, !.widths = kept, !.lastUser = last]
    BY <1>5, <2>1 DEF ParseLine
  <2> HIDE DEF last, kept
  <2>3. new.issues # {}
    BY <1>3, <2>2
  <2>4. ~StaysClear(s, x)
    BY <1>5, LineIsPlaced DEF StaysClear
  <2> QED
    BY <2>3, <2>4
<1>6. CASE /\ x.width \in Nat /\ l # NoLevel /\ ~HasNoGroupAbove(st, l)
           /\ x.kind \in {"badUser", "longName"}
  <2>1. x.width # NoWidth
    BY <1>6 DEF NoWidth
  <2>2. \/ new = [next EXCEPT !.issues = @ \cup {"BAD_USER_LINE"}]
        \/ new = [next EXCEPT !.issues = @ \cup {"NAME_TOO_LONG"}, !.widths = kept]
    BY <1>6, <2>1 DEF ParseLine, UserLine, GroupLine
  <2>3. DOMAIN next = DOMAIN st
    OBVIOUS
  <2> HIDE DEF next, kept
  <2>4. new.issues # {}
    BY <1>3, <2>2, <2>3
  <2>5. ~StaysClear(s, x)
    BY <1>6 DEF StaysClear
  <2> QED
    BY <2>4, <2>5
<1>7. CASE /\ x.width \in Nat /\ l # NoLevel /\ ~HasNoGroupAbove(st, l)
           /\ x.kind \in {"user", "group"}
  <2>1. l \in 0 .. Len(st.widths)
    BY <1>7, LineIsPlaced
  <2> HIDE DEF l, new
  <2>2. l = LevelOf(st.widths, x.width) /\ new = ParseLine(st, x)
    BY DEF l, new
  <2>3. CASE x.kind = "user"
    BY <1>7, <2>1, <2>2, <2>3, UserIsRead
  <2>4. CASE x.kind = "group"
    BY <1>7, <2>1, <2>2, <2>4, GroupIsRead
  <2> QED
    BY <1>7, <2>3, <2>4
<1> QED
  BY <1>1, <1>4, <1>5, <1>6, <1>7

\* What holds of a text and of what was read of it.
IsReadRight(s) ==
    /\ Read(s) \in ReadStates
    /\ s # <<>> => (Read(s).issues = {} <=> IsClear(s))
    /\ Read(s).issues = {} => \E at : IsStack(s, Read(s), at) /\ PathFits(s, Read(s), at) /\ Collected(s, Read(s))

LEMMA NothingIsReadRight == IsReadRight(<<>>) /\ Read(<<>>).issues = {}
<1> DEFINE s == <<>>
           at == [k \in 0 .. 0 |-> 0]
<1>1. Len(s) = 0 /\ DOMAIN s = {}
  OBVIOUS
<1>2. Read(s) = StartOfText
  <2>1. Len(s) \in Nat
    BY <1>1
  <2> HIDE DEF s
  <2>2. AfterLines(s)[0] = StartOfText
    BY <2>1, AfterLinesAre
  <2> QED
    BY <1>1, <2>2 DEF Read
<1>3. Drawn(s)[0] = <<>>
  <2>1. Len(s) \in Nat
    BY <1>1
  <2> HIDE DEF s
  <2> QED
    BY <2>1, DrawnIs
<1>4. StartOfText \in ReadStates
  <2>1. <<>> \in Seq(Nat) /\ <<>> \in Seq(LineNames) /\ <<>> \in Seq(Paths)
        /\ <<>> \in Seq([name : LineNames, path : Paths])
    OBVIOUS
  <2>2. NoLevel \in Int
    BY DEF NoLevel
  <2> QED
    BY <2>1, <2>2 DEF StartOfText, ReadStates, Paths
<1>5. /\ StartOfText.widths = <<>> /\ StartOfText.path = <<>> /\ StartOfText.lastUser = NoLevel
      /\ StartOfText.groups = <<>> /\ StartOfText.users = <<>> /\ StartOfText.issues = {}
  BY DEF StartOfText
<1>6. IsStack(s, StartOfText, at)
  BY <1>1, <1>5 DEF IsStack
<1>7. SubSeq(StartOfText.path, 1, 0) = <<>> /\ Len(StartOfText.path) = 0 /\ at[0] = 0
  BY <1>5
<1>8. PathFits(s, StartOfText, at)
  <2>1. Len(StartOfText.widths) = 0
    BY <1>5
  <2>2. ASSUME NEW k \in 0 .. 0
        PROVE  k <= Len(StartOfText.path) /\ Drawn(s)[at[k]] = SubSeq(StartOfText.path, 1, k)
    <3>1. k = 0
      OBVIOUS
    <3>2. 0 <= Len(StartOfText.path)
      BY <1>7
    <3>3. Drawn(s)[at[0]] = SubSeq(StartOfText.path, 1, 0)
      BY <1>3, <1>7, Zenon
    <3> HIDE DEF s, at
    <3> QED
      BY <3>1, <3>2, <3>3, Zenon
  <2>3. \A k \in 1 .. 0 : FALSE
    OBVIOUS
  <2> HIDE DEF at
  <2> QED
    BY <1>5, <2>1, <2>2, <2>3 DEF PathFits
<1>9. Collected(s, StartOfText)
  BY <1>1, <1>5 DEF Collected
<1> HIDE DEF s, at
<1>10. IsReadRight(s) /\ Read(s).issues = {}
  <2>1. s = <<>>
    BY DEF s
  <2> QED
    BY <1>2, <1>4, <1>5, <1>6, <1>8, <1>9, <2>1 DEF IsReadRight
<1> QED
  BY <1>10 DEF s

LEMMA OneMoreIsReadRight ==
    ASSUME NEW s \in Seq(TextLines), NEW x \in TextLines, IsReadRight(s)
    PROVE  IsReadRight(Append(s, x))
<1> DEFINE t == Append(s, x)
           st == Read(s)
           new == ParseLine(st, x)
<1>1. Read(t) = new /\ t # <<>>
  <2>1. Len(t) = Len(s) + 1
    OBVIOUS
  <2>2. AfterLines(t)[Len(s) + 1] = ParseLine(AfterLines(s)[Len(s)], x)
    BY AfterOneMore
  <2> QED
    BY <2>1, <2>2 DEF Read
<1>2. st \in ReadStates
  BY DEF IsReadRight
<1> HIDE DEF st
<1>3. new \in ReadStates /\ st.issues \subseteq new.issues
  BY <1>2, StatesStay
<1>4. IsClear(t) <=> (s = <<>> \/ IsClear(s)) /\ StaysClear(s, x)
  BY ClearStep
<1>5. st.issues = {} <=> s = <<>> \/ IsClear(s)
  BY NothingIsReadRight DEF IsReadRight, st
<1>6. CASE st.issues # {}
  <2>1. new.issues # {}
    BY <1>3, <1>6
  <2>2. ~IsClear(t)
    BY <1>4, <1>5, <1>6
  <2> HIDE DEF t, new
  <2>3. IsReadRight(t)
    BY <1>1, <1>3, <2>1, <2>2 DEF IsReadRight
  <2> QED
    BY <2>3 DEF t
<1>7. CASE st.issues = {}
  <2>1. PICK at : IsStack(s, st, at) /\ PathFits(s, st, at) /\ Collected(s, st)
    BY <1>7 DEF IsReadRight, st
  <2>2. /\ new.issues = {} <=> StaysClear(s, x)
        /\ new.issues = {} => \E b : IsStack(t, new, b) /\ PathFits(t, new, b) /\ Collected(t, new)
    BY <1>2, <1>7, <2>1, LineIsRead
  <2>3. IsClear(t) <=> new.issues = {}
    BY <1>4, <1>5, <1>7, <2>2
  <2> HIDE DEF t, new
  <2>4. IsReadRight(t)
    BY <1>1, <1>3, <2>2, <2>3 DEF IsReadRight
  <2> QED
    BY <2>4 DEF t
<1> QED
  BY <1>6, <1>7

\* Every text is read line by line.
LEMMA TextsAreReadRight == \A s \in Seq(TextLines) : IsReadRight(s)
<1> DEFINE Good == {n \in Nat : \A s \in Seq(TextLines) : Len(s) = n => IsReadRight(s)}
<1>1. 0 \in Good
  <2>1. \A s \in Seq(TextLines) : Len(s) = 0 => s = <<>>
    OBVIOUS
  <2> QED
    BY <2>1, NothingIsReadRight
<1>2. ASSUME NEW n \in Nat, n \in Good PROVE n + 1 \in Good
  <2> SUFFICES ASSUME NEW s \in Seq(TextLines), Len(s) = n + 1 PROVE IsReadRight(s)
    OBVIOUS
  <2> DEFINE r == SubSeq(s, 1, n)
             x == s[n + 1]
  <2>1. r \in Seq(TextLines) /\ Len(r) = n /\ x \in TextLines /\ \A i \in 1 .. n : r[i] = s[i]
    OBVIOUS
  <2>2. s = Append(r, x)
    OBVIOUS
  <2> HIDE DEF r, x
  <2>3. IsReadRight(r)
    BY <1>2, <2>1
  <2> QED
    BY <2>1, <2>2, <2>3, OneMoreIsReadRight
<1>3. Nat \subseteq Good
  <2> HIDE DEF Good
  <2> QED
    BY <1>1, <1>2, AllNumbers
<1> QED
  BY <1>3

ImportSpec ==
    /\ \E rows : ImportInit(rows)
    /\ [][ImportNext \/ \E line \in TextLines : TypeLine(line)]_importVars

LEMMA TextsAreLines == ImportSpec => [](text \in Seq(TextLines))
<1>1. (\E rows : ImportInit(rows)) => text \in Seq(TextLines)
  BY DEF ImportInit
<1>2. text \in Seq(TextLines) /\ [ImportNext \/ \E line \in TextLines : TypeLine(line)]_importVars
        => (text \in Seq(TextLines))'
  <2> SUFFICES ASSUME text \in Seq(TextLines), ImportNext \/ (\E line \in TextLines : TypeLine(line)) \/ UNCHANGED importVars
               PROVE  text' \in Seq(TextLines)
    OBVIOUS
  <2>1. text' = text \/ text' = <<>> \/ text' \in Files \/ \E line \in TextLines : text' = Append(text, line)
    BY DEF ImportNext, handleFile, ChangeText, TypeLine, SetSkipExisting, loadPreview, handleApply,
           sendImport, onClose, AnswerArrives, ReadGroups, ReadUsers, Refuse, applyImport, OtherChange,
           OtherMakesGroup, OtherRenamesGroup, OtherRemovesGroup, OtherMakesUser, importVars
  <2>2. CASE \E line \in TextLines : text' = Append(text, line)
    BY <2>2
  <2>3. CASE text' \in Files
    BY <2>3, LinesAssumption
  <2>4. CASE text' = text
    BY <2>4
  <2>5. CASE text' = <<>>
    <3>1. <<>> \in Seq(TextLines)
      OBVIOUS
    <3> QED
      BY <2>5, <3>1, Zenon
  <2> QED
    BY <2>1, <2>2, <2>3, <2>4, <2>5
<1> QED
  BY <1>1, <1>2, PTL DEF ImportSpec

\* The groups and users of a text without issues are those it draws, and every text that
\* draws none of the kind has an issue (user-import.ts): for any lines of any width, texts
\* of any length and any depth of groups.
THEOREM TextsAreReadAsDrawn == ImportSpec => []ReadAsDrawn
<1>1. text \in Seq(TextLines) => ReadAsDrawn
  <2> SUFFICES ASSUME text \in Seq(TextLines) PROVE ReadAsDrawn
    OBVIOUS
  <2> DEFINE st == Read(text)
             parsed == parseUserImport(text)
             D == Drawn(text)
             Of(kind) == {i \in DOMAIN text : text[i].kind = kind}
             As(i) == [name |-> text[i].name, path |-> D[GroupAbove(text, i)]]
  <2>1. parsed = [groups |-> st.groups, users |-> st.users,
                  issues |-> IF text = <<>> THEN {"EMPTY_FILE"} ELSE st.issues]
    BY DEF parseUserImport, Read
  <2>2. IsReadRight(text)
    BY TextsAreReadRight
  <2>3. ~IsClear(<<>>)
    BY DEF IsClear
  <2> HIDE DEF parsed, st, D
  <2>4. parsed.issues = {} <=> IsClear(text)
    BY <2>1, <2>2, <2>3 DEF IsReadRight, st
  <2>5. ASSUME parsed.issues = {}
        PROVE  ToSet(parsed.groups) = {D[i] : i \in Of("group")} /\ ToSet(parsed.users) = {As(i) : i \in Of("user")}
    <3>1. st.issues = {}
      BY <2>1, <2>5
    <3>2. Collected(text, st)
      BY <2>2, <3>1 DEF IsReadRight, st
    <3>3. parsed.groups = st.groups /\ parsed.users = st.users
      BY <2>1
    <3>7. /\ \A p : (\E i \in DOMAIN st.groups : st.groups[i] = p)
                     <=> \E i \in DOMAIN text : text[i].kind = "group" /\ p = D[i]
          /\ \A u : (\E i \in DOMAIN st.users : st.users[i] = u)
                     <=> \E i \in DOMAIN text : text[i].kind = "user" /\ u = As(i)
      BY <3>2, Zenon DEF Collected, IsGroup, D
    <3>8. \A kind, i : i \in Of(kind) <=> i \in DOMAIN text /\ text[i].kind = kind
      OBVIOUS
    <3> HIDE DEF Of, As
    <3>4. \A p : (\E i \in DOMAIN st.groups : st.groups[i] = p) <=> \E i \in Of("group") : p = D[i]
      BY <3>7, <3>8, Zenon
    <3>9. \A u : (\E i \in DOMAIN st.users : st.users[i] = u) <=> \E i \in Of("user") : u = As(i)
      <4>1. \A i : i \in Of("user") <=> i \in DOMAIN text /\ text[i].kind = "user"
        BY <3>8, Zenon
      <4>2. \A u : (\E i \in DOMAIN text : text[i].kind = "user" /\ u = As(i)) <=> \E i \in Of("user") : u = As(i)
        BY <4>1, SMT
      <4> QED
        <5> DEFINE Named(u) == \E i \in DOMAIN st.users : st.users[i] = u
                   Typed(u) == \E i \in DOMAIN text : text[i].kind = "user" /\ u = As(i)
                   Depicted(u) == \E i \in Of("user") : u = As(i)
        <5>1. (\A u : Named(u) <=> Typed(u)) /\ \A u : Typed(u) <=> Depicted(u)
          BY <3>7, <4>2
        <5> HIDE DEF Named, Typed, Depicted
        <5>2. \A u : Named(u) <=> Depicted(u)
          BY <5>1
        <5> QED
          BY <5>2 DEF Named, Depicted
    <3>5. ToSet(st.groups) = {D[i] : i \in Of("group")}
      BY <3>4 DEF ToSet
    <3>6. ToSet(st.users) = {As(i) : i \in Of("user")}
      BY <3>9 DEF ToSet
    <3> QED
      BY <3>3, <3>5, <3>6
  <2> QED
    BY <2>4, <2>5 DEF ReadAsDrawn, parsed, D
<1> QED
  BY <1>1, TextsAreLines, PTL
===============================================================================
