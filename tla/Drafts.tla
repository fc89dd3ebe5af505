-------------------------------- MODULE Drafts --------------------------------
(***************************************************************************)
(* Editing one node on the screen (ProjectDetailPage.tsx, NodeDetail.tsx,  *)
(* CommentInputForm.tsx): a dialog with a draft of the row and a new       *)
(* comment, saved one after the other and closed; and a bar of the chart   *)
(* that is dragged and confirmed.  The row in the list is read again       *)
(* behind it, somebody else writes, and requests fail.                     *)
(*                                                                         *)
(* A row is a value for each field with its updatedAt as a number, 0 when  *)
(* it is gone.  The effects of React that follow a render (the draft       *)
(* starts anew, the flags of the page are told) are part of the step.      *)
(* Trimming and the forms that refuse a value are left out.                *)
(***************************************************************************)
EXTENDS Integers, FiniteSets

CONSTANTS
    Fields,         \* of a row
    Values,         \* of a field
    MaxTyping,      \* bound on what the user types
    MaxTroubles     \* bound on writes of somebody else and failed requests

ASSUME DraftsAssumption == MaxTyping \in Nat

VARIABLES
    row,        \* the row on the server
    posted,     \* comment -> how often it is on the server
    seen,       \* the row in the list
    stale,      \* the list is being read again
    draft,      \* field -> value, in the dialog
    note,       \* the comment that is being written, 0 when there is none
    modal,      \* the dialog, see NoModal
    bar,        \* the proposal of a dragged bar: a row, with version 0 for none
    count,      \* what has been typed, and troubles, so far
    pressed     \* for the property: draft, basis and note when save was pressed

draftVars == <<row, posted, seen, stale, draft, note, modal, bar, count, pressed>>

\* saving: "no", or the request under way ("detail", "comment" or "bar"), which
\* carries what is sent: the fields that differ, and the version.
NoModal == [open |-> FALSE, confirm |-> FALSE, saving |-> "no",
            sent |-> <<>>, expected |-> 0, text |-> 0, base |-> <<>>,
            isDetailDirty |-> FALSE, isCommentDirty |-> FALSE]

Nothing == [draft |-> <<>>, basis |-> <<>>, note |-> 0]
NoBar == [version |-> 0, value |-> <<>>]

\* The dialog is drawn when the node is in the list.
Shown == modal.open /\ seen.version > 0

IsDirty(d, r) == d # r.value

\* What the page is told by the effects.
WithFlags(m, d, r, n) == [m EXCEPT !.isDetailDirty = IsDirty(d, r), !.isCommentDirty = n # 0]

-------------------------------------------------------------------------------
\* handleEditNode: the dialog is mounted with the row of the list, also while
\* the request of one that has been discarded is under way.
Open ==
    /\ ~modal.open /\ bar = NoBar
    /\ seen.version > 0
    /\ draft' = seen.value /\ note' = 0
    /\ modal' = [modal EXCEPT !.open = TRUE, !.isDetailDirty = FALSE, !.isCommentDirty = FALSE]
    /\ UNCHANGED <<row, posted, seen, stale, bar, count, pressed>>

\* The fields can be typed into while a save is under way.
Type ==
    /\ Shown /\ ~modal.confirm /\ count.typed < MaxTyping
    /\ count' = [count EXCEPT !.typed = @ + 1]
    /\ \/ \E f \in Fields, v \in Values : draft' = [draft EXCEPT ![f] = v] /\ UNCHANGED note
       \/ /\ note = 0 /\ note' = count.typed + 1
          /\ UNCHANGED draft
    /\ modal' = WithFlags(modal, draft', seen, note')
    /\ UNCHANGED <<row, posted, seen, stale, bar, pressed>>

\* The effect on [node.id, node.updatedAt].
StartsAnew(old, new) == old.version # new.version

\* The list arrives; a dialog whose node is gone is not there any more, and
\* what was being written with it.
RowArrives ==
    /\ stale
    /\ seen' = row /\ stale' = FALSE
    /\ draft' = IF Shown /\ row.version > 0 /\ StartsAnew(seen, row) THEN row.value ELSE draft
    /\ note' = IF row.version = 0 THEN 0 ELSE note
    /\ modal' = IF Shown THEN WithFlags(modal, draft', row, note') ELSE modal
    /\ UNCHANGED <<row, posted, bar, count, pressed>>

Close(m) == [NoModal EXCEPT !.isDetailDirty = m.isDetailDirty, !.isCommentDirty = m.isCommentDirty]

\* A mistake the runs must catch: the comment is forgotten.
AsksForRow == modal.isDetailDirty

MustAsk == modal.isDetailDirty \/ modal.isCommentDirty

\* attemptCloseDetail, by the buttons and by Escape.
AttemptClose ==
    /\ Shown /\ ~modal.confirm /\ modal.saving = "no"
    /\ modal' = IF MustAsk THEN [modal EXCEPT !.confirm = TRUE] ELSE Close(modal)
    /\ UNCHANGED <<row, posted, seen, stale, draft, note, bar, count, pressed>>

\* The question: drop everything, or go on.  It is still there while the save
\* that was chosen is under way, and dropping everything does not stop that.
Discard ==
    /\ modal.confirm
    /\ modal' = [modal EXCEPT !.open = FALSE, !.confirm = FALSE,
                              !.isDetailDirty = FALSE, !.isCommentDirty = FALSE]
    /\ pressed' = Nothing
    /\ UNCHANGED <<row, posted, seen, stale, draft, note, bar, count>>

KeepEditing ==
    /\ modal.confirm
    /\ modal' = [modal EXCEPT !.confirm = FALSE]
    /\ UNCHANGED <<row, posted, seen, stale, draft, note, bar, count, pressed>>

-------------------------------------------------------------------------------
(* handleSaveAndClose                                                      *)

Changed(d, r) == {f \in Fields : d[f] # r.value[f]}

SendDetail(m) == [m EXCEPT !.saving = "detail", !.expected = seen.version, !.base = seen.value,
                           !.sent = [f \in Changed(draft, seen) |-> draft[f]]]

\* After the row: the comment as it is by now, or the end.
AfterRow(m) == IF Shown /\ note # 0 THEN [m EXCEPT !.saving = "comment", !.text = note]
               ELSE Close(m)

\* By the button when something is dirty, and from the question.
Save ==
    /\ modal.open /\ modal.saving = "no"
    /\ modal.confirm \/ (Shown /\ MustAsk)
    /\ pressed' = [draft |-> draft, basis |-> seen.value, note |-> note]
    /\ modal' = IF Shown /\ IsDirty(draft, seen) THEN SendDetail(modal) ELSE AfterRow(modal)
    /\ UNCHANGED <<row, posted, seen, stale, draft, note, bar, count>>

Written(sent) == [version |-> row.version + 1,
                  value |-> [f \in Fields |-> IF f \in DOMAIN sent THEN sent[f] ELSE row.value[f]]]

IsAccepted == row.version > 0 /\ row.version = modal.expected

DetailSaved ==
    /\ modal.saving = "detail" /\ IsAccepted
    /\ row' = Written(modal.sent)
    /\ stale' = TRUE
    /\ modal' = AfterRow(modal)
    /\ UNCHANGED <<posted, seen, draft, note, bar, count, pressed>>

\* submitComment clears the field, and the dialog closes.
CommentSaved ==
    /\ modal.saving = "comment" /\ row.version > 0
    /\ posted' = [posted EXCEPT ![modal.text] = @ + 1]
    /\ note' = 0
    /\ modal' = Close(modal)
    /\ UNCHANGED <<row, seen, stale, draft, bar, count, pressed>>

\* The dialog stays as it is.
Failed(m) == [m EXCEPT !.saving = "no", !.confirm = FALSE]

\* 409 and 404.
SaveRefused ==
    /\ \/ modal.saving = "detail" /\ ~IsAccepted
       \/ modal.saving = "comment" /\ row.version = 0
    /\ modal' = Failed(modal)
    /\ UNCHANGED <<row, posted, seen, stale, draft, note, bar, count, pressed>>

Trouble == count.troubles < MaxTroubles /\ count' = [count EXCEPT !.troubles = @ + 1]

\* The request, or the answer to it, is lost.
Lost ==
    /\ modal.saving \in {"detail", "comment"} /\ Trouble
    /\ \/ UNCHANGED <<row, posted>>
       \/ /\ modal.saving = "detail" /\ IsAccepted
          /\ row' = Written(modal.sent) /\ UNCHANGED posted
       \/ /\ modal.saving = "comment" /\ row.version > 0
          /\ posted' = [posted EXCEPT ![modal.text] = @ + 1] /\ UNCHANGED row
    /\ modal' = Failed(modal)
    /\ UNCHANGED <<seen, stale, draft, note, bar, pressed>>

-------------------------------------------------------------------------------
(* A dragged bar (applyBarChange): the proposal keeps the row it is for    *)

ProposeBar ==
    /\ ~modal.open /\ modal.saving = "no" /\ bar = NoBar
    /\ seen.version > 0 /\ count.typed < MaxTyping
    /\ count' = [count EXCEPT !.typed = @ + 1]
    /\ bar' = seen
    /\ UNCHANGED <<row, posted, seen, stale, draft, note, modal, pressed>>

CancelBar ==
    /\ bar # NoBar /\ modal.saving = "no"
    /\ bar' = NoBar
    /\ UNCHANGED <<row, posted, seen, stale, draft, note, modal, count, pressed>>

ConfirmBar ==
    /\ bar # NoBar /\ modal.saving = "no"
    /\ \E f \in Fields, v \in Values :
          modal' = [modal EXCEPT !.saving = "bar", !.expected = bar.version, !.base = bar.value,
                                 !.sent = [g \in {f} |-> v]]
    /\ UNCHANGED <<row, posted, seen, stale, draft, note, bar, count, pressed>>

BarAnswered ==
    /\ modal.saving = "bar"
    /\ \/ IsAccepted /\ row' = Written(modal.sent) /\ stale' = TRUE
       \/ ~IsAccepted /\ UNCHANGED <<row, stale>>
    /\ modal' = [NoModal EXCEPT !.isDetailDirty = modal.isDetailDirty,
                                !.isCommentDirty = modal.isCommentDirty]
    /\ bar' = NoBar
    /\ UNCHANGED <<posted, seen, draft, note, count, pressed>>

-------------------------------------------------------------------------------
\* Somebody else; the list may be read again at any time (focus, another write).
OtherEditsRow ==
    /\ row.version > 0 /\ Trouble
    /\ \/ \E f \in Fields, v \in Values : row' = Written([g \in {f} |-> v])
       \/ row' = [row EXCEPT !.version = 0]
    /\ stale' = TRUE
    /\ UNCHANGED <<posted, seen, draft, note, modal, bar, pressed>>

DraftsInit(value) ==
    /\ row = [version |-> 1, value |-> value] /\ seen = row /\ stale = FALSE
    /\ posted = [n \in 1..MaxTyping |-> 0]
    /\ draft = <<>> /\ note = 0 /\ modal = NoModal /\ bar = NoBar
    /\ count = [typed |-> 0, troubles |-> 0]
    /\ pressed = Nothing

DraftsNext ==
    \/ Open \/ Type \/ RowArrives \/ AttemptClose \/ Discard \/ KeepEditing
    \/ Save \/ DetailSaved \/ CommentSaved \/ SaveRefused \/ Lost
    \/ ProposeBar \/ CancelBar \/ ConfirmBar \/ BarAnswered
    \/ OtherEditsRow

-------------------------------------------------------------------------------
SavesRow == modal.saving \in {"detail", "bar"} /\ row' # row
            /\ modal'.saving # modal.saving

\* What is written goes over the row that was on the screen when it was typed,
\* and changes the fields that differ from it.
WritesWhatWasMeant ==
    SavesRow =>
      /\ row.value = modal.base
      /\ modal.saving = "detail" /\ pressed # Nothing =>
            \A f \in DOMAIN modal.sent : row'.value[f] = pressed.draft[f]
                                         /\ row.value[f] = pressed.basis[f]

\* A dialog that closes by itself has stored what was there when save was pressed.
ClosesWhenStored ==
    Shown /\ ~modal'.open /\ modal.saving # modal'.saving =>
      /\ pressed.note # 0 => posted'[pressed.note] > 0
      /\ modal.saving = "detail" /\ pressed # Nothing =>
            \A f \in Fields : pressed.draft[f] # pressed.basis[f] =>
                                 row'.value[f] = pressed.draft[f]

PostsOnce == \A n \in DOMAIN posted : posted'[n] <= 1 + count'.troubles

ClosesWithoutLoss ==
    Shown /\ ~modal'.open /\ modal.saving = "no" /\ ~modal.confirm =>
        note = 0 /\ draft = seen.value

FaithKept == WritesWhatWasMeant /\ ClosesWhenStored /\ PostsOnce /\ ClosesWithoutLoss

(***************************************************************************)
(* A save writes what the user has typed and nothing else: it goes over    *)
(* the row that was on the screen when it was typed, and changes the       *)
(* fields that differ from it; a dialog that closes by itself after a save *)
(* has stored the draft and the comment that were there when save was      *)
(* pressed (unless the node was gone from the screen by then); a comment   *)
(* is stored once but for lost answers; and without the question a dialog  *)
(* that has something typed in it does not close.                          *)
(***************************************************************************)
EditsKeepFaith == [][FaithKept]_draftVars
================================================================================
