------------------------------ MODULE UserImport ------------------------------
(***************************************************************************)
(* Users and groups are made from a text whose indentation draws the       *)
(* organisation: the parser (packages/shared/src/user-import.ts), the      *)
(* dialog that shows first what will be made (UserBulkImportDialog.tsx),   *)
(* and the server, which compares again when it makes it (bulkImport of    *)
(* users.service.ts), while other administrators go on.                    *)
(*                                                                         *)
(* A line is [width, kind, name]: kind "user" and "group", or "badUser"    *)
(* and "longName" for what is refused by itself; width NoWidth stands for  *)
(* a full-width space.  Comments and empty lines, passwords, displayed     *)
(* names and the audit log are left out.                                   *)
(***************************************************************************)
EXTENDS Integers, FiniteSets, SequencesExt

CONSTANTS
    TextLines,              \* the lines that are typed
    MaxLines,           \* bound on the lines of a text that is typed
    Files,              \* texts that are chosen or pasted
    MaxGroupDepth,      \* MAX_GROUP_DEPTH
    OtherGroups, OtherUsers,    \* the names of those that others make
    MaxRequests,        \* bound on requests
    MaxOtherChanges,    \* bound on the changes of others
    NotShown            \* no preview

NoWidth == -1

ASSUME LinesAssumption ==
    /\ \A line \in TextLines : /\ line.width \in Nat \cup {NoWidth}
                               /\ line.kind \in {"user", "group", "badUser", "longName"}
    /\ Files \subseteq Seq(TextLines)
    /\ MaxGroupDepth \in Nat \ {0}

NoLevel == -1
TopLevel == 0           \* no parent

VARIABLES
    text,       \* in the importDialog
    importDialog,     \* its preview, the box and the request it waits for
    requests,   \* to import
    orgRows,    \* the groups: id -> name and parent
    accounts,   \* user names that are taken
    memberOf,    \* members: <<id of the group, user>>
    otherChanges

importVars == <<text, importDialog, requests, orgRows, accounts, memberOf, otherChanges>>
database   == <<orgRows, accounts, memberOf>>

-------------------------------------------------------------------------------
(* parseUserImport                                                         *)

\* widths and path by level, from 0; lastUser is the level of the latest user.
StartOfText ==
    [widths |-> <<>>, path |-> <<>>, lastUser |-> NoLevel, groups |-> <<>>, users |-> <<>>,
     issues |-> {}]

\* The level of the first line, whatever its width, one more, or one of before.
LevelOf(widths, width) ==
    IF widths = <<>> THEN 0
    ELSE IF width > Last(widths) THEN Len(widths)
    ELSE IF \E i \in DOMAIN widths : widths[i] = width
         THEN (CHOOSE i \in DOMAIN widths : widths[i] = width) - 1
    ELSE NoLevel

\* A mistake the runs must catch: a group of an earlier branch takes the line.
PathAlone(st, level) == Len(st.path) < level

HasNoGroupAbove(st, level) ==
    \/ st.lastUser # NoLevel /\ level > st.lastUser
    \/ Len(st.path) < level

UserLine(st, line, level) ==
    CASE line.kind = "badUser" -> [st EXCEPT !.issues = @ \cup {"BAD_USER_LINE"}]
      [] line.kind = "user" /\ \E i \in DOMAIN st.users : st.users[i].name = line.name ->
            [st EXCEPT !.issues = @ \cup {"DUPLICATE_USERNAME_IN_FILE"}]
      [] OTHER ->
            [st EXCEPT !.users = Append(@, [name |-> line.name,
                                            path |-> SubSeq(st.path, 1, level)]),
                       !.lastUser = level]

GroupLine(st, line, level, kept) ==
    LET path == Append(SubSeq(st.path, 1, level), line.name)
        fails(code) == [st EXCEPT !.issues = @ \cup {code}, !.widths = kept]
    IN  CASE line.kind = "longName" -> fails("NAME_TOO_LONG")
          [] line.kind = "group" /\ level + 1 > MaxGroupDepth -> fails("GROUP_DEPTH_EXCEEDED")
          [] OTHER -> IF path \in ToSet(st.groups) THEN fails("DUPLICATE_GROUP_IN_FILE")
                      ELSE [st EXCEPT !.path = path, !.groups = Append(@, path)]

ParseLine(st, line) ==
    LET level == LevelOf(st.widths, line.width)
        kept  == SubSeq(st.widths, 1, level)
        next  == [st EXCEPT !.widths = Append(kept, line.width), !.lastUser = NoLevel]
    IN  IF line.width = NoWidth \/ level = NoLevel
        THEN [st EXCEPT !.issues = @ \cup {"BAD_INDENT"}]
        ELSE IF HasNoGroupAbove(st, level)
        THEN [st EXCEPT !.issues = @ \cup {"BAD_INDENT"}, !.widths = kept,
                        !.lastUser = IF level > @ THEN @ ELSE NoLevel]
        ELSE IF line.kind \in {"user", "badUser"} THEN UserLine(next, line, level)
        ELSE GroupLine(next, line, level, kept)

\* What the parser knows after each line.
AfterLines(lines) ==
    LET after[i \in 0 .. Len(lines)] ==
          IF i = 0 THEN StartOfText ELSE ParseLine(after[i - 1], lines[i])
    IN  after

parseUserImport(lines) ==
    LET parsed == AfterLines(lines)[Len(lines)] IN
    [groups |-> parsed.groups, users |-> parsed.users,
     issues |-> IF lines = <<>> THEN {"EMPTY_FILE"} ELSE parsed.issues]

-------------------------------------------------------------------------------
(* resolveImport                                                           *)

PathOf(rows, g) ==
    LET up[n \in 0 .. MaxGroupDepth, h \in DOMAIN rows] ==
          IF n = MaxGroupDepth \/ rows[h].parent = TopLevel THEN <<rows[h].name>>
          ELSE Append(up[n + 1, rows[h].parent], rows[h].name)
    IN  up[0, g]

PathsOf(rows) == {PathOf(rows, g) : g \in DOMAIN rows}

groupsToCreate(parsed, rows) == SelectSeq(parsed.groups, LAMBDA path : path \notin PathsOf(rows))

IsNew(user, taken) == user.name \notin taken
usersToCreate(parsed, taken) == SelectSeq(parsed.users, LAMBDA user : IsNew(user, taken))

\* What an apply must find again.
bulkImportTokenOf(groups, users) == <<ToSet(groups), {users[i].name : i \in DOMAIN users}>>

-------------------------------------------------------------------------------
(* The importDialog                                                              *)

ClosedDialog == [preview |-> NotShown, skip |-> FALSE, waits |-> 0]

\* Typing, or another file: the preview goes.
ChangeText(new) ==
    /\ text' = new /\ importDialog' = [importDialog EXCEPT !.preview = NotShown]
    /\ UNCHANGED <<requests, database, otherChanges>>

TypeLine(line) == Len(text) < MaxLines /\ ChangeText(Append(text, line))

handleFile(file) == file # text /\ ChangeText(file)

SetSkipExisting ==
    /\ importDialog.preview # NotShown
    /\ importDialog' = [importDialog EXCEPT !.skip = ~@]
    /\ UNCHANGED <<text, requests, database, otherChanges>>

Request(of, dryRun, token, skip) ==
    [step |-> "sent", dryRun |-> dryRun, text |-> of, skip |-> skip, token |-> token,
     rows |-> [g \in {} |-> {}], answer |-> NotShown]

NoToken == <<{}, {}>>

\* Nothing is left of it but that it was.
Over == [Request(<<>>, TRUE, NoToken, FALSE) EXCEPT !.step = "over"]

\* The buttons wait for the answer; the text does not.
sendImport(of, dryRun, token) ==
    /\ importDialog.waits = 0 /\ Len(requests) < MaxRequests
    /\ requests' = Append(requests, Request(of, dryRun, token, importDialog.skip))
    /\ importDialog' = [importDialog EXCEPT !.waits = Len(requests) + 1]
    /\ UNCHANGED <<text, database, otherChanges>>

loadPreview == text # <<>> /\ sendImport(text, TRUE, NoToken)

handleApply ==
    /\ importDialog.preview # NotShown /\ importDialog.preview.issues = {}
    /\ sendImport(text, FALSE, importDialog.preview.token)

\* The component is unmounted; what it has sent goes on.
onClose ==
    /\ text # <<>>
    /\ text' = <<>> /\ importDialog' = ClosedDialog
    /\ UNCHANGED <<requests, database, otherChanges>>

IsAnswered(r) == requests[r].step \in {"answered", "refused", "stale", "lost"}

\* A stale apply asks for a preview by itself, of the text it was sent with.
AnswerArrives ==
    LET w == importDialog.waits
        r == requests[w]
        ends(dialog, new) ==
          /\ importDialog' = dialog /\ text' = new
          /\ requests' = [requests EXCEPT ![w] = Over]
    IN
    /\ w # 0 /\ IsAnswered(w)
    /\ CASE r.dryRun ->
              ends([importDialog EXCEPT !.waits = 0,
                      !.preview = IF r.step = "answered" THEN r.answer ELSE NotShown], text)
         [] ~r.dryRun /\ r.step = "answered" -> ends(ClosedDialog, <<>>)
         [] ~r.dryRun /\ r.step = "stale" /\ Len(requests) < MaxRequests ->
              /\ requests' = Append([requests EXCEPT ![w] = Over],
                                    Request(r.text, TRUE, NoToken, r.skip))
              /\ importDialog' = [importDialog EXCEPT !.waits = Len(requests) + 1]
              /\ text' = text
         [] OTHER -> ends([importDialog EXCEPT !.waits = 0], text)
    /\ UNCHANGED <<database, otherChanges>>

-------------------------------------------------------------------------------
(* bulkImport                                                              *)

Preview(parsed, of, rows, taken) ==
    LET groups == groupsToCreate(parsed, rows)
        users  == usersToCreate(parsed, taken)
    IN  [groups |-> groups, users |-> users, issues |-> parsed.issues,
         token |-> bulkImportTokenOf(groups, users), of |-> of]

ReadGroups(r) ==
    /\ requests[r].step = "sent" /\ requests[r].dryRun
    /\ requests' = [requests EXCEPT ![r].step = "half", ![r].rows = orgRows]
    /\ UNCHANGED <<text, importDialog, database, otherChanges>>

ReadUsers(r) ==
    /\ requests[r].step = "half"
    /\ requests' = [requests EXCEPT ![r].step = "answered",
                      ![r].answer = Preview(parseUserImport(requests[r].text), requests[r].text,
                                            requests[r].rows, accounts)]
    /\ UNCHANGED <<text, importDialog, database, otherChanges>>

\* The issues and the passwords are looked at before anything is read.
Refuse(r) ==
    /\ requests[r].step = "sent" /\ ~requests[r].dryRun
    /\ requests' = [requests EXCEPT ![r].step = "refused"]
    /\ UNCHANGED <<text, importDialog, database, otherChanges>>

\* A mistake the runs must catch: what was compared for the preview is enough.
TrustsPreview(r, now) == TRUE

IsAsPromised(r, now) == r.token = now.token

NextGroup(rows) == 1 + CHOOSE n \in {0} \cup DOMAIN rows : \A m \in DOMAIN rows : m <= n

IdOf(rows, path) == CHOOSE g \in DOMAIN rows : PathOf(rows, g) = path

AddGroupRow(rows, path) ==
    [g \in DOMAIN rows \cup {NextGroup(rows)} |->
       IF g \in DOMAIN rows THEN rows[g]
       ELSE [name |-> Last(path),
             parent |-> IF Len(path) = 1 THEN TopLevel ELSE IdOf(rows, Front(path))]]

\* A mistake the runs must catch: the members join the group that has the last name.
ByName(rows, path) == CHOOSE g \in DOMAIN rows : rows[g].name = Last(path)

GroupFor(rows, path) == IdOf(rows, path)

\* The transaction: read again, compared again, and all or nothing.
applyImport(r) ==
    LET req    == requests[r]
        parsed == parseUserImport(req.text)
        now    == Preview(parsed, req.text, orgRows, accounts)
        rows   == FoldLeft(AddGroupRow, orgRows,
                           SortSeq(now.groups, LAMBDA p, q : Len(p) < Len(q)))
        placed == {i \in DOMAIN now.users : now.users[i].path # <<>>}
        ends(step) == /\ requests' = [requests EXCEPT ![r].step = step]
                      /\ UNCHANGED database
    IN
    /\ req.step = "sent" /\ ~req.dryRun /\ parsed.issues = {}
    /\ CASE Len(now.users) < Len(parsed.users) /\ ~req.skip -> ends("refused")
         [] (Len(now.users) = Len(parsed.users) \/ req.skip) /\ ~IsAsPromised(req, now) ->
              ends("stale")
         [] OTHER ->
              /\ orgRows' = rows
              /\ accounts' = accounts \cup {now.users[i].name : i \in DOMAIN now.users}
              /\ memberOf' = memberOf \cup
                   {<<GroupFor(rows, now.users[i].path), now.users[i].name>> : i \in placed}
              /\ \E step \in {"answered", "lost"} : requests' = [requests EXCEPT ![r].step = step]
    /\ UNCHANGED <<text, importDialog, otherChanges>>

-------------------------------------------------------------------------------
(* Other administrators                                                    *)

OtherChange ==
    /\ requests # <<>>
    /\ otherChanges < MaxOtherChanges /\ otherChanges' = otherChanges + 1
    /\ UNCHANGED <<text, importDialog, requests>>

NameIsTaken(name, parent) ==
    \E g \in DOMAIN orgRows : orgRows[g] = [name |-> name, parent |-> parent]

OtherMakesGroup(name, parent) ==
    /\ OtherChange
    /\ parent \in {TopLevel} \cup DOMAIN orgRows /\ ~NameIsTaken(name, parent)
    /\ orgRows' = [g \in DOMAIN orgRows \cup {NextGroup(orgRows)} |->
                     IF g \in DOMAIN orgRows THEN orgRows[g]
                     ELSE [name |-> name, parent |-> parent]]
    /\ UNCHANGED <<accounts, memberOf>>

OtherRenamesGroup(g, name) ==
    /\ OtherChange
    /\ g \in DOMAIN orgRows /\ ~NameIsTaken(name, orgRows[g].parent)
    /\ orgRows' = [orgRows EXCEPT ![g].name = name]
    /\ UNCHANGED <<accounts, memberOf>>

\* An empty one.
OtherRemovesGroup(g) ==
    /\ OtherChange
    /\ g \in DOMAIN orgRows
    /\ ~\E m \in memberOf : m[1] = g
    /\ ~\E h \in DOMAIN orgRows : orgRows[h].parent = g
    /\ orgRows' = [h \in DOMAIN orgRows \ {g} |-> orgRows[h]]
    /\ UNCHANGED <<accounts, memberOf>>

OtherMakesUser(name) ==
    /\ OtherChange
    /\ name \notin accounts /\ accounts' = accounts \cup {name}
    /\ UNCHANGED <<orgRows, memberOf>>

-------------------------------------------------------------------------------
ImportInit(rows) ==
    /\ text = <<>> /\ importDialog = ClosedDialog /\ requests = <<>>
    /\ orgRows = rows /\ accounts = {} /\ memberOf = {} /\ otherChanges = 0

ImportNext ==
    \/ \E file \in Files : handleFile(file)
    \/ SetSkipExisting \/ loadPreview \/ handleApply \/ onClose \/ AnswerArrives
    \/ \E r \in DOMAIN requests : ReadGroups(r) \/ ReadUsers(r) \/ Refuse(r) \/ applyImport(r)
    \/ \E name \in OtherGroups, g \in 1 .. 3 :
          OtherMakesGroup(name, g - 1) \/ OtherRenamesGroup(g, name) \/ OtherRemovesGroup(g)
    \/ \E name \in OtherUsers : OtherMakesUser(name)

-------------------------------------------------------------------------------
(* Properties                                                              *)

\* The line that a line is drawn under: the latest that is less indented.
GroupAbove(lines, i) ==
    LET less == {j \in 1 .. i - 1 : lines[j].width < lines[i].width} IN
    IF less = {} THEN 0 ELSE CHOOSE j \in less : \A k \in less : k <= j

Drawn(lines) ==
    LET path[i \in 0 .. Len(lines)] ==
          IF i = 0 THEN <<>> ELSE Append(path[GroupAbove(lines, i)], lines[i].name)
    IN  path

\* Every line is a group or a user, below a group or at the top, beside the lines it is
\* drawn beside, and none comes twice.
IsClear(lines) ==
    LET drawn == Drawn(lines)
        Of(kind) == {i \in DOMAIN lines : lines[i].kind = kind}
    IN
    /\ lines # <<>>
    /\ DOMAIN lines = Of("group") \cup Of("user")
    /\ \A i \in DOMAIN lines :
          /\ lines[i].width # NoWidth
          /\ GroupAbove(lines, i) \in Of("group") \cup {0}
          /\ i = 1 \/ lines[i].width > lines[i - 1].width
                \/ \E j \in 1 .. i - 1 : /\ lines[j].width = lines[i].width
                                         /\ \A k \in j .. i : lines[k].width >= lines[i].width
    /\ \A i \in Of("group") :
          Len(drawn[i]) <= MaxGroupDepth /\ \A j \in Of("group") : drawn[i] = drawn[j] => i = j
    /\ \A i, j \in Of("user") : lines[i].name = lines[j].name => i = j

(***************************************************************************)
(* A text without issues is read exactly as its indentation draws it, with *)
(* whatever widths, and every other text has an issue: nothing ends up     *)
(* under a group it is not drawn under (user-import.ts, 9-11 and 98-103).  *)
(***************************************************************************)
ReadAsDrawn ==
    LET parsed == parseUserImport(text)
        drawn  == Drawn(text)
        Of(kind) == {i \in DOMAIN text : text[i].kind = kind}
    IN
    /\ parsed.issues = {} <=> IsClear(text)
    /\ parsed.issues = {} =>
          /\ ToSet(parsed.groups) = {drawn[i] : i \in Of("group")}
          /\ ToSet(parsed.users)
                = {[name |-> text[i].name, path |-> drawn[GroupAbove(text, i)]] : i \in Of("user")}

(***************************************************************************)
(* An import makes the groups and the users that the preview promised, all *)
(* of them, once, each where the text draws it, and where the text was not *)
(* edited while the preview was made, where the preview showed it; nobody  *)
(* else's account or group changes, and no group comes to stand twice,     *)
(* whatever others made meanwhile and however often the same text is sent  *)
(* (users.service.ts, 515-528 and 592-603).                                *)
(***************************************************************************)
ImportIsAsShown ==
    [][\A r \in DOMAIN requests :
         requests[r].step = "sent" /\ requests'[r].step \in {"answered", "lost"} =>
           LET made   == DOMAIN orgRows' \ DOMAIN orgRows
               joined == memberOf' \ memberOf
               drawn  == parseUserImport(requests[r].text)
           IN  /\ \A g \in DOMAIN orgRows : orgRows'[g] = orgRows[g]
               /\ memberOf \subseteq memberOf'
               /\ <<{PathOf(orgRows', g) : g \in made}, accounts' \ accounts>> = requests[r].token
               /\ Cardinality({PathOf(orgRows', g) : g \in DOMAIN orgRows'})
                     = Cardinality(DOMAIN orgRows')
               /\ {[name |-> m[2], path |-> PathOf(orgRows', m[1])] : m \in joined}
                     = {u \in ToSet(drawn.users) : u.name \notin accounts /\ u.path # <<>>}
               /\ importDialog.waits = r /\ importDialog.preview # NotShown
                     /\ importDialog.preview.of = requests[r].text =>
                     {u \in ToSet(importDialog.preview.users) : u.path # <<>>}
                        = {[name |-> m[2], path |-> PathOf(orgRows', m[1])] : m \in joined}
    ]_importVars
===============================================================================
