------------------------------- MODULE GroupSync -------------------------------
(***************************************************************************)
(* People enter and leave a group on the screen of the administrator, who  *)
(* is then asked about the projects (AdminGroupsPage.tsx,                  *)
(* AdminUserDetailPage.tsx, groupSync.ts, GroupProjectSyncDialog.tsx): an  *)
(* enquiry about the projects of the group that is left, the change, an    *)
(* enquiry about those of the group that is entered, and a dialog whose    *)
(* requests follow one another.  Another administrator writes in between,  *)
(* and answers get lost.                                                   *)
(*                                                                         *)
(* The server is here what a request sees of it (Groups.tla and            *)
(* Members.tla have what runs within one): belongs is the group of each    *)
(* user, role the rows of project_members.                                 *)
(***************************************************************************)
EXTENDS Integers, FiniteSets, Functions, FiniteSetsExt

CONSTANTS
    People, SyncProjects,
    Within,         \* group -> itself and the groups below it
    MaxChanges,     \* bound on the changes of groups by this page
    MaxMeddling,    \* bound on the writes of the other administrator
    MaxMishaps,     \* bound on the lost or failed requests
    NoGroup         \* the group of those who are in none

ASSUME SyncAssumption == \A g \in DOMAIN Within : g \in Within[g]

VARIABLES
    belongs,    \* user -> group
    listed,     \* the same, as the page has loaded it
    role,       \* <<project, user>> -> "NONE", "MEMBER" or "MANAGER"
    screen,     \* what the page is doing
    dialog,     \* the dialog about the projects
    meddling,   \* changes, writes of the other administrator and mishaps so far
    foreign     \* pairs the other administrator has written since the change

syncVars == <<belongs, listed, role, screen, dialog, meddling, foreign>>

Pairs == SyncProjects \X People

(***************************************************************************)
(* group: the one that is entered or left; moving: user -> the old group,  *)
(* of those who leave one; remove: the pairs that may be removed, blocked: *)
(* projects that may not be chosen.                                        *)
(***************************************************************************)
NoScreen == [step |-> "idle", group |-> NoGroup, users |-> {}, moving |-> <<>>,
             remove |-> {}, blocked |-> {}]

(***************************************************************************)
(* toAdd, toRemove: the projects that are ticked; doneAdd, donePair: what  *)
(* has been answered.  busy: todo holds the requests of the loop, denied   *)
(* what has been refused.  The rest is for the property: what was ticked   *)
(* when any loop began (asked) and when the last one did (promise), the    *)
(* roles when the dialog opened, who has entered and who has left a group. *)
(***************************************************************************)
NoDialog == [open |-> FALSE, add |-> {}, remove |-> {}, blocked |-> {},
             toAdd |-> {}, toRemove |-> {}, doneAdd |-> {}, donePair |-> {},
             busy |-> FALSE, todo |-> {}, denied |-> {},
             asked |-> {}, promise |-> {}, before |-> <<>>, entered |-> {}, left |-> {}]

-------------------------------------------------------------------------------
(* The answers of the server (GET groups/:id/projects, members)            *)

UsersOf(g) == {u \in People : belongs[u] \in Within[g]}

Covered(g) == {p \in SyncProjects : \E u \in UsersOf(g) : role[<<p, u>>] # "NONE"}

missingUserIds(g, p) == {u \in UsersOf(g) : role[<<p, u>>] = "NONE"}

Managers(p) == {u \in People : role[<<p, u>>] = "MANAGER"}

buildAddSide(g, users) ==
    UNION {{p} \X (users \cap missingUserIds(g, p)) : p \in Covered(g)}

\* A mistake the runs must catch: all that have been chosen are to leave.
RemoveEverybody(moving, users) ==
    UNION {UNION {{p} \X (users \ missingUserIds(g, p)) : p \in Covered(g)} :
              g \in Range(moving)}

\* Only those who come from the group, and only who is not known to be missing.
buildRemoveSide(moving, users) ==
    UNION {UNION {{p} \X ({u \in DOMAIN moving : moving[u] = g} \ missingUserIds(g, p)) :
                     p \in Covered(g)} : g \in Range(moving)}

\* Projects whose managers would all leave.
markBlockedTargets(remove) ==
    {p \in SyncProjects : /\ Managers(p) # {}
                          /\ {p} \X Managers(p) \subseteq remove}

-------------------------------------------------------------------------------
(* The page                                                                *)

Calm == UNCHANGED <<meddling, foreign>>

Counted == /\ meddling.changes < MaxChanges
           /\ meddling' = [meddling EXCEPT !.changes = @ + 1]
           /\ UNCHANGED foreign

\* onAddMembers: the first try does not move anybody; the server names who is
\* elsewhere, and the question comes.
AddMembers(g, users) ==
    /\ screen = NoScreen /\ ~dialog.open
    /\ users # {}
    /\ LET elsewhere == {u \in users : belongs[u] \notin {g, NoGroup}}
       IN  IF elsewhere = {}
           THEN /\ belongs' = [u \in People |-> IF u \in users THEN g ELSE belongs[u]]
                /\ screen' = [NoScreen EXCEPT !.step = "entered", !.group = g, !.users = users]
           ELSE /\ screen' = [NoScreen EXCEPT !.step = "ask", !.group = g, !.users = users,
                                              !.moving = Restrict(belongs, elsewhere)]
                /\ UNCHANGED belongs
    /\ UNCHANGED <<listed, role, dialog>> /\ Counted

\* onMove on the page of a user, and onRemoveMember, after their questions: the
\* old group is the one the page knows of.
MoveUser(u, g) ==
    /\ screen = NoScreen /\ ~dialog.open
    /\ g # listed[u]
    /\ screen' = [NoScreen EXCEPT !.step = "survey", !.group = g, !.users = {u},
                     !.moving = Restrict(listed, {v \in {u} : listed[v] # NoGroup})]
    /\ UNCHANGED <<belongs, listed, role, dialog>> /\ Counted

\* The groups are asked for again: after a change, which waits for it, and when
\* the window comes to the front.
Relist ==
    /\ listed # belongs
    /\ listed' = belongs
    /\ UNCHANGED <<belongs, role, screen, dialog>> /\ Calm

Answer(yes) ==
    /\ screen.step = "ask"
    /\ screen' = IF yes THEN [screen EXCEPT !.step = "survey"] ELSE NoScreen
    /\ UNCHANGED <<belongs, listed, role, dialog>> /\ Calm

\* The projects of the groups that are left are read before they are.
Survey ==
    /\ screen.step = "survey"
    /\ screen' = [screen EXCEPT !.step = "managers",
                                !.remove = buildRemoveSide(screen.moving, screen.users)]
    /\ UNCHANGED <<belongs, listed, role, dialog>> /\ Calm

\* annotateBlockedTargets; nothing is blocked when the enquiry fails.
Annotate ==
    /\ screen.step = "managers"
    /\ \E fails \in {FALSE} \cup {meddling.mishaps < MaxMishaps} :
          /\ screen' = [screen EXCEPT !.step = "change",
                           !.blocked = IF fails THEN {} ELSE markBlockedTargets(screen.remove)]
          /\ meddling' = [meddling EXCEPT !.mishaps = @ + IF fails THEN 1 ELSE 0]
    /\ UNCHANGED <<belongs, listed, role, dialog, foreign>>

\* The dialog opens when it has something to ask; who has been written by
\* somebody else is told from now on.
OpenDialog(add, remove, entered, left, now) ==
    IF add \cup remove = {} THEN NoDialog
    ELSE [NoDialog EXCEPT !.open = TRUE, !.add = add, !.remove = remove, !.before = now,
                          !.blocked = screen.blocked, !.entered = entered, !.left = left]

\* move: true, or the removal.  A move deletes what other groups the users are
\* in by now; a removal fails when the user is not in the group any more.
Change ==
    /\ screen.step = "change"
    /\ \/ /\ screen.group # NoGroup
          /\ belongs' = [u \in People |-> IF u \in screen.users THEN screen.group ELSE belongs[u]]
          /\ screen' = [screen EXCEPT !.step = "entered"]
          /\ UNCHANGED <<listed, dialog>>
       \/ /\ screen.group = NoGroup
          /\ \A u \in screen.users : belongs[u] = screen.moving[u]
          /\ belongs' = [u \in People |-> IF u \in screen.users THEN NoGroup ELSE belongs[u]]
          /\ dialog' = OpenDialog({}, screen.remove, {}, screen.users, role)
          /\ listed' = belongs'
          /\ screen' = NoScreen
    /\ foreign' = {}
    /\ UNCHANGED <<role, meddling>>

\* The projects of the group that has been entered.
Entered ==
    /\ screen.step = "entered"
    /\ dialog' = OpenDialog(buildAddSide(screen.group, screen.users), screen.remove,
                            screen.users, DOMAIN screen.moving, role)
    /\ screen' = NoScreen
    /\ listed' = belongs
    /\ foreign' = {}
    /\ UNCHANGED <<belongs, role, meddling>>

\* A request fails, or the member is gone: a toast, and nothing else.  What a
\* change has done without an answer stays.
GiveUp ==
    /\ screen.step \in {"survey", "change", "entered"}
    /\ \/ /\ meddling.mishaps < MaxMishaps
          /\ meddling' = [meddling EXCEPT !.mishaps = @ + 1]
          /\ belongs' \in {belongs} \cup
                (IF screen.step = "change" THEN {[u \in People |->
                    IF u \in screen.users THEN screen.group ELSE belongs[u]]} ELSE {})
       \/ /\ screen.step = "change" /\ screen.group = NoGroup
          /\ \E u \in screen.users : belongs[u] # screen.moving[u]
          /\ UNCHANGED <<belongs, meddling>>
    /\ screen' = NoScreen
    /\ UNCHANGED <<listed, role, dialog, foreign>>

-------------------------------------------------------------------------------
(* The dialog                                                              *)

\* toggle; the boxes are there while a loop runs, too.
Toggle(side, p) ==
    /\ dialog.open
    /\ \/ /\ side = "add" /\ p \in {pair[1] : pair \in dialog.add}
          /\ dialog' = [dialog EXCEPT !.toAdd = IF p \in @ THEN @ \ {p} ELSE @ \cup {p}]
       \/ /\ side = "remove" /\ p \in {pair[1] : pair \in dialog.remove} \ dialog.blocked
          /\ dialog' = [dialog EXCEPT !.toRemove = IF p \in @ THEN @ \ {p} ELSE @ \cup {p}]
    /\ UNCHANGED <<belongs, listed, role, screen>> /\ Calm

Cancel ==
    /\ dialog.open /\ ~dialog.busy
    /\ dialog' = NoDialog
    /\ UNCHANGED <<belongs, listed, role, screen>> /\ Calm

\* A mistake the runs must catch: a second try sends everything again.
WhatIsTicked(d) ==
    {<<"add", p, {pair[2] : pair \in {q \in d.add : q[1] = p}}>> : p \in d.toAdd}
    \cup {<<"remove", pair[1], {pair[2]}>> : pair \in {q \in d.remove : q[1] \in d.toRemove}}

\* One request for each project to add, one for each pair to remove.
WhatIsLeft(d) ==
    {r \in WhatIsTicked(d) : \/ r[1] = "add" /\ r[2] \notin d.doneAdd
                             \/ r[1] = "remove" /\ \A u \in r[3] : <<r[2], u>> \notin d.donePair}

Confirm ==
    /\ dialog.open /\ ~dialog.busy
    /\ dialog' = [dialog EXCEPT !.busy = TRUE, !.todo = WhatIsLeft(dialog), !.denied = {},
                                !.asked = @ \cup WhatIsTicked(dialog),
                                !.promise = WhatIsTicked(dialog)]
    /\ UNCHANGED <<belongs, listed, role, screen>> /\ Calm

\* What is to be added comes first.
IsNext(r) == r \in dialog.todo /\ (r[1] = "remove" => \A q \in dialog.todo : q[1] = "remove")

PairsOf(r) == {r[2]} \X r[3]

\* The server: who is there already is passed over; the last manager stays.
IsRefused(r) == /\ r[1] = "remove"
                /\ \E u \in r[3] : Managers(r[2]) = {u}

Effect(r) ==
    [k \in Pairs |-> IF k \notin PairsOf(r) THEN role[k]
                     ELSE IF r[1] = "remove" THEN "NONE"
                     ELSE IF role[k] = "NONE" THEN "MEMBER" ELSE role[k]]

\* A success, or NOT_A_MEMBER, which is the same to the dialog.
RequestSucceeds(r) ==
    /\ dialog.busy /\ IsNext(r) /\ ~IsRefused(r)
    /\ role' = Effect(r)
    /\ dialog' = [dialog EXCEPT !.todo = @ \ {r},
                     !.doneAdd = @ \cup IF r[1] = "add" THEN {r[2]} ELSE {},
                     !.donePair = @ \cup IF r[1] = "remove" THEN PairsOf(r) ELSE {}]
    /\ UNCHANGED <<belongs, listed, screen>> /\ Calm

\* 4xx: the last manager, a user who is inactive by now, a project that is gone.
Deny(r) ==
    /\ dialog.busy /\ IsNext(r)
    /\ \/ IsRefused(r) /\ UNCHANGED meddling
       \/ /\ meddling.mishaps < MaxMishaps
          /\ meddling' = [meddling EXCEPT !.mishaps = @ + 1]
    /\ dialog' = [dialog EXCEPT !.todo = @ \ {r}, !.denied = @ \cup {r}]
    /\ UNCHANGED <<belongs, listed, role, screen, foreign>>

\* deselect: a project that has been denied is not ticked any more.
Deselected(d) ==
    [d EXCEPT !.toAdd = @ \ {r[2] : r \in {q \in d.denied : q[1] = "add"}},
              !.toRemove = @ \ {r[2] : r \in {q \in d.denied : q[1] = "remove"}},
              !.denied = {}, !.todo = {}, !.busy = FALSE]

\* 5xx or no answer: the loop ends there, and the dialog stays.
Break(r) ==
    /\ dialog.busy /\ IsNext(r) /\ meddling.mishaps < MaxMishaps
    /\ meddling' = [meddling EXCEPT !.mishaps = @ + 1]
    /\ role' \in {role, IF IsRefused(r) THEN role ELSE Effect(r)}
    /\ dialog' = Deselected(dialog)
    /\ UNCHANGED <<belongs, listed, screen, foreign>>

\* The dialog closes unless something has been denied.
Finish ==
    /\ dialog.busy /\ dialog.todo = {}
    /\ dialog' = IF dialog.denied = {} THEN NoDialog ELSE Deselected(dialog)
    /\ UNCHANGED <<belongs, listed, role, screen>> /\ Calm

-------------------------------------------------------------------------------
Meddle ==
    /\ meddling.writes < MaxMeddling
    /\ meddling' = [meddling EXCEPT !.writes = @ + 1]
    /\ \/ /\ \E k \in Pairs, r \in {"NONE", "MEMBER", "MANAGER"} :
                /\ role[k] # r /\ (role[k] = "MANAGER" => Managers(k[1]) # {k[2]})
                /\ role' = [role EXCEPT ![k] = r]
                /\ foreign' = foreign \cup {k}
          /\ UNCHANGED belongs
       \/ /\ \E u \in People, g \in DOMAIN Within \cup {NoGroup} :
                belongs[u] # g /\ belongs' = [belongs EXCEPT ![u] = g]
          /\ UNCHANGED <<role, foreign>>
    /\ UNCHANGED <<listed, screen, dialog>>

SyncInit(groups, roles) ==
    /\ belongs = groups /\ listed = groups /\ role = roles
    /\ screen = NoScreen /\ dialog = NoDialog
    /\ meddling = [changes |-> 0, writes |-> 0, mishaps |-> 0]
    /\ foreign = {}

SyncNext ==
    \/ Survey \/ Annotate \/ Change \/ Entered \/ GiveUp
    \/ Cancel \/ Confirm \/ Finish \/ Meddle
    \/ \E g \in DOMAIN Within, users \in SUBSET People : AddMembers(g, users)
    \/ Relist
    \/ \E u \in People, g \in DOMAIN Within \cup {NoGroup} : MoveUser(u, g)
    \/ \E yes \in BOOLEAN : Answer(yes)
    \/ \E side \in {"add", "remove"}, p \in SyncProjects : Toggle(side, p)
    \/ \E r \in dialog.todo : RequestSucceeds(r) \/ Deny(r) \/ Break(r)

-------------------------------------------------------------------------------
\* Offered to be added and to be removed.
Torn == dialog.add \cap dialog.remove

\* It takes a write of somebody else, or an answer that was lost.
OffersAreApart == meddling.writes = 0 /\ meddling.mishaps = 0 => Torn = {}

\* A role changes only where a box was ticked, of who has entered or left a group.
ChangesAreAsked ==
    \A k \in Pairs \ foreign' : role'[k] # dialog.before[k] =>
        \E r \in dialog.asked :
           /\ k \in PairsOf(r)
           /\ \/ r[1] = "add" /\ role'[k] = "MEMBER" /\ k[2] \in dialog.entered
              \/ r[1] = "remove" /\ role'[k] = "NONE" /\ k[2] \in dialog.left

\* What the dialog knows to be done is not done again.
NothingTwice ==
    meddling'.writes = meddling.writes =>
        \A k \in Pairs \ Torn : role'[k] # role[k] =>
            k \notin dialog.donePair /\ (role[k] = "NONE" => k[1] \notin dialog.doneAdd)

\* A request has been served, but for what is torn or somebody else's by now.
IsServed(r) ==
    \A k \in PairsOf(r) \ (foreign \cup Torn) : (role[k] = "NONE") = (r[1] = "remove")

ClosesWhenDone == dialog.busy /\ ~dialog'.open => \A r \in dialog.promise : IsServed(r)

WordKept ==
    dialog.open => OffersAreApart /\ ChangesAreAsked /\ NothingTwice /\ ClosesWhenDone

(***************************************************************************)
(* Nobody loses or gains a project behind the administrator's back: but    *)
(* for what somebody else has written, a role changes only where a box was *)
(* ticked, only for those who have just left a group (who are taken out)   *)
(* or entered one (who become members); what the dialog knows to be done   *)
(* is not done again when it tries once more, even if somebody else has    *)
(* undone it; and a dialog that closes by itself has done all of it, but   *)
(* for pairs that were offered on both sides, which takes somebody else's  *)
(* write or a lost answer.  (groupSync.ts, 4-8: who takes part for other   *)
(* reasons stays.)                                                         *)
(***************************************************************************)
SyncKeepsItsWord == [][WordKept]_syncVars
================================================================================
