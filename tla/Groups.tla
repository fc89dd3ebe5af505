-------------------------------- MODULE Groups --------------------------------
(***************************************************************************)
(* User groups and who is in them: GroupsService (apps/api/src/groups).    *)
(*                                                                         *)
(* Every query is a step and any other request may run between two of      *)
(* them.  The rows of user_groups are parent and name (None for a group    *)
(* that is not there); member holds the rows of user_group_members.  The   *)
(* updatedAt of a group is not counted: a request knows whether its client *)
(* has seen the group as it is (same).                                     *)
(*                                                                         *)
(* Left out: descriptions (an update that sends neither name nor parent),  *)
(* audit rows, and that a user is inactive or gone (a check may refuse for *)
(* it).                                                                    *)
(***************************************************************************)
EXTENDS GroupTree

CONSTANTS
    Groups,         \* the supply of group ids
    GroupUsers,
    Names,
    GroupRequests        \* each is a request in flight, one at a time

ASSUME GroupsAssumption == None \notin Groups \cup Names

VARIABLES
    parent,     \* the groups that exist -> parentId
    name,       \* the same -> name
    member,     \* pairs <<group, user>>
    ask         \* request -> what it does and knows

groupsVars == <<parent, name, member, ask>>

Existing == DOMAIN parent

Ops   == {"none", "create", "update", "remove", "add", "drop"}
AskSteps == {"idle", "form", "name", "count", "target", "assign", "drop", "write"}

(***************************************************************************)
(* parent and name are the ones that the group is to have, sends those of  *)
(* them that an update writes.  same: the client has seen the group as it  *)
(* is (updatedAt).  fresh is for the properties: nobody has written to the *)
(* tables since the request began.                                         *)
(***************************************************************************)
Ask == [step : AskSteps, op : Ops, group : Groups \cup {None},
            parent : Groups \cup {None}, name : Names \cup {None},
            sends : SUBSET {"parent", "name"}, users : SUBSET GroupUsers,
            leaving : SUBSET (Groups \X GroupUsers), counted : SUBSET {"members", "children"},
            same : BOOLEAN, fresh : BOOLEAN]

NoAsk == [step |-> "idle", op |-> "none", group |-> None, parent |-> None, name |-> None,
         sends |-> {}, users |-> {}, leaving |-> {}, counted |-> {},
         same |-> TRUE, fresh |-> TRUE]

-------------------------------------------------------------------------------
Begin(r, fields) == ask[r] = NoAsk /\ ask' = [ask EXCEPT ![r] = fields]
Proceed(r, step) == ask' = [ask EXCEPT ![r].step = step]

\* The request r writes (the row of the groups gs, if any) and ends: what the
\* others have read is older now.
Commit(r, gs) ==
    ask' = [q \in GroupRequests |->
               IF q = r \/ ask[q] = NoAsk THEN NoAsk
               ELSE [ask[q] EXCEPT !.fresh = FALSE, !.same = @ /\ ask[q].group \notin gs]]

Unwritten == UNCHANGED <<parent, name, member>>

-------------------------------------------------------------------------------
(* create                                                                  *)

\* A mistake the runs must catch: the depth of the parent is what counts.
MayPutBelow(p) == p = None \/ groupDepthOf(parent, p) \in 1..MaxDepth

MayPutUnder(p) == p = None \/ groupDepthOf(parent, p) \in 1..(MaxDepth - 1)

\* The id of a new group (randomUUID) is new: no request names it.
IsUnused(g) ==
    /\ g \notin Existing
    /\ \A q \in GroupRequests : g \notin {ask[q].group, ask[q].parent}
                           /\ \A m \in ask[q].leaving : m[1] # g

Create(r) ==
    /\ \E g \in Groups, p \in Groups \cup {None}, n \in Names :
          /\ IsUnused(g)
          /\ MayPutUnder(p)
          /\ Begin(r, [NoAsk EXCEPT !.step = "name", !.op = "create",
                                   !.group = g, !.parent = p, !.name = n])
    /\ Unwritten

-------------------------------------------------------------------------------
(* update                                                                  *)

\* The screen shows the group to a client who is going to edit it.
OpenForm(r) ==
    /\ \E g \in Existing :
          Begin(r, [NoAsk EXCEPT !.step = "form", !.op = "update", !.group = g])
    /\ Unwritten

\* A mistake the runs must catch: the new parent is only looked up.
MayMoveAnywhere(g, p) == p \in Existing \cup {None}

\* A parent that stays is not checked.
MayMove(g, p) ==
    \/ p = parent[g]
    \/ /\ p \in Existing \cup {None}
       /\ canReparentGroup(parent, g, p)

\* A mistake the runs must catch: whoever saves last wins.
AnyVersion(r) == ask[r].group \in Existing

\* GROUP_NOT_FOUND, CONFLICT
SameVersion(r) == ask[r].group \in Existing /\ ask[r].same

\* A field that is not sent stays as it has been read; the name is looked for
\* only when the name or the parent is another.
Update(r) ==
    /\ ask[r].step = "form"
    /\ SameVersion(r)
    /\ LET g == ask[r].group
       IN  \E p \in Groups \cup {None}, n \in Names, sends \in SUBSET {"parent", "name"} :
              /\ "parent" \notin sends => p = parent[g]
              /\ "name" \notin sends => n = name[g]
              /\ MayMove(g, p)
              /\ ask' = [ask EXCEPT ![r] =
                            [@ EXCEPT !.step = IF p # parent[g] \/ n # name[g] THEN "name" ELSE "write",
                                      !.parent = p, !.name = n, !.sends = sends, !.fresh = TRUE]]
    /\ Unwritten

-------------------------------------------------------------------------------
(* assertNameFree, and the writes of create and update                     *)

\* A mistake the runs must catch: the index of the database is relied on.
LeftToIndex(g, p, n) == TRUE

NameIsFree(g, p, n) == \A h \in Existing \ {g} : ~(parent[h] = p /\ name[h] = n)

\* GROUP_NAME_DUPLICATE
AssertNameFree(r) ==
    /\ ask[r].step = "name"
    /\ NameIsFree(ask[r].group, ask[r].parent, ask[r].name)
    /\ Proceed(r, "write")
    /\ Unwritten

\* The foreign key of the parent, and the unique index on parent and name: in
\* SQL a NULL is like no other, so the top level is not covered.
MayWrite(g, p, n) ==
    /\ p \in Existing \cup {None}
    /\ p = None \/ \A h \in Existing \ {g} : ~(parent[h] = p /\ name[h] = n)

Put(r, g, p, n) ==
    /\ MayWrite(g, p, n)
    /\ parent' = [h \in Existing \cup {g} |-> IF h = g THEN p ELSE parent[h]]
    /\ name'   = [h \in Existing \cup {g} |-> IF h = g THEN n ELSE name[h]]
    /\ Commit(r, {g})
    /\ UNCHANGED member

Insert(r) ==
    /\ ask[r].step = "write" /\ ask[r].op = "create"
    /\ Put(r, ask[r].group, ask[r].parent, ask[r].name)

\* The update of a row that is gone fails.
Save(r) ==
    /\ ask[r].step = "write" /\ ask[r].op = "update"
    /\ ask[r].group \in Existing
    /\ LET g == ask[r].group
       IN  Put(r, g, IF "parent" \in ask[r].sends THEN ask[r].parent ELSE parent[g],
                     IF "name" \in ask[r].sends THEN ask[r].name ELSE name[g])

-------------------------------------------------------------------------------
(* remove                                                                  *)

Remove(r) ==
    /\ \E g \in Existing :
          Begin(r, [NoAsk EXCEPT !.step = "count", !.op = "remove", !.group = g])
    /\ Unwritten

\* A mistake the runs must catch: only the members are counted.
HasNoMembers(g, what) == \A u \in GroupUsers : <<g, u>> \notin member

IsWithout(g, what) ==
    IF what = "members" THEN \A u \in GroupUsers : <<g, u>> \notin member
    ELSE Children(parent, g) = {}

\* Two queries in flight at once (Promise.all); GROUP_NOT_EMPTY.
CountContents(r) ==
    /\ ask[r].step = "count"
    /\ \E what \in {"members", "children"} \ ask[r].counted :
          /\ IsWithout(ask[r].group, what)
          /\ ask' = [ask EXCEPT ![r].counted = @ \cup {what},
                                ![r].step = IF ask[r].counted = {} THEN "count" ELSE "write"]
    /\ Unwritten

\* The members go with the group (onDelete: Cascade), and its children come
\* to the top (onDelete: SetNull), which is not an update of theirs.
Delete(r) ==
    /\ ask[r].step = "write" /\ ask[r].op = "remove"
    /\ ask[r].group \in Existing
    /\ LET g == ask[r].group
       IN  /\ parent' = [h \in Existing \ {g} |-> IF parent[h] = g THEN None ELSE parent[h]]
           /\ name'   = [h \in Existing \ {g} |-> name[h]]
           /\ member' = {m \in member : m[1] # g}
    /\ Commit(r, {})

-------------------------------------------------------------------------------
(* addMembers and removeMember                                             *)

AssertGroupExists(r) ==
    /\ \E g \in Existing : Begin(r, [NoAsk EXCEPT !.step = "target", !.group = g])
    /\ Unwritten

\* The query for the users is left out.
AddMembers(r) ==
    /\ ask[r].step = "target"
    /\ \E us \in (SUBSET GroupUsers) \ {{}} :
          ask' = [ask EXCEPT ![r].step = "assign", ![r].op = "add", ![r].users = us]
    /\ Unwritten

\* A mistake the runs must catch: one who is elsewhere is added here too.
AddedAnyway(r, move) == {}

\* Where the users are now, but for this group.
Elsewhere(r) == {m \in member : m[2] \in ask[r].users /\ m[1] # ask[r].group}

ToLeave(r, move) == Elsewhere(r)

\* GROUP_MEMBER_ALREADY_ASSIGNED unless the client has agreed to move them.
\* Who is here already is not added again.
ReadMemberships(r) ==
    /\ ask[r].step = "assign"
    /\ \E move \in BOOLEAN :
          /\ move \/ ToLeave(r, move) = {}
          /\ ask' = [ask EXCEPT ![r].step = "write", ![r].leaving = ToLeave(r, move),
                                ![r].users = {u \in @ : <<ask[r].group, u>> \notin member}]
    /\ Unwritten

\* One transaction: those who leave and those who come.  A pair that exists
\* already (primary key) or a group that is gone (foreign key) fails it all.
Assign(r) ==
    /\ ask[r].step = "write" /\ ask[r].op = "add"
    /\ LET new == {ask[r].group} \X ask[r].users
       IN  /\ new # {} => ask[r].group \in Existing
           /\ new \cap member = {}
           /\ member' = (member \ ask[r].leaving) \cup new
    /\ Commit(r, {})
    /\ UNCHANGED <<parent, name>>

\* GROUP_MEMBER_NOT_FOUND
RemoveMember(r) ==
    /\ ask[r].step = "target"
    /\ \E u \in GroupUsers :
          /\ <<ask[r].group, u>> \in member
          /\ ask' = [ask EXCEPT ![r].step = "write", ![r].op = "drop", ![r].users = {u}]
    /\ Unwritten

\* The delete of a row that is gone fails.
Drop(r) ==
    /\ ask[r].step = "write" /\ ask[r].op = "drop"
    /\ {ask[r].group} \X ask[r].users \subseteq member
    /\ member' = member \ ({ask[r].group} \X ask[r].users)
    /\ Commit(r, {})
    /\ UNCHANGED <<parent, name>>

-------------------------------------------------------------------------------
\* A check refuses, a query fails, the client goes away or the server dies.
Refuse(r) == ask[r] # NoAsk /\ ask' = [ask EXCEPT ![r] = NoAsk] /\ Unwritten

Edit(r)   == Create(r) \/ OpenForm(r) \/ Update(r) \/ AssertNameFree(r) \/ Insert(r) \/ Save(r)
Erase(r)  == Remove(r) \/ CountContents(r) \/ Delete(r)
People(r) == AssertGroupExists(r) \/ AddMembers(r) \/ ReadMemberships(r) \/ Assign(r)
             \/ RemoveMember(r) \/ Drop(r)

GroupsInit ==
    /\ parent = [g \in {} |-> None]
    /\ name = [g \in {} |-> None]
    /\ member = {}
    /\ ask = [r \in GroupRequests |-> NoAsk]

GroupsNext == \E r \in GroupRequests : Edit(r) \/ Erase(r) \/ People(r) \/ Refuse(r)

GroupsSpec == GroupsInit /\ [][GroupsNext]_groupsVars

-------------------------------------------------------------------------------
(* Properties                                                              *)

\* Rows and requests are well formed; members and parents are of groups that
\* exist, whatever interleaves (the foreign keys).
GroupsTypeOK ==
    /\ Existing \subseteq Groups
    /\ parent \in [Existing -> Existing \cup {None}]
    /\ name \in [Existing -> Names]
    /\ member \subseteq Existing \X GroupUsers
    /\ ask \in [GroupRequests -> Ask]

\* A request that writes in this step after somebody else wrote.
StaleWrite == \E r \in GroupRequests :
                 ask[r].step = "write" /\ ~ask[r].fresh /\ ask'[r] = NoAsk

NamesAreUnique ==
    \A g, h \in Existing : g # h /\ parent[g] = parent[h] => name[g] # name[h]

IsEmptyGroup(g) == Children(parent, g) = {} /\ \A u \in GroupUsers : <<g, u>> \notin member

\* The parts of GroupsStayInOrder: how a step leaves the tree, the names, and
\* the groups that go.
TreesStay == IsShallowForest(parent) => IsShallowForest(parent')
NamesStay == NamesAreUnique => NamesAreUnique'
OnlyEmptyOnesGo == \A g \in Existing \ DOMAIN parent' : IsEmptyGroup(g)

(***************************************************************************)
(* Unless a request is overtaken, the groups are trees of at most MaxDepth *)
(* levels (what is checked is the depth of the new place and the height of *)
(* what comes along: groups.service.ts, 83-92 and 139-151, user-groups.ts, *)
(* 135-161; nothing in the database does); no two of one place have one    *)
(* name (the index of the database does not see those at the top: 446-452);*)
(* and only an empty group goes (213-232: the cascade and the SetNull of   *)
(* the schema are not meant to fire).                                      *)
(***************************************************************************)
GroupsStayInOrder ==
    [][\/ UNCHANGED <<parent, name>>
       \/ StaleWrite
       \/ TreesStay /\ NamesStay /\ OnlyEmptyOnesGo]_groupsVars

OneGroupEach == \A m, n \in member : m[2] = n[2] => m = n

(***************************************************************************)
(* Nobody is in two groups unless a request was overtaken: who is added    *)
(* leaves every other group (groups.service.ts, 311-348).                  *)
(***************************************************************************)
OneGroupStays ==
    [][member' # member /\ OneGroupEach /\ ~OneGroupEach' => StaleWrite]_groupsVars
===============================================================================
