----------------------------- MODULE ProjectClone -----------------------------
(***************************************************************************)
(* A project is cloned: the page collects the people and the new period    *)
(* (ProjectClonePage.tsx, MemberDraftEditor.tsx, member-drafts.ts), the    *)
(* dates are moved (clone-dates.ts), the tree is built anew                *)
(* (clone-tree.ts) and saved (clone of projects.service.ts).  The lists    *)
(* the page works on arrive in any order, and people and rows change       *)
(* meanwhile.                                                              *)
(*                                                                         *)
(* A date is a number of days.  The new id of a row is its old one and     *)
(* IdOffset.  Titles, descriptions, progress (0) and the audit log are     *)
(* left out.                                                               *)
(***************************************************************************)
EXTENDS Integers, FiniteSets

CONSTANTS
    People,
    Sources,        \* the trees that may be cloned: functions from ids to rows
    StartDates, EndDates,   \* new dates that are entered
    MaxChanges,     \* bound on changes by others
    NotYet          \* what has not arrived, or is not there

NoDay == -1
IdOffset == 100

\* Rows of a project, by id.  No item ends before it starts: such a one, which two changes
\* of dates that overlap may leave (NodeDates), is left out.
Days == Nat \cup {NoDay}

TreeRow == [kind : {"GROUP", "ITEM"}, parent : Nat, depth : Nat, order : Nat,
            start : Days, end : Days]

IsTree(tree) ==
    /\ IsFiniteSet(DOMAIN tree) /\ DOMAIN tree \subseteq Nat \ {0}
    /\ tree \in [DOMAIN tree -> TreeRow]
    /\ \A n \in DOMAIN tree : tree[n].start # NoDay /\ tree[n].end # NoDay
                               => tree[n].start <= tree[n].end

ASSUME SourcesAssumption == NotYet \notin Sources /\ \A tree \in Sources : IsTree(tree)
ASSUME NewDatesAssumption == StartDates \subseteq Nat /\ EndDates \subseteq Nat

VARIABLES
    source,     \* the rows of the project that is cloned
    roster,     \* the roles of its members
    working,    \* who has an active account
    page,       \* the lists that have arrived, the drafts, the dates;
                \* byHand, for the properties: the roles given by hand
    request,    \* the request to clone: how far it is and what it has read
    clone,      \* the new project
    changes     \* by others

cloneVars == <<source, roster, working, page, request, clone, changes>>

GivenRoles == {"MANAGER", "MEMBER"}

-------------------------------------------------------------------------------
(* clone-dates.ts                                                          *)

ItemsOf(tree) == {n \in DOMAIN tree : tree[n].kind = "ITEM"}
DaysOf(tree)  == ({tree[n].start : n \in ItemsOf(tree)} \cup {tree[n].end : n \in ItemsOf(tree)})
                 \ {NoDay}

findDateSpan(tree) ==
    IF DaysOf(tree) = {} THEN [start |-> NoDay, end |-> NoDay]
    ELSE [start |-> CHOOSE d \in DaysOf(tree) : \A e \in DaysOf(tree) : d <= e,
          end   |-> CHOOSE d \in DaysOf(tree) : \A e \in DaysOf(tree) : d >= e]

NoSpan == findDateSpan([n \in {} |-> {}])

\* Mistakes the runs must catch: the end of the period is left out; each row is
\* stretched from its own start.
ToLastDay(day, span, to) == to.start + ((day - span.start) * (to.end - to.start)) \div
                                       (span.end - span.start + 1)

Stretched(day, span, to) ==
    to.start + (2 * (day - span.start) * (to.end - to.start) + (span.end - span.start))
                  \div (2 * (span.end - span.start))

remapOne(day, span, mode, to) ==
    IF mode = "KEEP" THEN day
    ELSE IF mode = "SHIFT" THEN day + (to.start - span.start)
    ELSE IF span.start = span.end THEN to.start
    ELSE Stretched(day, span, to)

remapDatePair(pair, span, mode, to) ==
    LET move(day) == IF day = NoDay THEN NoDay ELSE remapOne(day, span, mode, to)
        start == move(pair.start)
        end   == move(pair.end)
    IN  [start |-> start,
         end   |-> IF start # NoDay /\ end # NoDay /\ end < start THEN start ELSE end]

-------------------------------------------------------------------------------
(* clone-tree.ts                                                           *)

\* A mistake the runs must catch: a row forgets its parent.
NoParent(parent) == 0

NewParent(parent) == IF parent = 0 THEN 0 ELSE parent + IdOffset

buildClonedNodes(tree, mode, to) ==
    LET span == findDateSpan(tree)
        dates(row) == IF row.kind = "ITEM"
                      THEN remapDatePair([start |-> row.start, end |-> row.end], span, mode, to)
                      ELSE [start |-> row.start, end |-> row.end]
    IN  [new \in {n + IdOffset : n \in DOMAIN tree} |->
           LET row == tree[new - IdOffset] IN
           [row EXCEPT !.parent = NewParent(row.parent),
                       !.start = dates(row).start, !.end = dates(row).end]]

\* The rows go in one depth after the other: each finds its parent (foreign key).
FindsItsParents(tree) ==
    \A n \in DOMAIN tree : tree[n].parent # 0 =>
        \E p \in DOMAIN tree : p = tree[n].parent /\ tree[p].depth < tree[n].depth

-------------------------------------------------------------------------------
(* The page                                                                *)

NoPage == [users |-> NotYet, members |-> NotYet, nodes |-> NotYet, drafts |-> <<>>,
           seeded |-> FALSE, byHand |-> {}, mode |-> "KEEP", start |-> NoDay, end |-> NoDay]
IdleRequest == [step |-> "idle", drafts |-> <<>>, byHand |-> {}, mode |-> "KEEP", start |-> NoDay,
                end |-> NoDay, tree |-> NotYet]

Draft(role, inactive) == [role |-> role, inactive |-> inactive]

With(drafts, incoming) ==
    [u \in DOMAIN drafts \cup DOMAIN incoming |->
       IF u \in DOMAIN drafts THEN drafts[u] ELSE incoming[u]]

\* A mistake the runs must catch: the members of the source take the place of all.
InsteadOf(drafts, incoming) == incoming

mergeMemberDrafts(drafts, incoming) == With(drafts, incoming)

\* The lists arrive in any order; what is asked for again only adds candidates.
UsersArrive ==
    /\ page.users = NotYet
    /\ page' = [page EXCEPT !.users = working]
    /\ UNCHANGED <<source, roster, working, request, clone, changes>>

MembersArrive ==
    /\ page.members = NotYet
    /\ page' = [page EXCEPT !.members = roster]
    /\ UNCHANGED <<source, roster, working, request, clone, changes>>

NodesArrive ==
    /\ page.nodes = NotYet
    /\ page' = [page EXCEPT !.nodes = source]
    /\ UNCHANGED <<source, roster, working, request, clone, changes>>

HasUsers == page.users # NotYet

\* Once, when both lists are there.
Seed ==
    /\ ~page.seeded /\ HasUsers /\ page.members # NotYet
    /\ LET seeds == [u \in DOMAIN page.members |->
                       IF u \in page.users THEN Draft(page.members[u], FALSE)
                       ELSE Draft("none", TRUE)]
       IN  page' = [page EXCEPT !.drafts = mergeMemberDrafts(@, seeds), !.seeded = TRUE]
    /\ UNCHANGED <<source, roster, working, request, clone, changes>>

\* By a search, or with a group: whoever is not there yet, as a MEMBER.
addChecked(u) ==
    /\ HasUsers /\ u \in page.users \ DOMAIN page.drafts
    /\ page' = [page EXCEPT !.drafts = mergeMemberDrafts(@, [v \in {u} |-> Draft("MEMBER", FALSE)]),
                            !.byHand = @ \cup {<<u, "MEMBER">>}]
    /\ UNCHANGED <<source, roster, working, request, clone, changes>>

setRole(u, role) ==
    /\ u \in DOMAIN page.drafts /\ page.drafts[u].role # role
    /\ page.drafts[u].inactive => role = "none"
    /\ page' = [page EXCEPT !.drafts[u].role = role,
                            !.byHand = {p \in @ : p[1] # u} \cup {<<u, role>>}]
    /\ UNCHANGED <<source, roster, working, request, clone, changes>>

PageSpan == IF page.nodes = NotYet THEN NoSpan ELSE findDateSpan(page.nodes)

chooseDates(mode, start, end) ==
    /\ page.mode = "KEEP" /\ PageSpan # NoSpan
    /\ page' = [page EXCEPT !.mode = mode, !.start = start,
                            !.end = IF mode = "FIT" THEN end ELSE NoDay]
    /\ UNCHANGED <<source, roster, working, request, clone, changes>>

To(p) == [start |-> p.start, end |-> p.end]

preview ==
    IF page.mode = "KEEP" THEN PageSpan
    ELSE remapDatePair(PageSpan, PageSpan, page.mode, To(page))

\* CloneProjectDto
IsComplete == page.mode = "FIT" => page.end >= page.start

onSubmit ==
    /\ request.step = "idle" /\ clone = NotYet
    /\ \E u \in DOMAIN page.drafts : page.drafts[u].role = "MANAGER"
    /\ IsComplete
    /\ request' = [IdleRequest EXCEPT !.step = "sent", !.mode = page.mode,
                     !.byHand = page.byHand,
                     !.drafts = [u \in {v \in DOMAIN page.drafts : page.drafts[v].role # "none"}
                                   |-> page.drafts[u].role],
                     !.start = page.start, !.end = page.end]
    /\ UNCHANGED <<source, roster, working, page, clone, changes>>

-------------------------------------------------------------------------------
(* The server                                                              *)

\* An answer with an error leaves the page as it is.
Refused == request' = IdleRequest

CheckPeople ==
    /\ request.step = "sent"
    /\ IF DOMAIN request.drafts \subseteq working
       THEN request' = [request EXCEPT !.step = "checked"]
       ELSE Refused
    /\ UNCHANGED <<source, roster, working, page, clone, changes>>

ReadRows ==
    /\ request.step = "checked"
    /\ IF request.mode # "KEEP" /\ findDateSpan(source) = NoSpan THEN Refused
       ELSE request' = [request EXCEPT !.step = "read", !.tree = source]
    /\ UNCHANGED <<source, roster, working, page, clone, changes>>

Save ==
    /\ request.step = "read"
    /\ LET tree == buildClonedNodes(request.tree, request.mode, To(request)) IN
       clone' = IF FindsItsParents(tree) THEN [tree |-> tree, members |-> request.drafts]
                ELSE clone
    /\ Refused
    /\ UNCHANGED <<source, roster, working, page, changes>>

-------------------------------------------------------------------------------
(* Others                                                                  *)

Change ==
    /\ clone = NotYet /\ changes < MaxChanges /\ changes' = changes + 1
    /\ UNCHANGED <<page, request, clone>>

Deactivate(u) ==
    /\ Change /\ u \in working
    /\ working' = working \ {u}
    /\ UNCHANGED <<source, roster>>

ChangeRoster(u) ==
    /\ Change
    /\ roster' = IF u \in DOMAIN roster THEN [v \in DOMAIN roster \ {u} |-> roster[v]]
                 ELSE With(roster, [v \in {u} |-> "MEMBER"])
    /\ UNCHANGED <<source, working>>

ChangeRows ==
    /\ Change
    /\ \E tree \in Sources : tree # source /\ source' = tree
    /\ UNCHANGED <<roster, working>>

-------------------------------------------------------------------------------
CloneInit ==
    /\ source \in Sources
    /\ \E members \in SUBSET People : roster \in [members -> GivenRoles]
    /\ working \in SUBSET People
    /\ page = NoPage /\ request = IdleRequest /\ clone = NotYet /\ changes = 0

CloneNext ==
    \/ /\ clone = NotYet
       /\ \/ UsersArrive \/ MembersArrive \/ NodesArrive \/ Seed
          \/ \E u \in People : addChecked(u) \/ \E role \in GivenRoles \cup {"none"} : setRole(u, role)
          \/ \E mode \in {"SHIFT", "FIT"}, start \in StartDates, end \in EndDates :
                chooseDates(mode, start, end)
    \/ onSubmit \/ CheckPeople \/ ReadRows \/ Save
    \/ \E u \in People : Deactivate(u) \/ ChangeRoster(u)
    \/ ChangeRows

-------------------------------------------------------------------------------
(* Properties                                                              *)

SameShape(old, new) ==
    /\ DOMAIN new = {n + IdOffset : n \in DOMAIN old}
    /\ \A n \in DOMAIN old :
          LET row == new[n + IdOffset] IN
          /\ row.kind = old[n].kind /\ row.depth = old[n].depth /\ row.order = old[n].order
          /\ {m - IdOffset : m \in {m \in DOMAIN new : new[m].parent = n + IdOffset}}
                = {m \in DOMAIN old : old[m].parent = n}

\* The days of the old rows and of the new ones, pair by pair.
Moved(old, new) ==
    {<<old[n].start, new[n + IdOffset].start>> : n \in ItemsOf(old)}
    \cup {<<old[n].end, new[n + IdOffset].end>> : n \in ItemsOf(old)}

DatesFit(old, new, r) ==
    LET moved == {p \in Moved(old, new) : p[1] # NoDay} IN
    /\ \A p \in Moved(old, new) : p[1] = NoDay <=> p[2] = NoDay
    /\ \A p, q \in moved :
          /\ p[1] <= q[1] => p[2] <= q[2]
          /\ r.mode # "FIT" => q[2] - p[2] = q[1] - p[1]
    /\ r.mode = "KEEP" => \A p \in moved : p[1] = p[2]
    /\ r.mode # "KEEP" => findDateSpan(new).start = r.start
    /\ r.mode = "FIT" =>
          findDateSpan(new).end = IF Cardinality({p[1] : p \in moved}) = 1 THEN r.start ELSE r.end

(***************************************************************************)
(* What is saved is the tree the server has read, row by row and parent by *)
(* parent; its dates keep their order and fill the period that was asked   *)
(* for (to the day, in the modes that keep distances), and where nobody    *)
(* changed a row meanwhile it is the period the page announced.  Whoever   *)
(* was given a role by hand has it in the new project, whatever arrived    *)
(* later, and there is a manager (clone-tree.ts, 3-5; clone-dates.ts, 3-4; *)
(* ProjectClonePage.tsx, 54-75).                                           *)
(***************************************************************************)
CloneIsFaithful ==
    [][clone' # clone =>
         LET old == request.tree
             new == clone'.tree
         IN  /\ SameShape(old, new)
             /\ DatesFit(old, new, request)
             /\ page.nodes = old /\ page.mode = request.mode
                   /\ page.start = request.start /\ page.end = request.end =>
                   findDateSpan(new) = preview
             /\ \E u \in DOMAIN clone'.members : clone'.members[u] = "MANAGER"
             /\ \A p \in request.byHand :
                   IF p[2] = "none" THEN p[1] \notin DOMAIN clone'.members
                   ELSE p[1] \in DOMAIN clone'.members /\ clone'.members[p[1]] = p[2]]_cloneVars
===============================================================================
