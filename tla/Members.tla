------------------------------- MODULE Members -------------------------------
(***************************************************************************)
(* Projects and their members: MembersService (apps/api/src/members), the  *)
(* view of the same table by user, UserProjectsService (user-projects),    *)
(* and ProjectsService (projects).                                         *)
(*                                                                         *)
(* Every query is a step and any other request may run between two of      *)
(* them.  The row of <<p, u>> in project_members is role[<<p, u>>], NULL   *)
(* when there is none; a request carries the rows it is going to write,    *)
(* with NULL for a row it removes.                                         *)
(*                                                                         *)
(* Left out: names, dates and audit rows, which nothing here reads; that a *)
(* user is inactive or gone (a check may refuse for it, see Refuse); the   *)
(* nodes that a deletion takes along and a clone copies.                   *)
(***************************************************************************)
EXTENDS Integers, FiniteSets

CONSTANTS
    Users,
    Admins,         \* the users with globalRole ADMIN
    Projects,       \* the supply of project ids
    Requests,       \* each is a request in flight, one at a time
    MaxStamp,       \* bound on the updates of a project
    NULL

ASSUME AdminsAssumption == Admins \subseteq Users
ASSUME NullAssumption   == NULL \notin Users \cup {"MEMBER", "MANAGER"}
ASSUME StampAssumption  == MaxStamp \in Nat

VARIABLES
    status,     \* project -> status, "none" when there is no such project
    stamp,      \* project -> updatedAt
    role,       \* <<project, user>> -> role in project_members
    req         \* request -> what it does and knows

vars == <<status, stamp, role, req>>

Roles == {"MEMBER", "MANAGER"}
Keys  == Projects \X Users
Rows  == UNION {[K -> Roles \cup {NULL}] : K \in SUBSET Keys}

Ops   == {"none", "add", "remove", "removeBulk", "role", "edit", "erase"}
Steps == {"idle", "access", "target", "projects", "count", "write"}

(***************************************************************************)
(* What a client asks for is chosen in the step that first uses it.  actor *)
(* is NULL in admin mode and after its last use, status is the one that    *)
(* an update of the project asks for, expected the version its client has  *)
(* seen.  fresh is for the properties: nobody has written to projects      *)
(* since the request began.                                                *)
(***************************************************************************)
Request == [step : Steps, op : Ops, actor : Users \cup {NULL},
            projects : SUBSET Projects, rows : Rows,
            status : {"ACTIVE", "ARCHIVED"}, expected : Nat, fresh : BOOLEAN]

NoRows == [k \in {} |-> NULL]

Idle == [step |-> "idle", op |-> "none", actor |-> NULL, projects |-> {},
         rows |-> NoRows, status |-> "ACTIVE", expected |-> 0, fresh |-> TRUE]

-------------------------------------------------------------------------------
IsLive(p) == status[p] \in {"ACTIVE", "ARCHIVED"}
Managers(p) == {u \in Users : role[<<p, u>>] = "MANAGER"}
HasManager(p) == Managers(p) # {}

Goto(r, step) == req' = [req EXCEPT ![r].step = step]
Done(r) == req' = [req EXCEPT ![r] = Idle]

\* The request r writes to the projects ps and ends.
Commit(r, ps) ==
    req' = [q \in Requests |->
               IF q = r THEN Idle
               ELSE IF req[q].projects \cap ps # {}
                    THEN [req[q] EXCEPT !.fresh = FALSE] ELSE req[q]]

\* The table with the rows that the request has made up its mind about.
WithRows(r) ==
    [k \in Keys |-> IF k \in DOMAIN req[r].rows THEN req[r].rows[k] ELSE role[k]]

Unwritten == UNCHANGED <<status, stamp, role>>

-------------------------------------------------------------------------------
(* MembersService: two checks and then the operation                       *)

\* An administrator in admin mode needs no permission.
AssertProjectExists(r) ==
    /\ req[r] = Idle
    /\ \E p \in Projects, actor \in Users, adminMode \in BOOLEAN :
          /\ IsLive(p)
          /\ adminMode => actor \in Admins
          /\ req' = [req EXCEPT ![r] = [Idle EXCEPT
                        !.step = IF adminMode THEN "target" ELSE "access",
                        !.projects = {p}, !.actor = IF adminMode THEN NULL ELSE actor]]
    /\ Unwritten

AssertWriteAccess(r) ==
    /\ req[r].step = "access"
    /\ \A p \in req[r].projects : role[<<p, req[r].actor>>] = "MANAGER"
    /\ Goto(r, "target")
    /\ Unwritten

\* The request goes on with the rows it is going to write.
Plan(r, step, op, ps, rows) ==
    req' = [req EXCEPT ![r].step = step, ![r].op = op, ![r].projects = ps,
                       ![r].rows = rows, ![r].actor = NULL]

\* ALREADY_MEMBER
Add(r) ==
    /\ req[r].step = "target"
    /\ \E p \in req[r].projects, u \in Users, new \in Roles :
          /\ role[<<p, u>>] = NULL
          /\ Plan(r, "write", "add", {p}, [k \in {<<p, u>>} |-> new])
    /\ Unwritten

\* A mistake the runs must catch: nobody is left, and the rows are written.
MissingOrNobody(p) == SUBSET {u \in Users : role[<<p, u>>] = NULL}

\* Who is a member already is skipped; with nobody left the request ends.
Missing(p) == (SUBSET {u \in Users : role[<<p, u>>] = NULL}) \ {{}}

AddBulk(r) ==
    /\ req[r].step = "target"
    /\ \E p \in req[r].projects : \E us \in Missing(p) :
             \E rows \in [{p} \X us -> Roles] : Plan(r, "write", "add", {p}, rows)
    /\ Unwritten

\* NOT_A_MEMBER; only for a MANAGER the others are counted.
PlanRemoval(r, p, u) ==
    /\ role[<<p, u>>] # NULL
    /\ Plan(r, IF role[<<p, u>>] = "MANAGER" THEN "count" ELSE "write",
            "remove", {p}, [k \in {<<p, u>>} |-> NULL])

Remove(r) ==
    /\ req[r].step = "target"
    /\ \E p \in req[r].projects, u \in Users : PlanRemoval(r, p, u)
    /\ Unwritten

\* Who is no member is skipped; the count comes whatever the roles are.
RemoveBulk(r) ==
    /\ req[r].step = "target"
    /\ \E p \in req[r].projects :
          \E us \in (SUBSET {u \in Users : role[<<p, u>>] # NULL}) \ {{}} :
             Plan(r, "count", "removeBulk", {p}, [k \in {p} \X us |-> NULL])
    /\ Unwritten

\* NOT_A_MEMBER; nothing is written when the role is the same; only taking
\* MANAGER away needs the count.
PlanRole(r, p, u, new) ==
    /\ role[<<p, u>>] \notin {NULL, new}
    /\ Plan(r, IF role[<<p, u>>] = "MANAGER" THEN "count" ELSE "write",
            "role", {p}, [k \in {<<p, u>>} |-> new])

\* CANNOT_CHANGE_SELF_ROLE
UpdateRole(r) ==
    /\ req[r].step = "target"
    /\ \E p \in req[r].projects, u \in Users \ {req[r].actor}, new \in Roles :
          PlanRole(r, p, u, new)
    /\ Unwritten

-------------------------------------------------------------------------------
(* UserProjectsService: only administrators get here                       *)

\* The query for the projects; the one for the user is left out.
AddProjects(r) ==
    /\ req[r] = Idle
    /\ \E ps \in (SUBSET {p \in Projects : IsLive(p)}) \ {{}} :
          req' = [req EXCEPT ![r] = [Idle EXCEPT !.step = "projects", !.projects = ps]]
    /\ Unwritten

\* Where the user is a member already is skipped.
AddToProjects(r) ==
    /\ req[r].step = "projects"
    /\ \E u \in Users, new \in Roles :
          LET ps == {p \in req[r].projects : role[<<p, u>>] = NULL}
          IN  ps # {} /\ Plan(r, "write", "add", ps, [k \in ps \X {u} |-> new])
    /\ Unwritten

\* CANNOT_CHANGE_SELF_ROLE
UpdateProjectRole(r) ==
    /\ req[r] = Idle
    /\ \E p \in Projects, u \in Users, actor \in Admins, new \in Roles, adminMode \in BOOLEAN :
          /\ adminMode \/ u # actor
          /\ PlanRole(r, p, u, new)
    /\ Unwritten

RemoveProject(r) ==
    /\ req[r] = Idle
    /\ \E p \in Projects, u \in Users : PlanRemoval(r, p, u)
    /\ Unwritten

-------------------------------------------------------------------------------
(* The last manager                                                        *)

\* A mistake the runs must catch: whoever is to go is counted too.
AnyRemain(r) == \A p \in req[r].projects : HasManager(p)

OthersRemain(r) ==
    \A p \in req[r].projects : \E u \in Managers(p) : <<p, u>> \notin DOMAIN req[r].rows

\* LAST_MANAGER
CountManagers(r) ==
    /\ req[r].step = "count"
    /\ OthersRemain(r)
    /\ Goto(r, "write")
    /\ Unwritten

-------------------------------------------------------------------------------
(* The writes of both services                                             *)

\* Mistakes the runs must catch: no foreign key; an upsert.
InsertAnywhere(r) == \A k \in DOMAIN req[r].rows : role[k] = NULL
InsertOrUpdate(r) == \A k \in DOMAIN req[r].rows : IsLive(k[1])

\* A row that exists already (primary key) or a project that is gone
\* (foreign key) fails the whole transaction.
MayInsert(r) == \A k \in DOMAIN req[r].rows : role[k] = NULL /\ IsLive(k[1])

Insert(r) ==
    /\ req[r].step = "write" /\ req[r].op = "add"
    /\ MayInsert(r)
    /\ role' = WithRows(r)
    /\ Commit(r, req[r].projects)
    /\ UNCHANGED <<status, stamp>>

\* update and delete of one row fail when it is gone.
WriteRow(r) ==
    /\ req[r].step = "write" /\ req[r].op \in {"remove", "role"}
    /\ \A k \in DOMAIN req[r].rows : role[k] # NULL
    /\ role' = WithRows(r)
    /\ Commit(r, req[r].projects)
    /\ UNCHANGED <<status, stamp>>

\* deleteMany takes what is still there.
DeleteMany(r) ==
    /\ req[r].step = "write" /\ req[r].op = "removeBulk"
    /\ role' = WithRows(r)
    /\ Commit(r, req[r].projects)
    /\ UNCHANGED <<status, stamp>>

-------------------------------------------------------------------------------
(* ProjectsService                                                         *)

\* The id of a new project is new: no request names it.
IsUnused(p) == ~IsLive(p) /\ \A q \in Requests : p \notin req[q].projects

\* create and clone: one transaction for the project and its first members,
\* after checks of users and, in clone, reads of the source.
CreateProject(r) ==
    /\ req[r] = Idle
    /\ \E p \in Projects, managers \in (SUBSET Users) \ {{}}, others \in SUBSET Users :
          /\ IsUnused(p)
          /\ status' = [status EXCEPT ![p] = "ACTIVE"]
          /\ stamp' = [stamp EXCEPT ![p] = 0]
          /\ role' = [k \in Keys |->
                         IF k[1] # p THEN role[k]
                         ELSE IF k[2] \in managers THEN "MANAGER"
                         ELSE IF k[2] \in others THEN "MEMBER" ELSE NULL]
    /\ UNCHANGED req

\* A mistake the runs must catch: any version will do.
AnyVersion(p, expected) == expected \in 0..stamp[p]

\* The version that the client expects against the row that is read.
SameVersion(p, expected) == stamp[p] = expected

EditProject(r) ==
    /\ req[r] = Idle
    /\ \E p \in Projects, next \in {"ACTIVE", "ARCHIVED"} : \E seen \in 0..stamp[p] :
          /\ IsLive(p)
          /\ SameVersion(p, seen)
          /\ req' = [req EXCEPT ![r] = [Idle EXCEPT
                        !.step = "write", !.op = "edit", !.projects = {p},
                        !.status = next, !.expected = seen]]
    /\ Unwritten

WriteProject(r) ==
    /\ req[r].step = "write" /\ req[r].op = "edit"
    /\ \E p \in req[r].projects :
          /\ IsLive(p)
          /\ stamp[p] < MaxStamp
          /\ status' = [status EXCEPT ![p] = req[r].status]
          /\ stamp' = [stamp EXCEPT ![p] = @ + 1]
    /\ Commit(r, req[r].projects)
    /\ UNCHANGED role

\* NOT_ARCHIVED
MayErase(p) == status[p] = "ARCHIVED"

HardDelete(r) ==
    /\ req[r] = Idle
    /\ \E p \in Projects :
          /\ MayErase(p)
          /\ req' = [req EXCEPT ![r] = [Idle EXCEPT
                        !.step = "write", !.op = "erase", !.projects = {p}]]
    /\ Unwritten

\* The delete cascades to the members.
EraseProject(r) ==
    /\ req[r].step = "write" /\ req[r].op = "erase"
    /\ \A p \in req[r].projects : IsLive(p)
    /\ status' = [p \in Projects |-> IF p \in req[r].projects THEN "none" ELSE status[p]]
    /\ role' = [k \in Keys |-> IF k[1] \in req[r].projects THEN NULL ELSE role[k]]
    /\ Commit(r, req[r].projects)
    /\ UNCHANGED stamp

-------------------------------------------------------------------------------
\* A check refuses (also for a user who is inactive or gone), a query fails,
\* or the server dies: nothing is written.
Refuse(r) == req[r] # Idle /\ Done(r) /\ Unwritten

ByMember(r) == AssertProjectExists(r) \/ AssertWriteAccess(r) \/ Add(r) \/ AddBulk(r)
               \/ Remove(r) \/ RemoveBulk(r) \/ UpdateRole(r)
ByUser(r)   == AddProjects(r) \/ AddToProjects(r) \/ UpdateProjectRole(r) \/ RemoveProject(r)
Write(r)    == CountManagers(r) \/ Insert(r) \/ WriteRow(r) \/ DeleteMany(r)
Project(r)  == CreateProject(r) \/ EditProject(r) \/ WriteProject(r)
               \/ HardDelete(r) \/ EraseProject(r)

Init == /\ status = [p \in Projects |-> "none"]
        /\ stamp = [p \in Projects |-> 0]
        /\ role = [k \in Keys |-> NULL]
        /\ req = [r \in Requests |-> Idle]

Next == \E r \in Requests :
           ByMember(r) \/ ByUser(r) \/ Write(r) \/ Project(r) \/ Refuse(r)

Spec == Init /\ [][Next]_vars

-------------------------------------------------------------------------------
(* Properties                                                              *)

\* A request writes only to the projects it has checked, never nothing, and
\* only a removal writes NULL.
GoodRequest(q) ==
    /\ DOMAIN q.rows \subseteq q.projects \X Users
    /\ q.op \in {"none", "edit", "erase"} <=> DOMAIN q.rows = {}
    /\ \A k \in DOMAIN q.rows : q.rows[k] = NULL <=> q.op \in {"remove", "removeBulk"}
    /\ q.step = "count" => q.op \in {"remove", "removeBulk", "role"}

\* Rows, projects and requests are well formed, whatever interleaves.
TypeOK ==
    /\ status \in [Projects -> {"none", "ACTIVE", "ARCHIVED"}]
    /\ stamp \in [Projects -> Nat]
    /\ role \in [Keys -> Roles \cup {NULL}]
    /\ req \in [Requests -> Request]
    /\ \A r \in Requests : GoodRequest(req[r])

\* A request that writes in this step after somebody else wrote to one of its
\* projects: all it knows about them may be out of date.
StaleWrite == \E r \in Requests :
                 req[r].step = "write" /\ ~req[r].fresh /\ req'[r] = Idle

\* A project begins with a manager and loses the last one only to a request
\* that was overtaken by another (members.service.ts 232-238, 298-303 and
\* 389-395, user-projects.service.ts 221-226): no sequence of requests that do
\* not overlap leaves a project without a manager.
LastManagerStays ==
    [][\A p \in Projects :
          IsLive(p)' /\ ~HasManager(p)' =>
             (IsLive(p) /\ ~HasManager(p)) \/ StaleWrite]_vars

\* Whatever overlaps, a project that is not there has no members: an insert
\* that comes after the deletion of the project fails (onDelete: Cascade and
\* the foreign key of project_members).
MembersHaveProjects == \A k \in Keys : role[k] # NULL => IsLive(k[1])

\* Whatever overlaps, who is a member changes between MEMBER and MANAGER only
\* by a change of role: adding people, one by one or in bulk, from either
\* side, never promotes or demotes somebody who came in meanwhile.
RolesChangeByRequest ==
    [][\A k \in Keys :
          role[k] # NULL /\ role'[k] # NULL /\ role'[k] # role[k] =>
             \E r \in Requests : req[r].op = "role" /\ k \in DOMAIN req[r].rows
                                 /\ req'[r] = Idle]_vars

\* Only an archived project is deleted, and an update builds on the version
\* its client has seen, unless another request wrote in between
\* (projects.service.ts 358-367 and 271-283).
ProjectsChangeAsSeen ==
    [][\A r \in Requests, p \in Projects :
          p \in req[r].projects /\ req[r].step = "write" /\ req[r].fresh /\ req'[r] = Idle =>
             /\ IsLive(p) /\ ~IsLive(p)' => status[p] = "ARCHIVED"
             /\ stamp'[p] # stamp[p] => stamp[p] = req[r].expected]_vars
===============================================================================
