---------------------------- MODULE MembersProofs -----------------------------
(***************************************************************************)
(* Theorems about Members, for any number of users, projects and requests: *)
(* whatever overlaps, a project loses its last manager only to a request   *)
(* that was overtaken; and about the page of History: one's own changes    *)
(* show, and what it lists is true.                                        *)
(***************************************************************************)
EXTENDS MCMembers, FiniteSetTheorems, WellFoundedInduction, TLAPS

Removals == {"remove", "removeBulk", "role"}

\* The role somebody has once the rows of the request are written.
Result(q, k) == IF k \in DOMAIN q.rows THEN q.rows[k] ELSE role[k]

\* What a request that was not overtaken knows when it is about to write: its
\* rows leave a manager, its version is the latest, its project is archived.
LeavesManager(q, p) == HasManager(p) => \E u \in Users : Result(q, <<p, u>>) = "MANAGER"

KnowsOf(q) ==
    q.step = "write" /\ q.fresh =>
        \A p \in q.projects :
           /\ q.op \in Removals => LeavesManager(q, p)
           /\ q.op = "edit" => stamp[p] = q.expected
           /\ q.op = "erase" => status[p] = "ARCHIVED"

Knows(r) == KnowsOf(req[r])

IInv == TypeOK /\ MembersHaveProjects /\ \A r \in Requests : Knows(r)

-------------------------------------------------------------------------------
LEMMA RowsFacts ==
    /\ \A K \in SUBSET Keys, v \in Roles \cup {NULL} : [k \in K |-> v] \in Rows
    /\ \A K \in SUBSET Keys : \A f \in [K -> Roles] : f \in Rows
    /\ NoRows \in Rows /\ DOMAIN NoRows = {}
<1>1. \A K \in SUBSET Keys : \A f \in [K -> Roles \cup {NULL}] : f \in Rows
  BY DEF Rows
<1>2. \A K \in SUBSET Keys : \A f \in [K -> Roles] : f \in [K -> Roles \cup {NULL}]
  OBVIOUS
<1>3. \A K \in SUBSET Keys, v \in Roles \cup {NULL} : [k \in K |-> v] \in [K -> Roles \cup {NULL}]
  OBVIOUS
<1>4. NoRows \in [{} -> Roles \cup {NULL}] /\ {} \in SUBSET Keys
  BY DEF NoRows
<1> QED
  BY <1>1, <1>2, <1>3, <1>4 DEF NoRows

LEMMA IdleFacts ==
    /\ Idle \in Request /\ GoodRequest(Idle) /\ KnowsOf(Idle)
    /\ Idle.step = "idle" /\ Idle.op = "none" /\ Idle.projects = {} /\ Idle.fresh
<1>1. Idle \in Request
  BY RowsFacts DEF Idle, Request, Steps, Ops
<1>2. GoodRequest(Idle)
  BY RowsFacts DEF Idle, GoodRequest
<1> QED
  BY <1>1, <1>2 DEF Idle, KnowsOf

\* A step of a request that writes nothing.
LEMMA RequestStep ==
    ASSUME IInv, NEW r \in Requests, NEW new \in Request, GoodRequest(new), KnowsOf(new),
           req' = [req EXCEPT ![r] = new], Unwritten
    PROVE  IInv'
<1>1. \A q \in Requests : req'[q] = IF q = r THEN new ELSE req[q]
  BY DEF IInv, TypeOK
<1>2. TypeOK'
  BY <1>1 DEF IInv, TypeOK, Unwritten
<1>3. MembersHaveProjects'
  BY DEF IInv, MembersHaveProjects, Unwritten, IsLive
<1>4. Knows(r)'
  BY <1>1 DEF IInv, Knows, KnowsOf, LeavesManager, Result, HasManager, Managers, Unwritten
<1>5. ASSUME NEW q \in Requests, q # r PROVE Knows(q)'
  BY <1>1, <1>5 DEF IInv, Knows, KnowsOf, LeavesManager, Result, HasManager, Managers, Unwritten
<1> QED
  BY <1>2, <1>3, <1>4, <1>5 DEF IInv

\* A request makes up its mind: it is fit to write or to count.
LEMMA PlanStep ==
    ASSUME IInv, NEW r \in Requests, NEW step \in {"count", "write"},
           NEW op \in {"add", "remove", "removeBulk", "role"},
           NEW ps \in SUBSET Projects, NEW rows \in Rows,
           DOMAIN rows \subseteq ps \X Users, DOMAIN rows # {},
           \A k \in DOMAIN rows : rows[k] = NULL <=> op \in {"remove", "removeBulk"},
           step = "count" => op # "add",
           step = "write" => op = "add" \/ \A p \in ps : HasManager(p) =>
               \E u \in Users : "MANAGER" = IF <<p, u>> \in DOMAIN rows
                                            THEN rows[<<p, u>>] ELSE role[<<p, u>>],
           Plan(r, step, op, ps, rows), Unwritten
    PROVE  IInv'
<1> DEFINE new == [req[r] EXCEPT !.step = step, !.op = op, !.projects = ps,
                                 !.rows = rows, !.actor = NULL]
<1>1. req[r] \in Request
  BY DEF IInv, TypeOK
<1>2. /\ new \in Request
      /\ new.step = step /\ new.op = op /\ new.projects = ps /\ new.rows = rows
  BY <1>1 DEF Request, Steps, Ops
<1>3. GoodRequest(new)
  BY <1>2 DEF GoodRequest
<1>4. req' = [req EXCEPT ![r] = new]
  BY DEF Plan
<1> HIDE DEF new
<1>5. KnowsOf(new)
  BY <1>2 DEF KnowsOf, LeavesManager, Result, Removals
<1> QED
  BY <1>2, <1>3, <1>4, <1>5, RequestStep

-------------------------------------------------------------------------------
(* Steps that write nothing                                                *)

LEMMA ExistsStep ==
    ASSUME IInv, NEW r \in Requests, AssertProjectExists(r) PROVE IInv'
<1>1. PICK p \in Projects, actor \in Users, adminMode \in BOOLEAN :
         req' = [req EXCEPT ![r] = [Idle EXCEPT
                    !.step = IF adminMode THEN "target" ELSE "access",
                    !.projects = {p}, !.actor = IF adminMode THEN NULL ELSE actor]]
  BY DEF AssertProjectExists
<1> DEFINE new == [Idle EXCEPT !.step = IF adminMode THEN "target" ELSE "access",
                      !.projects = {p}, !.actor = IF adminMode THEN NULL ELSE actor]
<1>2. /\ new \in Request /\ new.step # "write" /\ new.step # "count"
      /\ new.op = "none" /\ new.rows = NoRows
  BY IdleFacts, RowsFacts DEF Request, Steps, Idle
<1>3. req' = [req EXCEPT ![r] = new]
  BY <1>1
<1> HIDE DEF new
<1>4. GoodRequest(new) /\ KnowsOf(new)
  BY <1>2, RowsFacts DEF GoodRequest, KnowsOf
<1> QED
  BY <1>2, <1>3, <1>4, RequestStep DEF AssertProjectExists

LEMMA AccessStep ==
    ASSUME IInv, NEW r \in Requests, AssertWriteAccess(r) PROVE IInv'
<1> DEFINE new == [req[r] EXCEPT !.step = "target"]
<1>1. req[r] \in Request /\ GoodRequest(req[r])
  BY DEF IInv, TypeOK
<1>2. /\ new \in Request /\ new.step = "target"
      /\ new.op = req[r].op /\ new.rows = req[r].rows /\ new.projects = req[r].projects
  BY <1>1 DEF Request, Steps
<1>3. req' = [req EXCEPT ![r] = new]
  BY DEF AssertWriteAccess, Goto
<1> HIDE DEF new
<1>4. GoodRequest(new) /\ KnowsOf(new)
  BY <1>1, <1>2 DEF GoodRequest, KnowsOf
<1> QED
  BY <1>2, <1>3, <1>4, RequestStep DEF AssertWriteAccess

\* What the type invariant says of one request.
LEMMA OneRequest ==
    ASSUME IInv, NEW r \in Requests
    PROVE  /\ req[r] \in Request /\ GoodRequest(req[r])
           /\ req[r].projects \in SUBSET Projects /\ req[r].rows \in Rows
  BY DEF IInv, TypeOK, Request

LEMMA AddStep ==
    ASSUME IInv, NEW r \in Requests, Add(r) PROVE IInv'
<1>1. PICK p \in req[r].projects, u \in Users, new \in Roles :
         Plan(r, "write", "add", {p}, [k \in {<<p, u>>} |-> new])
  BY DEF Add
<1> DEFINE rows == [k \in {<<p, u>>} |-> new]
<1>2. {p} \in SUBSET Projects /\ {<<p, u>>} \in SUBSET Keys
  BY OneRequest DEF Keys
<1>3. rows \in Rows /\ DOMAIN rows = {<<p, u>>} /\ rows[<<p, u>>] # NULL
  BY <1>2, RowsFacts, NullAssumption DEF Roles
<1>4. Plan(r, "write", "add", {p}, rows) /\ Unwritten
  BY <1>1 DEF Add
<1> HIDE DEF rows
<1> QED
  BY <1>2, <1>3, <1>4, PlanStep

LEMMA AddBulkStep ==
    ASSUME IInv, NEW r \in Requests, AddBulk(r) PROVE IInv'
<1>1. PICK p \in req[r].projects : \E us \in Missing(p) :
         \E rows \in [{p} \X us -> Roles] : Plan(r, "write", "add", {p}, rows)
  BY DEF AddBulk
<1>2. PICK us \in Missing(p) :
         \E rows \in [{p} \X us -> Roles] : Plan(r, "write", "add", {p}, rows)
  BY <1>1
<1>3. PICK rows \in [{p} \X us -> Roles] : Plan(r, "write", "add", {p}, rows)
  BY <1>2
<1>4. us \subseteq Users /\ us # {}
  BY DEF Missing
<1>5. p \in Projects
  BY OneRequest
<1>6. {p} \in SUBSET Projects /\ {p} \X us \in SUBSET Keys /\ {p} \X us # {}
  <2>1. PICK u \in us : TRUE
    BY <1>4
  <2>2. <<p, u>> \in {p} \X us
    BY <2>1
  <2> QED
    BY <1>4, <1>5, <2>2 DEF Keys
<1>7. rows \in Rows /\ DOMAIN rows = {p} \X us /\ \A k \in {p} \X us : rows[k] # NULL
  BY <1>6, RowsFacts, NullAssumption DEF Roles
<1>8. Unwritten
  BY DEF AddBulk
<1> QED
  BY <1>3, <1>4, <1>6, <1>7, <1>8, PlanStep

LEMMA RemovalPlanned ==
    ASSUME IInv, NEW r \in Requests, NEW p \in Projects, NEW u \in Users,
           PlanRemoval(r, p, u), Unwritten
    PROVE  IInv'
<1> DEFINE rows == [k \in {<<p, u>>} |-> NULL]
           step == IF role[<<p, u>>] = "MANAGER" THEN "count" ELSE "write"
<1>1. {<<p, u>>} \in SUBSET Keys
  BY DEF Keys
<1>2. rows \in Rows /\ DOMAIN rows = {<<p, u>>} /\ rows[<<p, u>>] = NULL
  BY <1>1, RowsFacts
<1>3. Plan(r, step, "remove", {p}, rows)
  BY DEF PlanRemoval
<1>4. step \in {"count", "write"} /\ (step = "write" => u \notin Managers(p))
  BY DEF Managers
<1>5. step = "write" /\ HasManager(p) => \E v \in Users : v # u /\ role[<<p, v>>] = "MANAGER"
  BY <1>4 DEF HasManager, Managers
<1> HIDE DEF rows, step
<1>6. step = "write" => \A x \in {p} : HasManager(x) =>
         \E v \in Users : "MANAGER" = IF <<x, v>> \in DOMAIN rows
                                       THEN rows[<<x, v>>] ELSE role[<<x, v>>]
  <2> SUFFICES ASSUME step = "write", HasManager(p)
               PROVE  \E v \in Users : "MANAGER" = IF <<p, v>> \in DOMAIN rows
                                                    THEN rows[<<p, v>>] ELSE role[<<p, v>>]
    OBVIOUS
  <2>1. PICK v \in Users : v # u /\ role[<<p, v>>] = "MANAGER"
    BY <1>5
  <2>2. <<p, v>> \notin DOMAIN rows
    BY <1>2, <2>1
  <2> QED
    BY <2>1, <2>2
<1>7. /\ {p} \in SUBSET Projects
      /\ DOMAIN rows \subseteq {p} \X Users /\ DOMAIN rows # {}
      /\ \A k \in DOMAIN rows : rows[k] = NULL
  BY <1>2
<1> QED
  BY <1>2, <1>3, <1>4, <1>6, <1>7, PlanStep

LEMMA RolePlanned ==
    ASSUME IInv, NEW r \in Requests, NEW p \in Projects, NEW u \in Users,
           NEW new \in Roles, PlanRole(r, p, u, new), Unwritten
    PROVE  IInv'
<1> DEFINE rows == [k \in {<<p, u>>} |-> new]
           step == IF role[<<p, u>>] = "MANAGER" THEN "count" ELSE "write"
<1>1. {<<p, u>>} \in SUBSET Keys /\ role[<<p, u>>] \in Roles \cup {NULL}
  BY DEF Keys, IInv, TypeOK
<1>2. /\ rows \in Rows /\ DOMAIN rows = {<<p, u>>}
      /\ rows[<<p, u>>] = new /\ new # NULL
  BY <1>1, RowsFacts, NullAssumption DEF Roles
<1>3. Plan(r, step, "role", {p}, rows)
  BY DEF PlanRole
<1>4. step \in {"count", "write"} /\ (step = "write" => new = "MANAGER")
  BY <1>1 DEF PlanRole, Roles
<1> HIDE DEF rows, step
<1>5. step = "write" => \A x \in {p} : HasManager(x) =>
         \E v \in Users : "MANAGER" = IF <<x, v>> \in DOMAIN rows
                                       THEN rows[<<x, v>>] ELSE role[<<x, v>>]
  BY <1>2, <1>4
<1> QED
  BY <1>2, <1>3, <1>4, <1>5, PlanStep

LEMMA RemoveBulkStep ==
    ASSUME IInv, NEW r \in Requests, RemoveBulk(r) PROVE IInv'
<1>1. PICK p \in req[r].projects : \E us \in (SUBSET {u \in Users : role[<<p, u>>] # NULL}) \ {{}} :
         Plan(r, "count", "removeBulk", {p}, [k \in {p} \X us |-> NULL])
  BY DEF RemoveBulk
<1>2. PICK us \in (SUBSET {u \in Users : role[<<p, u>>] # NULL}) \ {{}} :
         Plan(r, "count", "removeBulk", {p}, [k \in {p} \X us |-> NULL])
  BY <1>1
<1> DEFINE rows == [k \in {p} \X us |-> NULL]
<1>3. PICK u \in us : TRUE
  BY <1>2
<1>4. p \in Projects /\ us \subseteq Users /\ <<p, u>> \in {p} \X us
  BY <1>2, <1>3, OneRequest
<1>5. {p} \in SUBSET Projects /\ {p} \X us \in SUBSET Keys
  BY <1>4 DEF Keys
<1>6. rows \in Rows /\ DOMAIN rows = {p} \X us /\ \A k \in {p} \X us : rows[k] = NULL
  BY <1>5, RowsFacts
<1>7. DOMAIN rows \subseteq {p} \X Users /\ DOMAIN rows # {}
  BY <1>4, <1>6
<1>8. Plan(r, "count", "removeBulk", {p}, rows) /\ Unwritten
  BY <1>2 DEF RemoveBulk
<1> HIDE DEF rows
<1> QED
  BY <1>5, <1>6, <1>7, <1>8, PlanStep

LEMMA AddProjectsStep ==
    ASSUME IInv, NEW r \in Requests, AddProjects(r) PROVE IInv'
<1>1. PICK ps \in (SUBSET {p \in Projects : IsLive(p)}) \ {{}} :
         req' = [req EXCEPT ![r] = [Idle EXCEPT !.step = "projects", !.projects = ps]]
  BY DEF AddProjects
<1> DEFINE new == [Idle EXCEPT !.step = "projects", !.projects = ps]
<1>2. ps \in SUBSET Projects
  BY <1>1
<1>3. new \in Request /\ new.step = "projects" /\ new.op = "none" /\ new.rows = NoRows
  BY <1>2, IdleFacts, RowsFacts DEF Request, Steps, Idle
<1>4. req' = [req EXCEPT ![r] = new]
  BY <1>1
<1> HIDE DEF new
<1>5. GoodRequest(new) /\ KnowsOf(new)
  BY <1>3, RowsFacts DEF GoodRequest, KnowsOf
<1> QED
  BY <1>3, <1>4, <1>5, RequestStep DEF AddProjects

LEMMA AddToProjectsStep ==
    ASSUME IInv, NEW r \in Requests, AddToProjects(r) PROVE IInv'
<1>1. PICK u \in Users, new \in Roles :
         LET ps == {p \in req[r].projects : role[<<p, u>>] = NULL}
         IN  ps # {} /\ Plan(r, "write", "add", ps, [k \in ps \X {u} |-> new])
  BY DEF AddToProjects
<1> DEFINE ps == {p \in req[r].projects : role[<<p, u>>] = NULL}
           rows == [k \in ps \X {u} |-> new]
<1>2. PICK p \in ps : TRUE
  BY <1>1
<1>3. ps \in SUBSET Projects /\ <<p, u>> \in ps \X {u}
  BY <1>2, OneRequest
<1>4. ps \X {u} \in SUBSET Keys /\ ps \X {u} \subseteq ps \X Users
  BY <1>3 DEF Keys
<1>5. /\ rows \in Rows /\ DOMAIN rows = ps \X {u} /\ new # NULL
      /\ \A k \in ps \X {u} : rows[k] = new
  BY <1>4, RowsFacts, NullAssumption DEF Roles
<1>6. Plan(r, "write", "add", ps, rows) /\ Unwritten
  BY <1>1 DEF AddToProjects
<1> HIDE DEF rows, ps
<1>7. DOMAIN rows \subseteq ps \X Users /\ DOMAIN rows # {} /\ \A k \in DOMAIN rows : rows[k] # NULL
  BY <1>3, <1>4, <1>5
<1> QED
  BY <1>3, <1>5, <1>6, <1>7, PlanStep

\* The count: somebody who stays is a manager now.
LEMMA CountStep ==
    ASSUME IInv, NEW r \in Requests, CountManagers(r) PROVE IInv'
<1> DEFINE new == [req[r] EXCEPT !.step = "write"]
<1>1. req[r] \in Request /\ GoodRequest(req[r]) /\ req[r].step = "count"
  BY OneRequest DEF CountManagers
<1>2. /\ new \in Request /\ new.step = "write" /\ new.op = req[r].op
      /\ new.rows = req[r].rows /\ new.projects = req[r].projects
  BY <1>1 DEF Request, Steps
<1>3. req' = [req EXCEPT ![r] = new]
  BY DEF CountManagers, Goto
<1> HIDE DEF new
<1>4. GoodRequest(new) /\ new.op \in {"remove", "removeBulk", "role"}
  BY <1>1, <1>2 DEF GoodRequest
<1>5. ASSUME NEW p \in new.projects PROVE LeavesManager(new, p)
  <2>1. PICK u \in Managers(p) : <<p, u>> \notin DOMAIN new.rows
    BY <1>2, <1>5 DEF CountManagers, OthersRemain
  <2> QED
    BY <2>1 DEF LeavesManager, Result, Managers
<1>6. KnowsOf(new)
  BY <1>4, <1>5 DEF KnowsOf
<1> QED
  BY <1>2, <1>3, <1>4, <1>6, RequestStep DEF CountManagers

LEMMA EditStep ==
    ASSUME IInv, NEW r \in Requests, EditProject(r) PROVE IInv'
<1>1. PICK p \in Projects, next \in {"ACTIVE", "ARCHIVED"} : \E seen \in 0..stamp[p] :
         /\ stamp[p] = seen
         /\ req' = [req EXCEPT ![r] = [Idle EXCEPT
                       !.step = "write", !.op = "edit", !.projects = {p},
                       !.status = next, !.expected = seen]]
  BY DEF EditProject, SameVersion
<1> DEFINE new == [Idle EXCEPT !.step = "write", !.op = "edit", !.projects = {p},
                               !.status = next, !.expected = stamp[p]]
<1>2. stamp[p] \in Nat
  BY DEF IInv, TypeOK
<1>3. /\ new \in Request /\ new.op = "edit" /\ new.rows = NoRows /\ new.step = "write"
      /\ new.projects = {p} /\ new.expected = stamp[p]
  BY <1>2, IdleFacts, RowsFacts DEF Request, Steps, Ops, Idle
<1>4. req' = [req EXCEPT ![r] = new]
  BY <1>1
<1> HIDE DEF new
<1>5. GoodRequest(new) /\ KnowsOf(new)
  BY <1>3, RowsFacts DEF GoodRequest, KnowsOf, Removals
<1> QED
  BY <1>3, <1>4, <1>5, RequestStep DEF EditProject

LEMMA DeleteStep ==
    ASSUME IInv, NEW r \in Requests, HardDelete(r) PROVE IInv'
<1>1. PICK p \in Projects :
         /\ status[p] = "ARCHIVED"
         /\ req' = [req EXCEPT ![r] = [Idle EXCEPT
                       !.step = "write", !.op = "erase", !.projects = {p}]]
  BY DEF HardDelete, MayErase
<1> DEFINE new == [Idle EXCEPT !.step = "write", !.op = "erase", !.projects = {p}]
<1>2. /\ new \in Request /\ new.op = "erase" /\ new.rows = NoRows
      /\ new.step = "write" /\ new.projects = {p}
  BY IdleFacts, RowsFacts DEF Request, Steps, Ops, Idle
<1>3. req' = [req EXCEPT ![r] = new]
  BY <1>1
<1> HIDE DEF new
<1>4. GoodRequest(new) /\ KnowsOf(new)
  BY <1>1, <1>2, RowsFacts DEF GoodRequest, KnowsOf, Removals
<1> QED
  BY <1>2, <1>3, <1>4, RequestStep DEF HardDelete

-------------------------------------------------------------------------------
(* Steps that write                                                        *)

LEMMA CommitFacts ==
    ASSUME IInv, NEW r \in Requests, Commit(r, req[r].projects)
    PROVE  /\ req' \in [Requests -> Request]
           /\ req'[r] = Idle
           /\ \A q \in Requests : GoodRequest(req'[q])
           /\ \A q \in Requests \ {r} :
                 /\ req'[q].step = req[q].step /\ req'[q].op = req[q].op
                 /\ req'[q].projects = req[q].projects /\ req'[q].rows = req[q].rows
                 /\ req'[q].expected = req[q].expected
                 /\ req'[q].fresh => req[q].fresh /\ req[q].projects \cap req[r].projects = {}
<1>1. req' = [q \in Requests |->
                 IF q = r THEN Idle
                 ELSE IF req[q].projects \cap req[r].projects # {}
                      THEN [req[q] EXCEPT !.fresh = FALSE] ELSE req[q]]
  BY DEF Commit
<1>2. ASSUME NEW q \in Requests, q # r
      PROVE  /\ req'[q] \in Request
             /\ req'[q].step = req[q].step /\ req'[q].op = req[q].op
             /\ req'[q].projects = req[q].projects /\ req'[q].rows = req[q].rows
             /\ req'[q].expected = req[q].expected
             /\ req'[q].fresh => req[q].fresh /\ req[q].projects \cap req[r].projects = {}
  <2>1. req[q] \in Request
    BY OneRequest
  <2>2. [req[q] EXCEPT !.fresh = FALSE] \in Request
    BY <2>1 DEF Request
  <2>3. CASE req[q].projects \cap req[r].projects # {}
    <3>1. req'[q] = [req[q] EXCEPT !.fresh = FALSE]
      BY <1>1, <1>2, <2>3
    <3> QED
      BY <2>1, <2>2, <3>1 DEF Request
  <2>4. CASE req[q].projects \cap req[r].projects = {}
    <3>1. req'[q] = req[q]
      BY <1>1, <1>2, <2>4
    <3> QED
      BY <2>1, <2>4, <3>1
  <2> QED
    BY <2>3, <2>4
<1>3. req'[r] = Idle
  BY <1>1
<1>4. ASSUME NEW q \in Requests PROVE req'[q] \in Request /\ GoodRequest(req'[q])
  BY <1>2, <1>3, IdleFacts, OneRequest DEF GoodRequest
<1>5. req' \in [Requests -> Request]
  BY <1>1, <1>4
<1> QED
  BY <1>2, <1>3, <1>4, <1>5

\* Whoever is not overtaken by a write knows what it knew.
LEMMA OthersKnow ==
    ASSUME IInv, NEW r \in Requests, Commit(r, req[r].projects),
           \A p \in Projects, u \in Users :
               p \notin req[r].projects => role'[<<p, u>>] = role[<<p, u>>],
           \A p \in Projects :
               p \notin req[r].projects => stamp'[p] = stamp[p] /\ status'[p] = status[p]
    PROVE  \A q \in Requests : Knows(q)'
<1>1. Knows(r)'
  BY CommitFacts, IdleFacts DEF Knows, KnowsOf
<1>2. ASSUME NEW q \in Requests, q # r, req'[q].step = "write", req'[q].fresh,
             NEW p \in req'[q].projects
      PROVE  /\ req'[q].op \in Removals => LeavesManager(req[q], p)'
             /\ req'[q].op = "edit" => stamp'[p] = req'[q].expected
             /\ req'[q].op = "erase" => status'[p] = "ARCHIVED"
  <2>1. /\ req'[q].op = req[q].op /\ req'[q].rows = req[q].rows
        /\ req'[q].expected = req[q].expected
        /\ req[q].step = "write" /\ req[q].fresh /\ p \in req[q].projects
        /\ p \in Projects /\ p \notin req[r].projects
    BY <1>2, CommitFacts, OneRequest
  <2>2. /\ req[q].op \in Removals => LeavesManager(req[q], p)
        /\ req[q].op = "edit" => stamp[p] = req[q].expected
        /\ req[q].op = "erase" => status[p] = "ARCHIVED"
    BY <2>1 DEF IInv, Knows, KnowsOf
  <2>3. \A u \in Users : role'[<<p, u>>] = role[<<p, u>>]
    BY <2>1
  <2>4. ASSUME LeavesManager(req[q], p) PROVE LeavesManager(req[q], p)'
    BY <2>1, <2>3, <2>4 DEF LeavesManager, HasManager, Managers, Result
  <2> QED
    BY <2>1, <2>2, <2>4
<1> QED
  BY <1>1, <1>2 DEF Knows, KnowsOf

\* The table after the rows of a request were written.
LEMMA WrittenRows ==
    ASSUME IInv, NEW r \in Requests, role' = WithRows(r)
    PROVE  /\ role' \in [Keys -> Roles \cup {NULL}]
           /\ \A k \in Keys : role'[k] = Result(req[r], k)
           /\ \A p \in Projects, u \in Users :
                 p \notin req[r].projects => role'[<<p, u>>] = role[<<p, u>>]
<1>1. \A k \in Keys : role'[k] = Result(req[r], k)
  BY DEF WithRows, Result
<1>2. \A k \in DOMAIN req[r].rows : req[r].rows[k] \in Roles \cup {NULL}
  BY OneRequest DEF Rows
<1>3. role' \in [Keys -> Roles \cup {NULL}]
  BY <1>2 DEF WithRows, IInv, TypeOK
<1>4. DOMAIN req[r].rows \subseteq req[r].projects \X Users
  BY OneRequest DEF GoodRequest
<1> QED
  BY <1>1, <1>3, <1>4 DEF Result, Keys

\* Rows that belong to live projects are written.
LEMMA WriteStep ==
    ASSUME IInv, NEW r \in Requests, role' = WithRows(r),
           Commit(r, req[r].projects), UNCHANGED <<status, stamp>>,
           \A k \in DOMAIN req[r].rows : req[r].rows[k] # NULL => IsLive(k[1])
    PROVE  IInv'
<1>1. TypeOK'
  BY WrittenRows, CommitFacts DEF IInv, TypeOK
<1>2. MembersHaveProjects'
  BY WrittenRows DEF IInv, MembersHaveProjects, Result, IsLive
<1>3. \A q \in Requests : Knows(q)'
  BY WrittenRows, OthersKnow
<1> QED
  BY <1>1, <1>2, <1>3 DEF IInv

LEMMA EditWriteStep ==
    ASSUME IInv, NEW r \in Requests, WriteProject(r) PROVE IInv'
<1>1. PICK p \in req[r].projects :
         /\ IsLive(p)
         /\ status' = [status EXCEPT ![p] = req[r].status]
         /\ stamp' = [stamp EXCEPT ![p] = @ + 1]
  BY DEF WriteProject
<1>2. Commit(r, req[r].projects) /\ role' = role
  BY DEF WriteProject
<1>3. p \in Projects /\ req[r].status \in {"ACTIVE", "ARCHIVED"}
  BY OneRequest DEF Request
<1>4. TypeOK'
  BY <1>1, <1>2, <1>3, CommitFacts DEF IInv, TypeOK
<1>5. MembersHaveProjects'
  BY <1>1, <1>2, <1>3 DEF IInv, TypeOK, MembersHaveProjects, IsLive, Keys
<1>6. \A q \in Projects :
         q \notin req[r].projects => stamp'[q] = stamp[q] /\ status'[q] = status[q]
  BY <1>1 DEF IInv, TypeOK
<1>7. \A q \in Requests : Knows(q)'
  BY <1>2, <1>6, OthersKnow
<1> QED
  BY <1>4, <1>5, <1>7 DEF IInv

LEMMA EraseStep ==
    ASSUME IInv, NEW r \in Requests, EraseProject(r) PROVE IInv'
<1>1. /\ status' = [p \in Projects |-> IF p \in req[r].projects THEN "none" ELSE status[p]]
      /\ role' = [k \in Keys |-> IF k[1] \in req[r].projects THEN NULL ELSE role[k]]
      /\ Commit(r, req[r].projects) /\ stamp' = stamp
  BY DEF EraseProject
<1>2. TypeOK'
  BY <1>1, CommitFacts DEF IInv, TypeOK
<1>3. MembersHaveProjects'
  BY <1>1 DEF IInv, MembersHaveProjects, IsLive, Keys
<1>4. \A p \in Projects, u \in Users :
         p \notin req[r].projects => role'[<<p, u>>] = role[<<p, u>>]
  BY <1>1 DEF Keys
<1>5. \A q \in Requests : Knows(q)'
  BY <1>1, <1>4, OthersKnow
<1> QED
  BY <1>2, <1>3, <1>5 DEF IInv

LEMMA CreateStep ==
    ASSUME IInv, NEW r \in Requests, CreateProject(r) PROVE IInv'
<1>1. PICK p \in Projects, managers \in (SUBSET Users) \ {{}}, others \in SUBSET Users :
         /\ IsUnused(p)
         /\ status' = [status EXCEPT ![p] = "ACTIVE"]
         /\ stamp' = [stamp EXCEPT ![p] = 0]
         /\ role' = [k \in Keys |->
                        IF k[1] # p THEN role[k]
                        ELSE IF k[2] \in managers THEN "MANAGER"
                        ELSE IF k[2] \in others THEN "MEMBER" ELSE NULL]
  BY DEF CreateProject
<1>2. req' = req
  BY DEF CreateProject
<1>3. role' \in [Keys -> Roles \cup {NULL}]
  BY <1>1 DEF IInv, TypeOK, Roles
<1>4. TypeOK'
  BY <1>1, <1>2, <1>3 DEF IInv, TypeOK
<1>5. MembersHaveProjects'
  BY <1>1 DEF IInv, TypeOK, MembersHaveProjects, IsLive, Keys
<1>6. ASSUME NEW q \in Requests PROVE Knows(q)'
  <2>1. ASSUME NEW x \in req[q].projects
        PROVE  /\ stamp'[x] = stamp[x] /\ status'[x] = status[x]
               /\ \A u \in Users : role'[<<x, u>>] = role[<<x, u>>]
    BY <1>1, <2>1, OneRequest DEF IsUnused, IInv, TypeOK, Keys
  <2>2. ASSUME NEW x \in req[q].projects, LeavesManager(req[q], x)
        PROVE  LeavesManager(req[q], x)'
    BY <1>2, <2>1, <2>2 DEF LeavesManager, HasManager, Managers, Result
  <2> QED
    BY <1>2, <2>1, <2>2 DEF IInv, Knows, KnowsOf
<1> QED
  BY <1>4, <1>5, <1>6 DEF IInv

-------------------------------------------------------------------------------
(* The invariant                                                           *)

\* The steps that write no row and no project.
Quiet(r) ==
    \/ AssertProjectExists(r) \/ AssertWriteAccess(r) \/ Add(r) \/ AddBulk(r)
    \/ Remove(r) \/ RemoveBulk(r) \/ UpdateRole(r) \/ AddProjects(r) \/ AddToProjects(r)
    \/ UpdateProjectRole(r) \/ RemoveProject(r) \/ CountManagers(r)
    \/ EditProject(r) \/ HardDelete(r) \/ Refuse(r)

LEMMA StepKinds ==
    ASSUME Next
    PROVE  \E r \in Requests :
              \/ Quiet(r) \/ Insert(r) \/ WriteRow(r) \/ DeleteMany(r)
              \/ CreateProject(r) \/ WriteProject(r) \/ EraseProject(r)
  BY DEF Next, ByMember, ByUser, Write, Project, Quiet

LEMMA QuietWritesNothing ==
    ASSUME NEW r \in Requests, Quiet(r) PROVE Unwritten
  BY DEF Quiet, AssertProjectExists, AssertWriteAccess, Add, AddBulk, Remove, RemoveBulk,
         UpdateRole, AddProjects, AddToProjects, UpdateProjectRole, RemoveProject,
         CountManagers, EditProject, HardDelete, Refuse

LEMMA QuietStep ==
    ASSUME IInv, NEW r \in Requests, Quiet(r) PROVE IInv'
<1>1. CASE Remove(r) \/ RemoveProject(r)
  <2>1. PICK p \in Projects, u \in Users : PlanRemoval(r, p, u)
    BY <1>1, OneRequest DEF Remove, RemoveProject
  <2> QED
    BY <2>1, QuietWritesNothing, RemovalPlanned
<1>2. CASE UpdateRole(r) \/ UpdateProjectRole(r)
  <2>1. PICK p \in Projects, u \in Users, new \in Roles : PlanRole(r, p, u, new)
    BY <1>2, OneRequest DEF UpdateRole, UpdateProjectRole
  <2> QED
    BY <2>1, QuietWritesNothing, RolePlanned
<1>3. CASE Refuse(r)
  BY <1>3, IdleFacts, RequestStep DEF Refuse, Done
<1> QED
  BY <1>1, <1>2, <1>3, ExistsStep, AccessStep, AddStep, AddBulkStep, RemoveBulkStep,
     AddProjectsStep, AddToProjectsStep, CountStep, EditStep, DeleteStep DEF Quiet

LEMMA RowsStep ==
    ASSUME IInv, NEW r \in Requests, Insert(r) \/ WriteRow(r) \/ DeleteMany(r) PROVE IInv'
<1>1. /\ role' = WithRows(r) /\ Commit(r, req[r].projects) /\ UNCHANGED <<status, stamp>>
      /\ Insert(r) => MayInsert(r)
      /\ WriteRow(r) => \A k \in DOMAIN req[r].rows : role[k] # NULL
      /\ DeleteMany(r) => req[r].op = "removeBulk"
  BY DEF Insert, WriteRow, DeleteMany
<1>2. DOMAIN req[r].rows \subseteq Keys
  BY OneRequest DEF GoodRequest, Keys
<1>3. DeleteMany(r) => \A k \in DOMAIN req[r].rows : req[r].rows[k] = NULL
  BY <1>1, OneRequest DEF GoodRequest
<1>4. \A k \in DOMAIN req[r].rows : req[r].rows[k] # NULL => IsLive(k[1])
  BY <1>1, <1>2, <1>3 DEF MayInsert, IInv, MembersHaveProjects
<1> QED
  BY <1>1, <1>4, WriteStep

LEMMA InitHolds == Init => IInv
<1> SUFFICES ASSUME Init PROVE IInv
  OBVIOUS
<1>1. TypeOK
  BY IdleFacts DEF Init, TypeOK
<1>2. MembersHaveProjects
  BY DEF Init, MembersHaveProjects
<1>3. \A r \in Requests : Knows(r)
  BY IdleFacts DEF Init, Knows
<1> QED
  BY <1>1, <1>2, <1>3 DEF IInv

LEMMA NextHolds == IInv /\ [Next]_vars => IInv'
<1> SUFFICES ASSUME IInv, [Next]_vars PROVE IInv'
  OBVIOUS
<1>1. CASE Next
  BY <1>1, StepKinds, QuietStep, RowsStep, CreateStep, EditWriteStep, EraseStep
<1>2. CASE UNCHANGED vars
  BY <1>2 DEF vars, IInv, TypeOK, MembersHaveProjects, IsLive, Knows, KnowsOf,
              LeavesManager, HasManager, Managers, Result
<1> QED
  BY <1>1, <1>2

LEMMA Invariance == Spec => []IInv
  BY InitHolds, NextHolds, PTL DEF Spec

\* Rows, projects and requests of members.service.ts and
\* user-projects.service.ts are well formed whatever overlaps.
THEOREM MemberTypes == Spec => []TypeOK
<1>1. IInv => TypeOK
  BY DEF IInv
<1> QED
  BY <1>1, Invariance, PTL

\* Whatever overlaps, there are no members without their project.
THEOREM MembersBelong == Spec => []MembersHaveProjects
<1>1. IInv => MembersHaveProjects
  BY DEF IInv
<1> QED
  BY <1>1, Invariance, PTL

-------------------------------------------------------------------------------
(* What a step may do                                                      *)

LEMMA ManagersOfAStep ==
    ASSUME IInv, Next, NEW p \in Projects, IsLive(p)', ~HasManager(p)'
    PROVE  (IsLive(p) /\ ~HasManager(p)) \/ StaleWrite
<1>1. PICK r \in Requests :
         \/ Quiet(r) \/ Insert(r) \/ WriteRow(r) \/ DeleteMany(r)
         \/ CreateProject(r) \/ WriteProject(r) \/ EraseProject(r)
  BY StepKinds
<1>2. CASE Quiet(r)
  BY <1>2, QuietWritesNothing DEF Unwritten, IsLive, HasManager, Managers
<1>3. CASE Insert(r)
  <2>1. role' = WithRows(r) /\ status' = status /\ MayInsert(r)
    BY <1>3 DEF Insert
  <2>2. \A u \in Users : role[<<p, u>>] = "MANAGER" => role'[<<p, u>>] = "MANAGER"
    BY <2>1, NullAssumption DEF MayInsert, WithRows, Keys
  <2> QED
    BY <2>1, <2>2 DEF IsLive, HasManager, Managers
<1>4. CASE WriteRow(r) \/ DeleteMany(r)
  <2>1. /\ role' = WithRows(r) /\ status' = status /\ Commit(r, req[r].projects)
        /\ req[r].step = "write" /\ req[r].op \in Removals
    BY <1>4 DEF WriteRow, DeleteMany, Removals
  <2>2. CASE ~req[r].fresh
    BY <2>1, <2>2, CommitFacts DEF StaleWrite
  <2>3. CASE p \notin req[r].projects
    BY <2>1, <2>3, WrittenRows DEF IsLive, HasManager, Managers
  <2>4. CASE req[r].fresh /\ p \in req[r].projects
    <3>1. LeavesManager(req[r], p)
      BY <2>1, <2>4 DEF IInv, Knows, KnowsOf
    <3>2. \A u \in Users : role'[<<p, u>>] = Result(req[r], <<p, u>>)
      BY <2>1, WrittenRows DEF Keys
    <3> QED
      BY <2>1, <3>1, <3>2 DEF LeavesManager, IsLive, HasManager, Managers
  <2> QED
    BY <2>2, <2>3, <2>4
<1>5. CASE CreateProject(r)
  <2>1. PICK q \in Projects, managers \in (SUBSET Users) \ {{}}, others \in SUBSET Users :
           /\ IsUnused(q)
           /\ status' = [status EXCEPT ![q] = "ACTIVE"]
           /\ stamp' = [stamp EXCEPT ![q] = 0]
           /\ role' = [k \in Keys |->
                          IF k[1] # q THEN role[k]
                          ELSE IF k[2] \in managers THEN "MANAGER"
                          ELSE IF k[2] \in others THEN "MEMBER" ELSE NULL]
    BY <1>5 DEF CreateProject
  <2>2. p # q
    <3>1. PICK u \in managers : u \in Users
      BY <2>1
    <3>2. role'[<<q, u>>] = "MANAGER"
      BY <2>1, <3>1 DEF Keys
    <3> QED
      BY <3>1, <3>2 DEF HasManager, Managers
  <2>3. status'[p] = status[p] /\ \A u \in Users : role'[<<p, u>>] = role[<<p, u>>]
    BY <2>1, <2>2 DEF IInv, TypeOK, Keys
  <2> QED
    BY <2>3 DEF IsLive, HasManager, Managers
<1>6. CASE WriteProject(r)
  BY <1>6 DEF WriteProject, IInv, TypeOK, IsLive, HasManager, Managers
<1>7. CASE EraseProject(r)
  BY <1>7 DEF EraseProject, IsLive, HasManager, Managers, Keys
<1> QED
  BY <1>1, <1>2, <1>3, <1>4, <1>5, <1>6, <1>7

\* A project loses its last manager only to a request that was overtaken.
THEOREM LastManagerKept == Spec => LastManagerStays
<1> DEFINE A == \A p \in Projects :
                   IsLive(p)' /\ ~HasManager(p)' =>
                      (IsLive(p) /\ ~HasManager(p)) \/ StaleWrite
<1>1. IInv /\ [Next]_vars => [A]_vars
  BY ManagersOfAStep
<1> QED
  BY <1>1, Invariance, PTL DEF Spec, LastManagerStays

LEMMA RolesOfAStep ==
    ASSUME IInv, Next, NEW k \in Keys,
           role[k] # NULL, role'[k] # NULL, role'[k] # role[k]
    PROVE  \E r \in Requests : req[r].op = "role" /\ k \in DOMAIN req[r].rows
                               /\ req'[r] = Idle
<1>1. PICK r \in Requests :
         \/ Quiet(r) \/ Insert(r) \/ WriteRow(r) \/ DeleteMany(r)
         \/ CreateProject(r) \/ WriteProject(r) \/ EraseProject(r)
  BY StepKinds
<1>2. ~Quiet(r) /\ ~WriteProject(r)
  BY QuietWritesNothing DEF Unwritten, WriteProject
<1>3. ~CreateProject(r)
  BY DEF CreateProject, IsUnused, IInv, MembersHaveProjects
<1>4. ~EraseProject(r)
  BY DEF EraseProject
<1>5. /\ role' = WithRows(r) /\ Commit(r, req[r].projects)
      /\ Insert(r) => MayInsert(r)
      /\ ~Insert(r) => req[r].op \in Removals
  BY <1>1, <1>2, <1>3, <1>4 DEF Insert, WriteRow, DeleteMany, Removals
<1>6. k \in DOMAIN req[r].rows /\ req[r].rows[k] # NULL
  BY <1>5 DEF WithRows
<1>7. req[r].op = "role"
  BY <1>5, <1>6, OneRequest DEF MayInsert, GoodRequest, Removals
<1> QED
  BY <1>5, <1>6, <1>7, CommitFacts

\* Nobody is promoted or demoted but by a change of role.
THEOREM RolesByRequest == Spec => RolesChangeByRequest
<1> DEFINE A == \A k \in Keys :
                   role[k] # NULL /\ role'[k] # NULL /\ role'[k] # role[k] =>
                      \E r \in Requests : req[r].op = "role" /\ k \in DOMAIN req[r].rows
                                          /\ req'[r] = Idle
<1>1. IInv /\ [Next]_vars => [A]_vars
  BY RolesOfAStep
<1> QED
  BY <1>1, Invariance, PTL DEF Spec, RolesChangeByRequest

LEMMA ProjectsOfAStep ==
    ASSUME IInv, Next, NEW q \in Requests, NEW p \in Projects,
           p \in req[q].projects, req[q].step = "write", req[q].fresh, req'[q] = Idle
    PROVE  /\ IsLive(p) /\ ~IsLive(p)' => status[p] = "ARCHIVED"
           /\ stamp'[p] # stamp[p] => stamp[p] = req[q].expected
<1>1. PICK r \in Requests :
         \/ Quiet(r) \/ Insert(r) \/ WriteRow(r) \/ DeleteMany(r)
         \/ CreateProject(r) \/ WriteProject(r) \/ EraseProject(r)
  BY StepKinds
<1>2. CASE Quiet(r) \/ Insert(r) \/ WriteRow(r) \/ DeleteMany(r)
  BY <1>2, QuietWritesNothing DEF Unwritten, Insert, WriteRow, DeleteMany, IsLive
<1>3. CASE CreateProject(r)
  <2>1. req'[q] = req[q]
    BY <1>3 DEF CreateProject
  <2> QED
    BY <2>1, IdleFacts
<1>4. CASE WriteProject(r) \/ EraseProject(r)
  <2>1. q = r
    BY <1>4, CommitFacts, IdleFacts DEF WriteProject, EraseProject
  <2>2. /\ req[q].op = "edit" => stamp[p] = req[q].expected
        /\ req[q].op = "erase" => status[p] = "ARCHIVED"
    BY DEF IInv, Knows, KnowsOf
  <2>3. CASE WriteProject(r)
    <3>1. req[q].op = "edit" /\ req[q].status \in {"ACTIVE", "ARCHIVED"}
      BY <2>1, <2>3, OneRequest DEF WriteProject, Request
    <3>2. PICK x \in req[q].projects : status' = [status EXCEPT ![x] = req[q].status]
      BY <2>1, <2>3 DEF WriteProject
    <3>3. IsLive(p) => IsLive(p)'
      BY <3>1, <3>2 DEF IsLive, IInv, TypeOK
    <3> QED
      BY <2>2, <3>1, <3>3
  <2>4. CASE EraseProject(r)
    BY <2>1, <2>2, <2>4 DEF EraseProject
  <2> QED
    BY <1>4, <2>3, <2>4
<1> QED
  BY <1>1, <1>2, <1>3, <1>4

\* Who was not overtaken deletes archived projects only, and updates the
\* version it has seen.
THEOREM ProjectsAsSeen == Spec => ProjectsChangeAsSeen
<1> DEFINE A == \A r \in Requests, p \in Projects :
          p \in req[r].projects /\ req[r].step = "write" /\ req[r].fresh /\ req'[r] = Idle =>
             /\ IsLive(p) /\ ~IsLive(p)' => status[p] = "ARCHIVED"
             /\ stamp'[p] # stamp[p] => stamp[p] = req[r].expected
<1>1. IInv /\ [Next]_vars => [A]_vars
  BY ProjectsOfAStep
<1> QED
  BY <1>1, Invariance, PTL DEF Spec, ProjectsChangeAsSeen
-------------------------------------------------------------------------------
(* The history of a project: one's own changes show.                       *)

\* Fields of a request for the list that is under way.
Underway ==
    /\ {"step", "asked"} \subseteq DOMAIN reading
    /\ reading.asked \in Nat /\ reading.asked <= written

\* Every number is one of a write that has been.
Past ==
    /\ written \in Nat
    /\ own = [unsure |-> own.unsure, kind |-> own.kind, answered |-> own.answered,
              changed |-> own.changed]
    /\ own.unsure \in 0..written /\ own.changed \in 0..written
    /\ own.kind # "none" => own.unsure >= own.changed
    /\ IsFiniteSet(DOMAIN nodes)

\* Whatever may be shown later, the cached lists and the one under way, was
\* asked for after one's last change with an answer.
Fresh(l) == l = Nobody \/ (l.asked \in Nat /\ l.asked >= own.changed)

NothingOld ==
    /\ DOMAIN cache = Queries /\ \A q \in Queries : Fresh(cache[q])
    /\ reading.step # "idle" => reading.asked >= own.changed

PageKnows ==
    /\ shown.before.changed \in Nat /\ shown.before.changed <= own.changed
    /\ OwnChangesShow

HInv == Past /\ Underway /\ NothingOld /\ PageKnows

LEMMA HistoryBegins == HistoryInit => HInv
<1> SUFFICES ASSUME HistoryInit PROVE HInv
  OBVIOUS
<1>1. Past
  <2>1. DOMAIN nodes = {}
    BY DEF HistoryInit
  <2> QED
    BY <2>1, FS_EmptySet DEF HistoryInit, NoWrites, Past
<1>2. Underway
  BY DEF HistoryInit, NoReading, Underway
<1>3. NothingOld
  BY DEF HistoryInit, NoReading, NoCache, NothingOld, Fresh
<1>4. PageKnows
  BY DEF HistoryInit, Closed, NoWrites, PageKnows, OwnChangesShow
<1> QED
  BY <1>1, <1>2, <1>3, <1>4 DEF HInv

\* Nobody writes, and the cache, the page and one's own writes stay.
StaysPut == UNCHANGED <<dataVars, shown, cache, own, openings>>

\* A read of the service.
LEMMA ReadKeeps ==
    ASSUME HInv, StaysPut, reading.step # "idle", reading'.asked = reading.asked, Underway'
    PROVE  HInv'
  BY DEF HInv, StaysPut, dataVars, Past, NothingOld, Fresh, PageKnows, OwnChangesShow

LEMMA ReadsKeep ==
    ASSUME HInv, ReadHistory \/ ReadComments \/ ReadNodes \/ AnswerList
    PROVE  HInv'
<1> USE DEF HInv
<1>1. CASE ReadHistory
  <2>1. reading.step = "sent" /\ StaysPut
    BY <1>1 DEF ReadHistory, StaysPut
  <2>0. PICK rows : reading' = [reading EXCEPT !.step = "history", !.rows = rows]
    BY <1>1 DEF ReadHistory
  <2>2. Underway' /\ reading'.asked = reading.asked
    BY <2>1, <2>0 DEF Underway, StaysPut, dataVars
  <2> QED
    BY <2>1, <2>2, ReadKeeps
<1>2. CASE ReadComments
  <2> DEFINE remarks == IF NeedsComments(Topic)
                        THEN Taken({c \in comments : InWindow(c) /\ ~c.gone}) ELSE {}
  <2>1. /\ reading.step = "history" /\ StaysPut
        /\ reading' = [reading EXCEPT !.step = "comments", !.remarks = remarks]
    BY <1>2 DEF ReadComments, StaysPut
  <2> HIDE DEF remarks
  <2>2. Underway' /\ reading'.asked = reading.asked
    BY <2>1 DEF Underway, StaysPut, dataVars
  <2> QED
    BY <2>1, <2>2, ReadKeeps
<1>3. CASE ReadNodes
  <2>1. /\ reading.step = "comments" /\ StaysPut
        /\ reading' = [reading EXCEPT !.step = "nodes", !.live = nodes]
    BY <1>3 DEF ReadNodes, StaysPut
  <2>2. Underway' /\ reading'.asked = reading.asked
    BY <2>1 DEF Underway, StaysPut, dataVars
  <2> QED
    BY <2>1, <2>2, ReadKeeps
<1>4. CASE AnswerList
  <2>1. reading.step = "nodes" /\ StaysPut
    BY <1>4 DEF AnswerList, StaysPut
  <2>0. PICK list : reading' = [reading EXCEPT !.step = "answered", !.list = list]
    BY <1>4 DEF AnswerList
  <2>2. Underway' /\ reading'.asked = reading.asked
    BY <2>0, <2>1 DEF Underway, StaysPut, dataVars
  <2> QED
    BY <2>1, <2>2, ReadKeeps
<1> QED
  BY <1>1, <1>2, <1>3, <1>4

LEMMA IdleIsUnderway ==
    ASSUME reading' = NoReading, Past'
    PROVE  Underway' /\ reading'.step = "idle"
  BY DEF NoReading, Underway, Past

LEMMA PageKeeps ==
    ASSUME HInv, (\E query \in Queries : OpenPage(query)) \/ ClosePage \/ ListArrives \/ ListFails
    PROVE  HInv'
<1> USE DEF HInv
<1>1. Past'
  BY DEF Past, OpenPage, ClosePage, ListArrives, ListFails, dataVars
<1>2. CASE \E query \in Queries : OpenPage(query)
  <2> PICK query \in Queries : OpenPage(query)
    BY <1>2
  <2>3. reading'.step = "sent" /\ reading'.asked = written
        /\ {"step", "asked"} \subseteq DOMAIN reading'
    BY DEF OpenPage, Ask, NoReading
  <2>4. UNCHANGED <<dataVars, cache, own>> /\ shown'.list = cache[query] /\ shown'.before = own
    BY DEF OpenPage
  <2>5. Underway'
    BY <1>1, <2>3, <2>4 DEF Underway, Past, dataVars
  <2>6. NothingOld'
    BY <2>3, <2>4 DEF NothingOld, Fresh, Past, dataVars
  <2>7. PageKnows'
    BY <2>4 DEF PageKnows, OwnChangesShow, NothingOld, Fresh, Past
  <2> QED
    BY <1>1, <2>5, <2>6, <2>7
<1>3. CASE ClosePage
  <2>1. UNCHANGED <<dataVars, reading, cache, own>> /\ shown' = Closed
    BY <1>3 DEF ClosePage
  <2>2. Underway' /\ NothingOld'
    BY <2>1 DEF Underway, NothingOld, Fresh, dataVars
  <2>3. PageKnows'
    BY <2>1 DEF PageKnows, OwnChangesShow, Closed, NoWrites, Past
  <2> QED
    BY <1>1, <2>2, <2>3
<1>4. CASE ListArrives
  <2> DEFINE list == [items |-> reading.list.items, truncated |-> reading.list.truncated,
                      asked |-> reading.asked]
  <2>1. /\ reading.step = "answered" /\ UNCHANGED <<dataVars, own>> /\ reading' = NoReading
        /\ cache' = [cache EXCEPT ![reading.query] = list]
        /\ \/ shown' = [shown EXCEPT !.list = list]
           \/ shown' = shown
    BY <1>4 DEF ListArrives
  <2>3. list.asked = reading.asked
    OBVIOUS
  <2> HIDE DEF list
  <2>4. list.asked \in Nat /\ list.asked >= own.changed
    BY <2>1, <2>3 DEF Underway, NothingOld
  <2>5. NothingOld'
    BY <2>1, <2>4, <1>1, IdleIsUnderway DEF NothingOld, Fresh
  <2>6. PageKnows'
    <3>1. CASE shown' = shown
      BY <3>1, <2>1 DEF PageKnows, OwnChangesShow
    <3>2. CASE shown' = [shown EXCEPT !.list = list]
      <4>1. shown'.before = shown.before
        BY <3>2
      <4>2. shown'.list = list \/ shown'.list = shown.list
        BY <3>2
      <4> QED
        BY <4>1, <4>2, <2>1, <2>4 DEF PageKnows, OwnChangesShow, Past
    <3> QED
      BY <2>1, <3>1, <3>2
  <2> QED
    BY <1>1, <2>1, <2>5, <2>6, IdleIsUnderway
<1>5. CASE ListFails
  <2>1. UNCHANGED <<dataVars, shown, cache, own>> /\ reading' = NoReading
    BY <1>5 DEF ListFails
  <2>2. NothingOld' /\ PageKnows'
    BY <2>1, <1>1, IdleIsUnderway DEF NothingOld, Fresh, PageKnows, OwnChangesShow
  <2> QED
    BY <1>1, <2>1, <2>2, IdleIsUnderway
<1> QED
  BY <1>2, <1>3, <1>4, <1>5

\* A write goes into the table and leaves the lists alone.
LEMMA WriteKeeps ==
    ASSUME HInv, NEW kind, NEW mine \in BOOLEAN, NEW n \in Nat, WriteData(kind, mine, n),
           IsFiniteSet(DOMAIN nodes')
    PROVE  HInv'
<1> USE DEF HInv
<1>1. /\ written' = written + n /\ UNCHANGED <<reading, shown, cache>>
      /\ own' = IF mine THEN [own EXCEPT !.unsure = written', !.kind = kind] ELSE own
  BY DEF WriteData
<1>2. /\ own'.changed = own.changed /\ own'.unsure \in 0..written'
      /\ own'.kind # "none" => own'.unsure >= own'.changed
      /\ own' = [unsure |-> own'.unsure, kind |-> own'.kind, answered |-> own'.answered,
                 changed |-> own'.changed]
  <2>1. CASE mine
    <3>1. own' = [own EXCEPT !.unsure = written', !.kind = kind]
      BY <1>1, <2>1
    <3>2. own' = [unsure |-> written', kind |-> kind, answered |-> own.answered,
                  changed |-> own.changed]
      BY <3>1, Zenon DEF Past
    <3>3. /\ own'.unsure = written' /\ own'.kind = kind /\ own'.answered = own.answered
          /\ own'.changed = own.changed
      BY <3>2
    <3>4. written' \in Nat /\ written' >= own.changed
      BY <1>1 DEF Past
    <3> QED
      BY <3>2, <3>3, <3>4
  <2>2. CASE ~mine
    BY <1>1, <2>2 DEF Past
  <2> QED
    BY <2>1, <2>2
<1>3. Past'
  BY <1>1, <1>2 DEF Past
<1>4. Underway' /\ NothingOld' /\ PageKnows'
  BY <1>1, <1>2 DEF Past, Underway, NothingOld, Fresh, PageKnows, OwnChangesShow
<1> QED
  BY <1>3, <1>4

\* The answer to a change or a comment drops every list.
LEMMA AnswersKeep ==
    ASSUME HInv, ChangeAnswered \/ CommentAnswered \/ ImportAnswered
    PROVE  HInv'
<1> USE DEF HInv
<1>1. /\ UNCHANGED <<dataVars, shown>> /\ own.unsure \in 0..written
      /\ \E kind : own' = [unsure |-> 0, kind |-> "none", answered |-> own.unsure,
                           changed |-> IF kind = "import" THEN own.changed ELSE own.unsure]
  BY DEF ChangeAnswered, CommentAnswered, ImportAnswered, Answered, Past
<1>2. Past'
  BY <1>1 DEF Past, dataVars
<1>3. CASE ImportAnswered
  <2>1. own'.changed = own.changed /\ UNCHANGED <<cache, reading>>
    BY <1>3 DEF ImportAnswered, Answered, AfterImport
  <2> QED
    BY <1>1, <1>2, <2>1 DEF Underway, NothingOld, Fresh, PageKnows, OwnChangesShow, dataVars
<1>4. CASE ChangeAnswered \/ CommentAnswered
  <2>1. cache' = NoCache /\ reading' = NoReading
    BY <1>4 DEF ChangeAnswered, CommentAnswered, Answered, invalidateProject,
                invalidateAfterCommentChange, dropProjectHistoryCache
  <2>2. NothingOld'
    BY <1>2, <2>1, IdleIsUnderway DEF NothingOld, Fresh, NoCache
  <2>3. own.unsure >= own.changed
    BY <1>4 DEF Past, ChangeAnswered, CommentAnswered, Answered
  <2>4. PageKnows'
    BY <1>1, <2>3 DEF PageKnows, OwnChangesShow, Past
  <2> QED
    BY <1>2, <2>1, <2>2, <2>4, IdleIsUnderway
<1> QED
  BY <1>3, <1>4


LEMMA HistoryKeeps == HInv /\ [HistoryNext]_historyVars => HInv'
<1> SUFFICES ASSUME HInv, [HistoryNext]_historyVars PROVE HInv'
  OBVIOUS
<1>1. CASE UNCHANGED historyVars
  BY <1>1 DEF historyVars, dataVars, HInv, Past, Underway, NothingOld, Fresh, PageKnows,
              OwnChangesShow
<1>2. ASSUME NEW mine \in BOOLEAN, NEW n \in NodeIds,
             \/ CreateNode(mine, n) \/ ImportRows(mine, n)
             \/ \E diff \in Diffs : UpdateNode(mine, n, diff)
             \/ DeleteNode(mine, n) \/ AddComment(mine, n)
      PROVE  HInv'
  <2>1. IsFiniteSet(DOMAIN nodes)
    BY DEF HInv, Past
  <2>2. CASE CreateNode(mine, n)
    <3>1. DOMAIN nodes' = DOMAIN nodes \cup {n}
      BY <2>2 DEF CreateNode
    <3> QED
      BY <2>1, <2>2, <3>1, FS_AddElement, WriteKeeps DEF CreateNode
  <2>3. CASE ImportRows(mine, n)
    <3>1. DOMAIN nodes' = {n} /\ \E k \in Nat : WriteData("import", mine, k)
      <4>1. Cardinality(DOMAIN nodes) + 1 \in Nat
        BY <2>1, FS_CardinalityType
      <4> QED
        BY <2>3, <4>1 DEF ImportRows
    <3> QED
      BY <3>1, FS_Singleton, WriteKeeps
  <2>4. CASE \E diff \in Diffs : UpdateNode(mine, n, diff)
    <3>1. DOMAIN nodes' = DOMAIN nodes /\ WriteData("change", mine, 1)
      BY <2>4 DEF UpdateNode
    <3> QED
      BY <2>1, <3>1, WriteKeeps
  <2>5. CASE DeleteNode(mine, n)
    <3>1. DOMAIN nodes' = DOMAIN nodes \ {n}
      BY <2>5 DEF DeleteNode
    <3> QED
      BY <2>1, <2>5, <3>1, FS_RemoveElement, WriteKeeps DEF DeleteNode
  <2>6. CASE AddComment(mine, n)
    BY <2>1, <2>6, WriteKeeps DEF AddComment
  <2> QED
    BY <1>2, <2>2, <2>3, <2>4, <2>5, <2>6
<1>3. ASSUME NEW mine \in BOOLEAN, NEW c \in comments, RemoveComment(mine, c) PROVE HInv'
  BY <1>3, WriteKeeps DEF RemoveComment, HInv, Past
<1> QED
  BY <1>1, <1>2, <1>3, ReadsKeep, PageKeeps, AnswersKeep DEF HistoryNext

\* Whoever has changed something, other than by an import, and opens the page
\* after the answer, never sees a list from before it (projectHistory.ts,
\* comments.ts): every list that is kept or on its way was asked for later.
THEOREM OwnWorkIsSeen == MCSpec => []OwnChangesShow
<1>1. MCInit => HInv
  BY HistoryBegins DEF MCInit
<1>2. HInv /\ [MCNext]_<<vars, cloneVars, historyVars, part>> => HInv'
  BY HistoryKeeps DEF MCNext
<1>3. HInv => OwnChangesShow
  BY DEF HInv, PageKnows
<1> QED
  BY <1>1, <1>2, <1>3, PTL DEF MCSpec

-------------------------------------------------------------------------------
(* The history of a project: a list tells the truth.                       *)

DistinctTimes(S) == \A a, b \in S : a.time = b.time => a = b

\* Rows that have been written, each with a time of its own.
Tables ==
    /\ IsFiniteSet(log) /\ IsFiniteSet(comments)
    /\ \A row \in log : row.type = "HISTORY" /\ row.time \in 1..written
    /\ \A c \in comments :
          /\ c = [type |-> "COMMENT", node |-> c.node, time |-> c.time, gone |-> c.gone]
          /\ c.time \in 1..written /\ c.node \in DOMAIN nodes
    /\ DistinctTimes(log \cup comments)

\* A node is there or has its deletion in the history, which knows its titles.
Lives ==
    /\ DOMAIN nodes \subseteq NodeIds /\ IsFiniteSet(DOMAIN nodes)
    /\ \A n \in DOMAIN nodes : nodes[n].title \in TitlesOf(n) /\ nodes[n].was \in TitlesOf(n)
    /\ \A row \in log : row.node \in DOMAIN nodes \/ DeletionOf(row.node) # {}
    /\ \A row \in log : row.action = "DELETE" =>
          row.node \notin DOMAIN nodes /\ row.title \in TitlesOf(row.node)

\* Something that was not read has too many newer ones.
NotLeftOut(S, row) ==
    row \in S \/ (Cardinality(S) = ReadLimit /\ \A x \in S : Newer(x, row))

RowsRead ==
    /\ reading.rows \subseteq log
    /\ \A row \in reading.rows : InWindow(row)
    /\ IF NeedsHistory(Topic)
       THEN \A row \in log :
               InWindow(row) /\ row.time <= reading.asked => NotLeftOut(reading.rows, row)
       ELSE reading.rows = {}

RemarksRead ==
    /\ IsFiniteSet(reading.remarks)
    /\ \A c \in reading.remarks :
          /\ c.type = "COMMENT" /\ c.time \in Int /\ InWindow(c)
          /\ \E row \in log : row.node = c.node
    /\ DistinctTimes(reading.rows \cup reading.remarks)
    /\ IF NeedsComments(Topic)
       THEN \A c \in comments :
               InWindow(c) /\ ~c.gone /\ c.time <= reading.asked => NotLeftOut(reading.remarks, c)
       ELSE reading.remarks = {}

LiveRead ==
    \A n \in Mentioned :
       IF n \in DOMAIN reading.live THEN reading.live[n].title \in TitlesOf(n)
       ELSE DeletionOf(n) # {}

Chosen == selectHistoryByTopic(reading.rows, Topic) \cup reading.remarks

\* What an entry says of the row it is made of.
EntryOf(item, row) ==
    /\ item.time = row.time /\ item.type = row.type /\ item.node = row.node
    /\ item.label = IF row.type = "COMMENT" THEN "COMMENT" ELSE classifyChange(row.action, row.diff)

\* Where the rows S are drawn as items, the newest first, up to the limit.
Shows(S, list) ==
    LET items == list.items
        told  == {items[i].time : i \in DOMAIN items}
    IN
    /\ DOMAIN items = 1..Len(items) /\ Len(items) \in 0..Limit
    /\ \A i, j \in DOMAIN items : i < j => items[i].time > items[j].time
    /\ \A i \in DOMAIN items : \E row \in S : EntryOf(items[i], row)
    /\ \A row \in S :
          row.time \in told \/ (list.truncated /\ \A t \in told : row.time < t)
    /\ list.truncated => Len(items) = Limit
    /\ Cardinality(S) > Limit => list.truncated

TitlesTold ==
    \A i \in DOMAIN reading.list.items :
       LET item == reading.list.items[i]
       IN  item.title \in TitlesOf(item.node) /\ (item.deleted => DeletionOf(item.node) # {})

Past3 == {"history", "comments", "nodes", "answered"}
Past2 == Past3 \ {"history"}
Past1 == Past2 \ {"comments"}

ReadingKnows ==
    /\ {"query", "rows", "remarks", "live", "list"} \subseteq DOMAIN reading
    /\ reading.step \in Past3 => RowsRead
    /\ reading.step \in Past2 => RemarksRead
    /\ reading.step \in Past1 => LiveRead
    /\ reading.step = "answered" => Shows(Chosen, reading.list) /\ TitlesTold

ListInv == Tables /\ Lives /\ ReadingKnows
-------------------------------------------------------------------------------
\* What a rank needs: finitely many rows, each with a time of its own.
Ranked(S) == IsFiniteSet(S) /\ DistinctTimes(S) /\ \A row \in S : row.time \in Int

LEMMA RankedPart ==
    ASSUME NEW S, Ranked(S), NEW T, T \subseteq S
    PROVE  Ranked(T)
  BY FS_Subset DEF Ranked, DistinctTimes

\* The rank counts from the newest, and every number is somebody's.
LEMMA RankFacts ==
    ASSUME NEW S, Ranked(S)
    PROVE  /\ Cardinality(S) \in Nat
           /\ \A x \in S : Rank(S, x) \in 0..(Cardinality(S) - 1)
           /\ \A x, y \in S : Newer(x, y) <=> Rank(S, x) < Rank(S, y)
           /\ \A x, y \in S : Rank(S, x) = Rank(S, y) => x = y
           /\ \A k \in 0..(Cardinality(S) - 1) : \E x \in S : Rank(S, x) = k
<1> DEFINE Above(x) == {y \in S : Newer(y, x)}
           N        == Cardinality(S)
<1>0. IsFiniteSet(S) /\ N \in Nat /\ \A x \in S : x.time \in Int
  BY FS_CardinalityType DEF Ranked
<1>1. ASSUME NEW x \in S PROVE Rank(S, x) \in 0..(N - 1)
  <2>1. Above(x) \subseteq S \ {x}
    BY <1>0 DEF Newer
  <2>2. IsFiniteSet(S \ {x}) /\ Cardinality(S \ {x}) = N - 1
    BY <1>0, FS_RemoveElement
  <2>3. Cardinality(Above(x)) <= N - 1 /\ IsFiniteSet(Above(x))
    BY <2>1, <2>2, FS_Subset
  <2>4. Cardinality(Above(x)) \in Nat
    BY <2>3, FS_CardinalityType
  <2> QED
    BY <1>0, <2>3, <2>4 DEF Rank
<1>2. ASSUME NEW x \in S, NEW y \in S, Newer(x, y) PROVE Rank(S, x) < Rank(S, y)
  <2>1. Above(x) \subseteq Above(y) /\ x \in Above(y) /\ x \notin Above(x)
    BY <1>0, <1>2 DEF Newer
  <2>2. IsFiniteSet(Above(y))
    BY <1>0, FS_Subset
  <2>3. /\ Cardinality(Above(x)) <= Cardinality(Above(y))
        /\ Cardinality(Above(x)) # Cardinality(Above(y))
    BY <2>1, <2>2, FS_Subset
  <2>4. Rank(S, x) \in Int /\ Rank(S, y) \in Int
    BY <1>0, <1>1
  <2> QED
    BY <2>3, <2>4 DEF Rank
<1>3. \A x, y \in S : x = y \/ Newer(x, y) \/ Newer(y, x)
  BY <1>0 DEF Ranked, DistinctTimes, Newer
<1>4. \A x \in S : Rank(S, x) \in Int
  BY <1>0, <1>1
<1>5. \A x, y \in S : Rank(S, x) = Rank(S, y) => x = y
  BY <1>2, <1>3, <1>4
<1>6. \A x, y \in S : Newer(x, y) <=> Rank(S, x) < Rank(S, y)
  BY <1>2, <1>3, <1>4
<1>7. ASSUME NEW k \in 0..(N - 1) PROVE \E x \in S : Rank(S, x) = k
  <2> DEFINE T == 0..(N - 1)
             f == [x \in S |-> Rank(S, x)]
  <2>1. IsFiniteSet(T) /\ Cardinality(T) = N
    BY <1>0, FS_Interval
  <2>2. f \in Injection(S, T)
    BY <1>1, <1>5 DEF Injection, IsInjective
  <2> HIDE DEF T, f
  <2>3. f \in Surjection(S, T)
    BY <2>1, <2>2, FS_Injection
  <2>4. \E x \in S : f[x] = k
    BY <2>3 DEF Surjection, T
  <2> QED
    BY <2>4 DEF f
<1> QED
  BY <1>0, <1>1, <1>5, <1>6, <1>7

LEMMA NewestFirstFacts ==
    ASSUME NEW S, Ranked(S)
    PROVE  /\ NewestFirst(S) \in Seq(S)
           /\ Len(NewestFirst(S)) = Cardinality(S)
           /\ \A i \in 1..Cardinality(S) : NewestFirst(S)[i] \in S
           /\ \A i, j \in 1..Cardinality(S) :
                 i < j => NewestFirst(S)[i].time > NewestFirst(S)[j].time
           /\ \A x \in S : NewestFirst(S)[Rank(S, x) + 1] = x
<1> DEFINE N == Cardinality(S)
           s == NewestFirst(S)
           At(k) == CHOOSE x \in S : Rank(S, x) = k
<1>0. /\ N \in Nat
      /\ \A x, y \in S : Newer(x, y) <=> Rank(S, x) < Rank(S, y)
      /\ \A x, y \in S : Rank(S, x) = Rank(S, y) => x = y
      /\ \A x \in S : Rank(S, x) \in 0..(N - 1)
  BY RankFacts
<1>1. \A k \in 0..(N - 1) : At(k) \in S /\ Rank(S, At(k)) = k
  BY RankFacts
<1>2. s = [i \in 1..N |-> At(i - 1)]
  BY DEF NewestFirst
<1> HIDE DEF At, s, N
<1>3. \A i \in 1..N : s[i] \in S /\ Rank(S, s[i]) = i - 1
  <2> TAKE i \in 1..N
  <2>1. i - 1 \in 0..(N - 1) /\ s[i] = At(i - 1)
    BY <1>0, <1>2
  <2> QED
    BY <1>1, <2>1
<1>4. s \in Seq(S) /\ Len(s) = N
  BY <1>0, <1>2, <1>3
<1>5. ASSUME NEW i \in 1..N, NEW j \in 1..N, i < j PROVE s[i].time > s[j].time
  <2>1. Rank(S, s[i]) < Rank(S, s[j])
    BY <1>0, <1>3, <1>5
  <2> QED
    BY <1>0, <1>3, <2>1 DEF Newer
<1>6. ASSUME NEW x \in S PROVE s[Rank(S, x) + 1] = x
  <2>1. Rank(S, x) + 1 \in 1..N
    BY <1>0
  <2>2. Rank(S, s[Rank(S, x) + 1]) = Rank(S, x)
    BY <1>0, <1>3, <2>1
  <2> QED
    BY <1>0, <1>3, <2>1, <2>2
<1> QED
  BY <1>3, <1>4, <1>5, <1>6 DEF s, N

\* The newest are taken: what is left out has ReadLimit newer ones.
LEMMA TakenFacts ==
    ASSUME NEW S, Ranked(S)
    PROVE  /\ Taken(S) \subseteq S
           /\ \A x \in S : NotLeftOut(Taken(S), x)
<1>0. ReadLimit \in Nat
  BY HistoryAssumption
<1>1. /\ Cardinality(S) \in Nat
      /\ \A x \in S : Rank(S, x) \in 0..(Cardinality(S) - 1)
      /\ \A x, y \in S : Newer(x, y) <=> Rank(S, x) < Rank(S, y)
      /\ \A x, y \in S : Rank(S, x) = Rank(S, y) => x = y
      /\ \A k \in 0..(Cardinality(S) - 1) : \E x \in S : Rank(S, x) = k
  BY RankFacts
<1>2. ASSUME NEW x \in S, x \notin Taken(S)
      PROVE  Cardinality(Taken(S)) = ReadLimit /\ \A y \in Taken(S) : Newer(y, x)
  <2>1. Rank(S, x) >= ReadLimit
    BY <1>0, <1>1, <1>2 DEF Taken
  <2>2. \A y \in Taken(S) : y \in S /\ Rank(S, y) < ReadLimit
    BY DEF Taken
  <2>3. \A y \in Taken(S) : Newer(y, x)
    <3> TAKE y \in Taken(S)
    <3>1. Rank(S, y) < Rank(S, x)
      BY <1>0, <1>1, <2>1, <2>2
    <3> QED
      BY <1>1, <2>2, <3>1
  <2> DEFINE T == 0..(ReadLimit - 1)
             f == [y \in Taken(S) |-> Rank(S, y)]
  <2>4. f \in [Taken(S) -> T]
    BY <1>0, <1>1, <2>2
  <2>5. f \in Injection(Taken(S), T)
    BY <1>1, <2>2, <2>4 DEF Injection, IsInjective
  <2>6. \A k \in T : \E y \in Taken(S) : f[y] = k
    <3> TAKE k \in T
    <3>1. k \in 0..(Cardinality(S) - 1)
      BY <1>0, <1>1, <2>1
    <3>2. PICK y \in S : Rank(S, y) = k
      BY <1>1, <3>1
    <3>3. y \in Taken(S)
      BY <1>0, <3>2 DEF Taken
    <3> QED
      BY <3>2, <3>3
  <2>7. f \in Surjection(Taken(S), T)
    BY <2>4, <2>6 DEF Surjection
  <2>8. IsFiniteSet(T) /\ Cardinality(T) = ReadLimit
    BY <1>0, FS_Interval
  <2> HIDE DEF f, T
  <2>9. Cardinality(Taken(S)) = Cardinality(T)
    BY <2>5, <2>7, <2>8, FS_Injection
  <2> QED
    BY <2>3, <2>8, <2>9
<1>3. Taken(S) \subseteq S
  BY DEF Taken
<1> QED
  BY <1>2, <1>3 DEF NotLeftOut

EntriesOf(S, meta) == {Entry(row, meta) : row \in S}

\* The rows S, each drawn as one entry, make the list that Shows describes.
LEMMA ListShows ==
    ASSUME NEW S, Ranked(S), NEW meta, NEW items,
           items = NewestFirst(EntriesOf(S, meta))
    PROVE  /\ Shows(S, [items |-> Cut(items), truncated |-> Len(items) > Limit])
           /\ \A i \in DOMAIN Cut(items) : \E row \in S : Cut(items)[i] = Entry(row, meta)
<1> DEFINE E == {Entry(row, meta) : row \in S}
           f == [row \in S |-> Entry(row, meta)]
           N == Cardinality(E)
           M == IF N > Limit THEN Limit ELSE N
           list == [items |-> Cut(items), truncated |-> Len(items) > Limit]
<1>0. Limit \in Nat \ {0}
  BY HistoryAssumption
<1>1. \A row \in S : Entry(row, meta).time = row.time
  BY DEF Entry
<1>2. f \in Surjection(S, E) /\ f \in Injection(S, E)
  <2>1. f \in [S -> E] /\ \A e \in E : \E row \in S : f[row] = e
    OBVIOUS
  <2>2. \A a, b \in S : f[a] = f[b] => a = b
    <3> TAKE a, b \in S
    <3>1. f[a].time = a.time /\ f[b].time = b.time
      BY <1>1
    <3> QED
      BY <3>1 DEF Ranked, DistinctTimes
  <2> QED
    BY <2>1, <2>2 DEF Surjection, Injection, IsInjective
<1>3. IsFiniteSet(E) /\ N = Cardinality(S)
  <2> HIDE DEF f, E
  <2>1. IsFiniteSet(S)
    BY DEF Ranked
  <2>2. IsFiniteSet(E)
    BY <1>2, <2>1, FS_Surjection
  <2>3. Cardinality(S) = Cardinality(E)
    BY <1>2, <2>2, FS_Injection
  <2> QED
    BY <2>2, <2>3
<1>4. Ranked(E)
  <2>1. \A e \in E : e.time \in Int
    BY <1>1 DEF Ranked
  <2>2. \A a, b \in E : a.time = b.time => a = b
    BY <1>1 DEF Ranked, DistinctTimes
  <2> QED
    BY <1>3, <2>1, <2>2 DEF Ranked, DistinctTimes
<1>5. /\ items \in Seq(E) /\ Len(items) = N /\ N \in Nat
      /\ \A i \in 1..N : items[i] \in E
      /\ \A i, j \in 1..N : i < j => items[i].time > items[j].time
      /\ \A e \in E : items[Rank(E, e) + 1] = e /\ Rank(E, e) \in 0..(N - 1)
  <2> HIDE DEF E
  <2>1. items = NewestFirst(E)
    BY DEF E, EntriesOf
  <2>2. /\ items \in Seq(E) /\ Len(items) = N
        /\ \A i \in 1..N : items[i] \in E
        /\ \A i, j \in 1..N : i < j => items[i].time > items[j].time
        /\ \A e \in E : items[Rank(E, e) + 1] = e
    BY <1>4, <2>1, NewestFirstFacts
  <2>3. N \in Nat /\ \A e \in E : Rank(E, e) \in 0..(N - 1)
    BY <1>4, RankFacts
  <2> QED
    BY <2>2, <2>3
<1>6. /\ M \in 0..N /\ M <= Limit
      /\ Cut(items) \in Seq(E) /\ Len(Cut(items)) = M /\ DOMAIN Cut(items) = 1..M
      /\ \A i \in 1..M : Cut(items)[i] = items[i]
  <2> HIDE DEF E
  <2>0. Cut(items) = SubSeq(items, 1, M)
    BY <1>5 DEF Cut
  <2>1. Cut(items) = SubSeq(items, 1, M) /\ M \in 0..N /\ M <= Limit
    BY <1>0, <1>5, <2>0
  <2> HIDE DEF M, N
  <2>2. SubSeq(items, 1, M) = [i \in 1..M |-> items[i]]
    BY <1>5, <2>1
  <2>3. \A i \in 1..M : items[i] \in E
    BY <1>5, <2>1
  <2> QED
    BY <1>5, <2>1, <2>2, <2>3
<1>7. \A i \in 1..M : \E row \in S : Cut(items)[i] = Entry(row, meta)
  <2> TAKE i \in 1..M
  <2>1. items[i] \in E
    <3> HIDE DEF E, M, N
    <3> QED
      BY <1>5, <1>6
  <2> QED
    BY <1>6, <2>1
<1>8. Shows(S, list)
  <2> DEFINE told == {Cut(items)[i].time : i \in DOMAIN Cut(items)}
  <2>0. list.items = Cut(items) /\ list.truncated = (N > Limit)
    BY <1>5
  <2>1. \A i, j \in DOMAIN Cut(items) : i < j => Cut(items)[i].time > Cut(items)[j].time
    <3> HIDE DEF E, f
    <3> TAKE i, j \in DOMAIN Cut(items)
    <3> HIDE DEF M, N
    <3>0. i \in 1..M /\ j \in 1..M /\ M \in 0..N /\ N \in Nat
      BY <1>5, <1>6
    <3>1. i \in 1..N /\ j \in 1..N
      BY <3>0
    <3>2. Cut(items)[i] = items[i] /\ Cut(items)[j] = items[j]
      BY <1>6, <3>0
    <3> QED
      BY <1>5, <3>1, <3>2
  <2>2. \A i \in DOMAIN Cut(items) : \E row \in S : EntryOf(Cut(items)[i], row)
    <3> TAKE i \in DOMAIN Cut(items)
    <3>1. PICK row \in S : Cut(items)[i] = Entry(row, meta)
      BY <1>6, <1>7
    <3>2. EntryOf(Entry(row, meta), row)
      BY DEF Entry, EntryOf
    <3> QED
      BY <3>1, <3>2
  <2>3. ASSUME NEW row \in S
        PROVE  row.time \in told \/ (N > Limit /\ \A t \in told : row.time < t)
    <3> DEFINE k == Rank(E, f[row]) + 1
    <3>1. f[row] \in E /\ f[row].time = row.time
      BY <1>1
    <3> HIDE DEF f, E
    <3>2. k \in 1..N /\ items[k].time = row.time
      BY <1>5, <3>1
    <3>3. CASE k <= M
      <4>1. k \in DOMAIN Cut(items) /\ Cut(items)[k].time = row.time
        BY <1>6, <3>2, <3>3
      <4> QED
        BY <4>1
    <3>4. CASE ~(k <= M)
      <4>1. N > Limit /\ M < k
        BY <1>0, <1>5, <1>6, <3>2, <3>4
      <4>2. \A i \in 1..M : items[i].time > items[k].time
        BY <1>5, <1>6, <3>2, <4>1
      <4>3. \A i \in DOMAIN Cut(items) : Cut(items)[i].time > row.time
        BY <1>6, <3>2, <4>2
      <4>4. \A i \in DOMAIN Cut(items) : Cut(items)[i].time \in Int
        <5> TAKE i \in DOMAIN Cut(items)
        <5>1. Cut(items)[i] \in E
          BY <1>5, <1>6
        <5> QED
          BY <1>4, <5>1 DEF Ranked
      <4>5. row.time \in Int
        BY DEF Ranked
      <4> QED
        BY <4>1, <4>3, <4>4, <4>5
    <3> QED
      BY <3>3, <3>4
  <2>4. N > Limit => Len(Cut(items)) = Limit
    BY <1>6
  <2> HIDE DEF E, f
  <2> QED
    <3> HIDE DEF list, told, M, N
    <3>1. told = {list.items[i].time : i \in DOMAIN list.items}
      BY <2>0 DEF told
    <3>2. \A row \in S : row.time \in told \/ (list.truncated /\ \A t \in told : row.time < t)
      BY <2>0, <2>3
    <3>3. Cardinality(S) > Limit => list.truncated
      BY <1>3, <2>0 DEF N
    <3>4. DOMAIN list.items = 1..Len(list.items) /\ Len(list.items) \in 0..Limit
      BY <1>0, <1>5, <1>6, <2>0
    <3> QED
      BY <1>6, <2>0, <2>1, <2>2, <2>4, <3>1, <3>2, <3>3, <3>4 DEF Shows
<1> QED
  BY <1>6, <1>7, <1>8

LEMMA ClassesOfChanges ==
    /\ \A diff : classifyChange("DELETE", diff) = "DELETE"
    /\ \A diff : "down" \in diff => classifyChange("UPDATE", diff) = "PROGRESS_DOWN"
<1>1. ASSUME NEW diff PROVE classifyChange("DELETE", diff) = "DELETE"
  BY DEF classifyChange
<1>2. ASSUME NEW diff, "down" \in diff PROVE classifyChange("UPDATE", diff) = "PROGRESS_DOWN"
  BY <1>2 DEF classifyChange, isProgressDown
<1> QED
  BY <1>1, <1>2

LEMMA WindowIsOfTheRequest ==
    ASSUME reading'.query = reading.query, reading'.asked = reading.asked
    PROVE  /\ Topic' = Topic
           /\ \A row : InWindow(row)' <=> InWindow(row)
  BY DEF Topic, InWindow, resolveWindow

\* What was answered tells the truth, whatever has been written since.
LEMMA AnswerTellsTruth ==
    ASSUME ListInv, Underway, reading.step = "answered"
    PROVE  ListTellsTruth
<1> DEFINE items  == reading.list.items
           told   == {items[i].time : i \in DOMAIN items}
           trunc  == reading.list.truncated
           Window == {row \in log : InWindow(row)}
<1>0. Limit \in Nat \ {0} /\ ReadLimit \in Nat /\ ReadLimit > Limit
  BY HistoryAssumption
<1>1. Tables /\ Lives /\ RowsRead /\ RemarksRead /\ Shows(Chosen, reading.list) /\ TitlesTold
  BY DEF ListInv, ReadingKnows, Past3, Past2, Past1
<1>2. /\ DOMAIN items = 1..Len(items) /\ Len(items) \in 0..Limit
      /\ \A i, j \in DOMAIN items : i < j => items[i].time > items[j].time
      /\ \A i \in DOMAIN items : \E row \in Chosen : EntryOf(items[i], row)
      /\ \A row \in Chosen : row.time \in told \/ (trunc /\ \A t \in told : row.time < t)
      /\ trunc => Len(items) = Limit
      /\ Cardinality(Chosen) > Limit => trunc
  BY <1>1 DEF Shows
<1>3. IsFiniteSet(Chosen) /\ Cardinality(Chosen) \in Nat
  <2>1. IsFiniteSet(reading.rows) /\ IsFiniteSet(reading.remarks)
    BY <1>1, FS_Subset DEF Tables, RowsRead, RemarksRead
  <2>2. Chosen \subseteq reading.rows \cup reading.remarks
    BY DEF Chosen, selectHistoryByTopic
  <2>3. IsFiniteSet(reading.rows \cup reading.remarks)
    BY <2>1, FS_Union
  <2>4. IsFiniteSet(Chosen)
    BY <2>2, <2>3, FS_Subset
  <2> QED
    BY <2>4, FS_CardinalityType
<1>4. \A row \in Chosen : row.time \in Int
  BY <1>1 DEF Chosen, selectHistoryByTopic, Tables, RowsRead, RemarksRead
<1>5. ASSUME NEW i \in DOMAIN items
      PROVE  /\ InWindow(items[i])
             /\ items[i].type = "COMMENT" => NeedsComments(Topic)
             /\ Topic = "DELETED" => items[i].label = "DELETE"
             /\ Topic = "PROGRESS_DOWN" => items[i].label = "PROGRESS_DOWN"
             /\ items[i].title \in TitlesOf(items[i].node)
             /\ items[i].deleted => items[i].node \notin DOMAIN nodes
  <2>1. PICK row \in Chosen : EntryOf(items[i], row)
    BY <1>2
  <2>2. InWindow(items[i])
    <3>1. InWindow(row) /\ items[i].time = row.time
      BY <1>1, <2>1 DEF Chosen, selectHistoryByTopic, RowsRead, RemarksRead, EntryOf
    <3> QED
      BY <3>1 DEF InWindow
  <2>3. items[i].title \in TitlesOf(items[i].node)
    BY <1>1 DEF TitlesTold
  <2>4. items[i].deleted => items[i].node \notin DOMAIN nodes
    BY <1>1 DEF TitlesTold, DeletionOf, Lives
  <2>5. CASE row \in reading.remarks
    <3>1. NeedsComments(Topic)
      BY <1>1, <2>5 DEF RemarksRead
    <3>2. Topic # "DELETED" /\ Topic # "PROGRESS_DOWN"
      BY <3>1 DEF NeedsComments
    <3> QED
      BY <2>2, <2>3, <2>4, <3>1, <3>2
  <2>6. CASE row \in reading.rows /\ IsOfTopic(row, Topic)
    <3>1. row.type = "HISTORY"
      BY <1>1, <2>6 DEF RowsRead, Tables
    <3>2. items[i].type # "COMMENT" /\ items[i].label = classifyChange(row.action, row.diff)
      BY <2>1, <3>1 DEF EntryOf
    <3>3. ASSUME Topic = "DELETED" PROVE items[i].label = "DELETE"
      <4>1. row.action = "DELETE"
        BY <2>6, <3>3 DEF IsOfTopic
      <4> QED
        BY <3>2, <4>1, ClassesOfChanges
    <3>4. ASSUME Topic = "PROGRESS_DOWN" PROVE items[i].label = "PROGRESS_DOWN"
      <4>1. row.action = "UPDATE" /\ "down" \in row.diff
        BY <2>6, <3>4 DEF IsOfTopic, isProgressDown
      <4> QED
        BY <3>2, <4>1, ClassesOfChanges
    <3> QED
      BY <2>2, <2>3, <2>4, <3>2, <3>3, <3>4
  <2> QED
    BY <2>5, <2>6 DEF Chosen, selectHistoryByTopic
<1>6. DistinctTimes(Chosen)
  BY <1>1 DEF RemarksRead, Chosen, selectHistoryByTopic, DistinctTimes
<1>7. ASSUME NEW S, S \subseteq Chosen, NEW w, w.time \in Int,
             Cardinality(S) = ReadLimit, \A x \in S : Newer(x, w)
      PROVE  w.time \in told \/ (trunc /\ \A t \in told : w.time < t)
  \* One of the many newer ones found no place in the list itself.
  <2>1. PICK x \in S : x.time \notin told
    <3> SUFFICES ASSUME \A x \in S : x.time \in told PROVE FALSE
      OBVIOUS
    <3> DEFINE T == DOMAIN items
               f == [x \in S |-> CHOOSE i \in T : items[i].time = x.time]
    <3>1. \A x \in S : \E i \in T : items[i].time = x.time
      OBVIOUS
    <3>2. f \in [S -> T] /\ \A x \in S : items[f[x]].time = x.time
      BY <3>1
    <3>3. IsFiniteSet(T) /\ Cardinality(T) < ReadLimit
      <4> DEFINE n == Len(items)
      <4>1. T = 1..n /\ n \in 0..Limit
        BY <1>2
      <4> HIDE DEF n, T
      <4>2. n \in Int /\ n <= Limit /\ n >= 0
        BY <1>0, <4>1
      <4>3. IsFiniteSet(1..n) /\ Cardinality(1..n) = IF 1 > n THEN 0 ELSE n - 1 + 1
        BY <4>2, FS_Interval
      <4> QED
        BY <1>0, <4>1, <4>2, <4>3
    <3>4. IsFiniteSet(S)
      BY <1>3, <1>7, FS_Subset
    <3> HIDE DEF T, f
    <3>5. PICK x, y \in S : x # y /\ f[x] = f[y]
      BY <1>7, <3>2, <3>3, <3>4, FS_PigeonHole
    <3>6. x.time = y.time
      BY <3>2, <3>5
    <3> QED
      BY <1>7, <1>6, <3>5, <3>6 DEF DistinctTimes
  <2>2. x.time \in Int /\ x.time > w.time
    BY <1>4, <1>7 DEF Newer
  <2>3. trunc /\ \A t \in told : x.time < t
    BY <1>2, <1>7, <2>1
  <2>4. \A t \in told : t \in Int
    BY <1>2, <1>4 DEF EntryOf
  <2> HIDE DEF told, trunc
  <2> QED
    BY <1>7, <2>2, <2>3, <2>4
<1>8. ASSUME ReadEnough, NEW w \in Wanted
      PROVE  w.time \in told \/ (trunc /\ \A t \in told : w.time < t)
  <2>1. CASE w \in comments /\ InWindow(w) /\ ~w.gone /\ NeedsComments(Topic)
             /\ w.time <= reading.asked
    <3>1. NotLeftOut(reading.remarks, w) /\ w.time \in Int
      BY <1>1, <2>1 DEF RemarksRead, Tables
    <3>2. reading.remarks \subseteq Chosen
      BY DEF Chosen
    <3> QED
      BY <1>2, <1>7, <3>1, <3>2 DEF NotLeftOut
  <2>2. CASE w \in log /\ InWindow(w) /\ IsOfTopic(w, Topic) /\ w.time <= reading.asked
    <3>0. NeedsHistory(Topic)
      BY <2>2 DEF IsOfTopic, NeedsHistory
    <3>1. NotLeftOut(reading.rows, w) /\ w.time \in Int
      BY <1>1, <2>2, <3>0 DEF RowsRead, Tables
    <3>2. CASE w \in reading.rows
      BY <1>2, <2>2, <3>2 DEF Chosen, selectHistoryByTopic
    <3>3. CASE w \notin reading.rows
      <4>1. Cardinality(reading.rows) = ReadLimit /\ \A x \in reading.rows : Newer(x, w)
        BY <3>1, <3>3 DEF NotLeftOut
      <4>2. CASE Topic = "ALL"
        <5>1. reading.rows \subseteq Chosen
          BY <4>2 DEF Chosen, selectHistoryByTopic, IsOfTopic
        <5> QED
          BY <1>7, <3>1, <4>1, <5>1
      <4>3. CASE Topic # "ALL"
        <5>1. Cardinality(Window) <= ReadLimit
          BY <1>8, <3>0, <4>3 DEF ReadEnough, NeedsHistory
        <5>2. IsFiniteSet(Window) /\ IsFiniteSet(reading.rows)
          BY <1>1, FS_Subset DEF Tables, RowsRead
        <5>3. reading.rows \cup {w} \subseteq Window
          BY <1>1, <2>2 DEF RowsRead
        <5>4. Cardinality(reading.rows \cup {w}) = ReadLimit + 1
          BY <3>3, <4>1, <5>2, FS_AddElement
        <5> HIDE DEF Window
        <5>5. Cardinality(reading.rows \cup {w}) <= Cardinality(Window) /\ Cardinality(Window) \in Nat
          BY <5>2, <5>3, FS_Subset, FS_CardinalityType
        <5> QED
          BY <1>0, <5>1, <5>4, <5>5
      <4> QED
        BY <4>2, <4>3
    <3> QED
      BY <3>2, <3>3
  <2> QED
    BY <1>8, <2>1, <2>2 DEF Wanted
<1> HIDE DEF items, told, trunc
<1> QED
  BY <1>2, <1>5, <1>8 DEF ListTellsTruth, items, told, trunc

LEMMA ListBegins == HistoryInit => ListInv
<1> SUFFICES ASSUME HistoryInit PROVE ListInv
  OBVIOUS
<1>1. DOMAIN nodes = {} /\ log = {} /\ comments = {} /\ reading.step = "idle"
  BY DEF HistoryInit, NoReading
<1>2. Tables
  BY <1>1, FS_EmptySet DEF Tables, DistinctTimes
<1>3. Lives
  BY <1>1, FS_EmptySet DEF Lives
<1>4. ReadingKnows
  BY <1>1 DEF HistoryInit, NoReading, ReadingKnows, Past3, Past2, Past1
<1> QED
  BY <1>2, <1>3, <1>4 DEF ListInv

\* What a write does to the tables: the history grows by later rows, of the
\* comments that were there none that can be read is new.
Grow ==
    /\ log \subseteq log'
    /\ \A row \in log' : row \in log \/ row.time > written
    /\ \A c \in comments' : c \in comments \/ c.gone \/ c.time > written

\* What is known of the reads stays true.
LEMMA StaysRead ==
    ASSUME ReadingKnows, Underway, Tables, Tables', Grow, reading' = reading, written \in Nat
    PROVE  ReadingKnows'
<1>1. /\ Topic' = Topic /\ \A row : InWindow(row)' <=> InWindow(row)
      /\ reading.asked \in Nat /\ reading.asked <= written
      /\ \A row \in log : row.time \in Int
      /\ \A row \in log' : row.time \in Int
      /\ \A c \in comments' : c.time \in Int
  BY WindowIsOfTheRequest DEF Underway, Tables
<1>2. \A n : TitlesOf(n) \subseteq TitlesOf(n)' /\ DeletionOf(n) \subseteq DeletionOf(n)'
  BY DEF Grow, TitlesOf, DeletionOf
<1>3. ASSUME RowsRead PROVE RowsRead'
  <2>1. /\ reading.rows \subseteq log /\ \A row \in reading.rows : InWindow(row)
        /\ ~NeedsHistory(Topic) => reading.rows = {}
    BY <1>3 DEF RowsRead
  <2>2. ASSUME NEW row \in log', NeedsHistory(Topic), InWindow(row), row.time <= reading.asked
        PROVE  NotLeftOut(reading.rows, row)
    <3>1. row \in log
      BY <1>1, <2>2 DEF Grow
    <3> QED
      BY <1>3, <2>2, <3>1 DEF RowsRead
  <2>3. \A S, row : NotLeftOut(S, row)' <=> NotLeftOut(S, row)
    BY DEF NotLeftOut
  <2> QED
    BY <1>1, <2>1, <2>2 DEF RowsRead, Grow, NeedsHistory, NotLeftOut, Newer
<1>4. ASSUME RemarksRead PROVE RemarksRead'
  <2>1. /\ IsFiniteSet(reading.remarks)
        /\ \A c \in reading.remarks :
              /\ c.type = "COMMENT" /\ c.time \in Int /\ InWindow(c)
              /\ \E row \in log : row.node = c.node
        /\ DistinctTimes(reading.rows \cup reading.remarks)
        /\ ~NeedsComments(Topic) => reading.remarks = {}
    BY <1>4 DEF RemarksRead
  <2>2. ASSUME NEW c \in comments', NeedsComments(Topic), InWindow(c), ~c.gone,
               c.time <= reading.asked
        PROVE  NotLeftOut(reading.remarks, c)
    <3>1. c \in comments
      BY <1>1, <2>2 DEF Grow
    <3> QED
      BY <1>4, <2>2, <3>1 DEF RemarksRead
  <2>3. \A c \in reading.remarks : \E row \in log' : row.node = c.node
    BY <2>1 DEF Grow
  <2> QED
    BY <1>1, <2>1, <2>2, <2>3 DEF RemarksRead, NeedsComments, NotLeftOut, Newer, DistinctTimes
<1>5. ASSUME LiveRead PROVE LiveRead'
  <2>1. Mentioned' = Mentioned
    BY DEF Mentioned
  <2> QED
    BY <1>2, <1>5, <2>1 DEF LiveRead
<1>6. ASSUME Shows(Chosen, reading.list) /\ TitlesTold
      PROVE  Shows(Chosen, reading.list)' /\ TitlesTold'
  <2>1. Chosen' = Chosen
    BY DEF Chosen, Topic, selectHistoryByTopic
  <2>2. Shows(Chosen, reading.list)'
    BY <1>6, <2>1 DEF Shows
  <2>3. TitlesTold'
    BY <1>2, <1>6 DEF TitlesTold
  <2> QED
    BY <2>2, <2>3
<1> QED
  BY <1>3, <1>4, <1>5, <1>6 DEF ReadingKnows

\* A request that has read nothing yet knows nothing.
LEMMA NothingReadYet ==
    ASSUME reading' = NoReading \/ (\E query : reading' = Ask(query))
    PROVE  ReadingKnows'
<1>1. /\ NoReading.step = "idle"
      /\ DOMAIN NoReading = {"step", "asked", "query", "rows", "remarks", "live", "list"}
  BY DEF NoReading
<1>2. ASSUME NEW query
      PROVE  Ask(query).step = "sent" /\ DOMAIN Ask(query) = DOMAIN NoReading
  BY <1>1 DEF Ask
<1>3. reading'.step \in {"idle", "sent"} /\ DOMAIN reading' = DOMAIN NoReading
  BY <1>1, <1>2
<1> QED
  BY <1>1, <1>3 DEF ReadingKnows, Past3, Past2, Past1

-------------------------------------------------------------------------------
(* The four reads                                                          *)

\* The tables are as they were.
LEMMA TablesStay ==
    ASSUME Tables, Lives, UNCHANGED dataVars
    PROVE  /\ Tables' /\ Lives'
           /\ log' = log /\ comments' = comments /\ nodes' = nodes
           /\ \A n : TitlesOf(n)' = TitlesOf(n) /\ DeletionOf(n)' = DeletionOf(n)
<1>1. log' = log /\ comments' = comments /\ nodes' = nodes /\ written' = written
  BY DEF dataVars
<1> QED
  BY <1>1 DEF Tables, Lives, DistinctTimes, TitlesOf, DeletionOf

LEMMA WindowsAreRanked ==
    ASSUME Tables, written \in Nat
    PROVE  Ranked(log) /\ Ranked(comments)
  BY DEF Tables, Ranked, DistinctTimes

LEMMA ReadHistoryKeeps ==
    ASSUME ListInv, written \in Nat, Underway, ReadHistory PROVE ListInv'
<1> DEFINE Window == {row \in log : InWindow(row)}
           rows   == IF NeedsHistory(Topic) THEN TakeHistory(Window) ELSE {}
<1>0. Tables /\ Lives /\ ReadingKnows
  BY DEF ListInv
<1>1. /\ UNCHANGED dataVars /\ reading.step = "sent"
      /\ reading' = [reading EXCEPT !.step = "history", !.rows = rows]
  BY DEF ReadHistory
<1>2. /\ Tables' /\ Lives' /\ log' = log
  BY <1>0, <1>1, TablesStay
<1> HIDE DEF rows
<1>3. /\ reading'.step = "history" /\ reading'.rows = rows
      /\ reading'.query = reading.query /\ reading'.asked = reading.asked
      /\ DOMAIN reading' = DOMAIN reading
  BY <1>0, <1>1 DEF Underway, ReadingKnows
<1>4. Topic' = Topic /\ \A row : InWindow(row)' <=> InWindow(row)
  BY <1>3, WindowIsOfTheRequest
<1>5. /\ rows \subseteq Window
      /\ NeedsHistory(Topic) => \A row \in Window : NotLeftOut(rows, row)
      /\ ~NeedsHistory(Topic) => rows = {}
  <2>1. Ranked(Window)
    BY <1>0, WindowsAreRanked, RankedPart
  <2>2. Taken(Window) \subseteq Window /\ \A row \in Window : NotLeftOut(Taken(Window), row)
    <3> HIDE DEF Window
    <3> QED
      BY <2>1, TakenFacts
  <2> QED
    BY <2>2 DEF rows, TakeHistory
<1>6. RowsRead'
  <2>1. \A S, row : NotLeftOut(S, row)' <=> NotLeftOut(S, row)
    BY DEF NotLeftOut, Newer
  <2>2. rows \subseteq log /\ \A row \in rows : InWindow(row)
    BY <1>5
  <2>3. \A row \in log : NeedsHistory(Topic) /\ InWindow(row) => NotLeftOut(rows, row)
    BY <1>5
  <2> HIDE DEF Window
  <2> QED
    BY <1>2, <1>3, <1>4, <1>5, <2>1, <2>2, <2>3 DEF RowsRead, NeedsHistory
<1>7. ReadingKnows'
  BY <1>0, <1>3, <1>6 DEF ReadingKnows, Past3, Past2, Past1
<1> QED
  BY <1>2, <1>7 DEF ListInv

LEMMA ReadCommentsKeeps ==
    ASSUME ListInv, written \in Nat, Underway, ReadComments PROVE ListInv'
<1> DEFINE Window  == {c \in comments : InWindow(c) /\ ~c.gone}
           remarks == IF NeedsComments(Topic) THEN Taken(Window) ELSE {}
<1>0. Tables /\ Lives /\ ReadingKnows
  BY DEF ListInv
<1>1. /\ UNCHANGED dataVars /\ reading.step = "history"
      /\ reading' = [reading EXCEPT !.step = "comments", !.remarks = remarks]
  BY DEF ReadComments
<1>2. /\ Tables' /\ Lives' /\ log' = log /\ comments' = comments
  BY <1>0, <1>1, TablesStay
<1> HIDE DEF remarks
<1>3. /\ reading'.step = "comments" /\ reading'.remarks = remarks
      /\ reading'.query = reading.query /\ reading'.asked = reading.asked
      /\ reading'.rows = reading.rows
      /\ DOMAIN reading' = DOMAIN reading
  BY <1>0, <1>1 DEF Underway, ReadingKnows
<1>4. Topic' = Topic /\ \A row : InWindow(row)' <=> InWindow(row)
  BY <1>3, WindowIsOfTheRequest
<1>5. RowsRead
  BY <1>0, <1>1 DEF ReadingKnows, Past3
<1>6. RowsRead'
  BY <1>2, <1>3, <1>4, <1>5 DEF RowsRead, NeedsHistory, NotLeftOut, Newer
<1>7. Ranked(Window)
  BY <1>0, WindowsAreRanked, RankedPart
<1>8. /\ remarks \subseteq Window /\ IsFiniteSet(remarks)
      /\ NeedsComments(Topic) => \A c \in Window : NotLeftOut(remarks, c)
      /\ ~NeedsComments(Topic) => remarks = {}
  <2>1. Taken(Window) \subseteq Window /\ \A c \in Window : NotLeftOut(Taken(Window), c)
    <3> HIDE DEF Window
    <3> QED
      BY <1>7, TakenFacts
  <2>2. IsFiniteSet(Window)
    BY <1>7 DEF Ranked
  <2>3. remarks \subseteq Window
    BY <2>1 DEF remarks
  <2> HIDE DEF Window
  <2> QED
    BY <2>1, <2>2, <2>3, FS_Subset DEF remarks
<1>9. RemarksRead'
  <2>1. remarks \subseteq comments /\ \A c \in remarks : InWindow(c)
    BY <1>8
  <2>2. \A c \in comments : NeedsComments(Topic) /\ InWindow(c) /\ ~c.gone => NotLeftOut(remarks, c)
    BY <1>8
  <2>3. \A c \in remarks : c.type = "COMMENT" /\ c.time \in Int /\ \E row \in log : row.node = c.node
    <3> TAKE c \in remarks
    <3>1. c.type = "COMMENT" /\ c.time \in Int /\ c.node \in DOMAIN nodes
      BY <1>0, <2>1 DEF Tables
    <3>2. nodes[c.node].title \in TitlesOf(c.node)
      BY <1>0, <3>1 DEF Lives
    <3> QED
      BY <3>1, <3>2 DEF TitlesOf
  <2>4. DistinctTimes(reading.rows \cup remarks)
    BY <1>0, <1>5, <2>1 DEF RowsRead, Tables, DistinctTimes
  <2> HIDE DEF Window
  <2> QED
    BY <1>2, <1>3, <1>4, <1>8, <2>1, <2>2, <2>3, <2>4
       DEF RemarksRead, NeedsComments, NotLeftOut, Newer, DistinctTimes
<1>10. ReadingKnows'
  BY <1>0, <1>3, <1>6, <1>9 DEF ReadingKnows, Past3, Past2, Past1
<1> QED
  BY <1>2, <1>10 DEF ListInv

\* What was read before is kept when the tables and the fields stay.
LEMMA ReadsStay ==
    ASSUME Tables, Lives, UNCHANGED dataVars, RowsRead, RemarksRead,
           reading'.query = reading.query, reading'.asked = reading.asked,
           reading'.rows = reading.rows, reading'.remarks = reading.remarks
    PROVE  RowsRead' /\ RemarksRead' /\ Mentioned' = Mentioned /\ Chosen' = Chosen
<1>1. log' = log /\ comments' = comments
  BY TablesStay
<1>2. Topic' = Topic /\ \A row : InWindow(row)' <=> InWindow(row)
  BY WindowIsOfTheRequest
<1>3. RowsRead'
  BY <1>1, <1>2 DEF RowsRead, NeedsHistory, NotLeftOut, Newer
<1>4. RemarksRead'
  BY <1>1, <1>2 DEF RemarksRead, NeedsComments, NotLeftOut, Newer, DistinctTimes
<1>5. Mentioned' = Mentioned /\ Chosen' = Chosen
  BY <1>2 DEF Mentioned, Chosen, selectHistoryByTopic
<1> QED
  BY <1>3, <1>4, <1>5

LEMMA ReadNodesKeeps ==
    ASSUME ListInv, Underway, ReadNodes PROVE ListInv'
<1>0. Tables /\ Lives /\ ReadingKnows
  BY DEF ListInv
<1>1. /\ UNCHANGED dataVars /\ reading.step = "comments"
      /\ reading' = [reading EXCEPT !.step = "nodes", !.live = nodes]
  BY DEF ReadNodes
<1>2. /\ reading'.step = "nodes" /\ reading'.live = nodes
      /\ reading'.query = reading.query /\ reading'.asked = reading.asked
      /\ reading'.rows = reading.rows /\ reading'.remarks = reading.remarks
      /\ DOMAIN reading' = DOMAIN reading
  BY <1>0, <1>1 DEF Underway, ReadingKnows
<1>3. RowsRead /\ RemarksRead
  BY <1>0, <1>1 DEF ReadingKnows, Past3, Past2
<1>4. /\ Tables' /\ Lives'
      /\ \A n : TitlesOf(n)' = TitlesOf(n) /\ DeletionOf(n)' = DeletionOf(n)
  BY <1>0, <1>1, TablesStay
<1>5. RowsRead' /\ RemarksRead' /\ Mentioned' = Mentioned
  BY <1>0, <1>1, <1>2, <1>3, ReadsStay
<1>6. \A n \in Mentioned : \E row \in log : row.node = n
  BY <1>3 DEF Mentioned, RowsRead, RemarksRead
<1>7. LiveRead'
  <2>1. \A n \in Mentioned : n \in DOMAIN nodes \/ DeletionOf(n) # {}
    BY <1>0, <1>6 DEF Lives
  <2>2. \A n \in DOMAIN nodes : nodes[n].title \in TitlesOf(n)
    BY <1>0 DEF Lives
  <2> QED
    BY <1>2, <1>4, <1>5, <2>1, <2>2 DEF LiveRead
<1>8. ReadingKnows'
  BY <1>0, <1>2, <1>5, <1>7 DEF ReadingKnows, Past3, Past2, Past1
<1> QED
  BY <1>4, <1>8 DEF ListInv

LEMMA AnswerListKeeps ==
    ASSUME ListInv, written \in Nat, Underway, AnswerList PROVE ListInv'
<1> DEFINE meta == [n \in Mentioned |->
                      IF n \in DOMAIN reading.live
                      THEN [title |-> reading.live[n].title, deleted |-> FALSE]
                      ELSE [title |-> TitleOfDead(n), deleted |-> TRUE]]
           list == buildProjectHistory(reading.rows, reading.remarks, meta, Topic)
<1>0. Tables /\ Lives /\ ReadingKnows
  BY DEF ListInv
<1>1. /\ UNCHANGED dataVars /\ reading.step = "nodes"
      /\ reading' = [reading EXCEPT !.step = "answered", !.list = list]
  BY DEF AnswerList
<1>2. RowsRead /\ RemarksRead /\ LiveRead
  BY <1>0, <1>1 DEF ReadingKnows, Past3, Past2, Past1
<1>3. \A n \in Mentioned :
         meta[n].title \in TitlesOf(n) /\ (meta[n].deleted => DeletionOf(n) # {})
  <2> TAKE n \in Mentioned
  <2>1. CASE n \in DOMAIN reading.live
    BY <1>2, <2>1 DEF LiveRead
  <2>2. CASE n \notin DOMAIN reading.live
    <3>1. DeletionOf(n) # {}
      BY <1>2, <2>2 DEF LiveRead
    <3>2. \A row \in DeletionOf(n) : row.title \in TitlesOf(n)
      BY <1>0 DEF Lives, DeletionOf
    <3>3. TitleOfDead(n) \in TitlesOf(n)
      BY <3>1, <3>2 DEF TitleOfDead
    <3> QED
      BY <2>2, <3>1, <3>3
  <2> QED
    BY <2>1, <2>2
<1> HIDE DEF meta
<1>4. Ranked(Chosen)
  <2>1. Chosen \subseteq reading.rows \cup reading.remarks
    BY DEF Chosen, selectHistoryByTopic
  <2>2. IsFiniteSet(reading.rows) /\ IsFiniteSet(reading.remarks)
    BY <1>0, <1>2, FS_Subset DEF Tables, RowsRead, RemarksRead
  <2>3. IsFiniteSet(reading.rows \cup reading.remarks)
    BY <2>2, FS_Union
  <2>4. \A row \in reading.rows \cup reading.remarks : row.time \in Int
    BY <1>0, <1>2 DEF Tables, RowsRead, RemarksRead
  <2>5. Ranked(reading.rows \cup reading.remarks)
    BY <1>2, <2>3, <2>4 DEF Ranked, RemarksRead
  <2> QED
    BY <2>1, <2>5, RankedPart
<1> DEFINE all == NewestFirst(EntriesOf(Chosen, meta))
<1>5. list = [items |-> Cut(all), truncated |-> Len(all) > Limit]
  <2>1. {Entry(row, meta) : row \in selectHistoryByTopic(reading.rows, Topic)}
           \cup {Entry(row, meta) : row \in reading.remarks}
        = EntriesOf(Chosen, meta)
    BY DEF Chosen, EntriesOf
  <2> QED
    BY <2>1 DEF buildProjectHistory, Merge
<1>6. /\ Shows(Chosen, list)
      /\ \A i \in DOMAIN list.items : \E row \in Chosen : list.items[i] = Entry(row, meta)
  <2>1. all = NewestFirst(EntriesOf(Chosen, meta))
    OBVIOUS
  <2> HIDE DEF all, list
  <2>2. /\ Shows(Chosen, [items |-> Cut(all), truncated |-> Len(all) > Limit])
        /\ \A i \in DOMAIN Cut(all) : \E row \in Chosen : Cut(all)[i] = Entry(row, meta)
    BY <1>4, <2>1, ListShows
  <2>3. list.items = Cut(all)
    BY <1>5
  <2> QED
    BY <1>5, <2>2, <2>3
<1> HIDE DEF list, all
<1>7. /\ reading'.step = "answered" /\ reading'.list = list
      /\ reading'.query = reading.query /\ reading'.asked = reading.asked
      /\ reading'.rows = reading.rows /\ reading'.remarks = reading.remarks
      /\ reading'.live = reading.live /\ DOMAIN reading' = DOMAIN reading
  BY <1>0, <1>1 DEF Underway, ReadingKnows
<1>8. /\ Tables' /\ Lives'
      /\ \A n : TitlesOf(n)' = TitlesOf(n) /\ DeletionOf(n)' = DeletionOf(n)
  BY <1>0, <1>1, TablesStay
<1>9. RowsRead' /\ RemarksRead' /\ Mentioned' = Mentioned /\ Chosen' = Chosen
  BY <1>0, <1>1, <1>2, <1>7, ReadsStay
<1>10. LiveRead'
  BY <1>2, <1>7, <1>8, <1>9 DEF LiveRead
<1>11. Shows(Chosen, reading.list)'
  BY <1>6, <1>7, <1>9 DEF Shows
<1>12. TitlesTold'
  <2>1. ASSUME NEW i \in DOMAIN list.items
        PROVE  /\ list.items[i].title \in TitlesOf(list.items[i].node)
               /\ list.items[i].deleted => DeletionOf(list.items[i].node) # {}
    <3>1. PICK row \in Chosen : list.items[i] = Entry(row, meta)
      BY <1>6
    <3>2. /\ list.items[i].node = row.node /\ list.items[i].title = meta[row.node].title
          /\ list.items[i].deleted = meta[row.node].deleted
      BY <3>1 DEF Entry
    <3>3. row.node \in Mentioned
      BY DEF Chosen, selectHistoryByTopic, Mentioned
    <3> QED
      BY <1>3, <3>2, <3>3
  <2> QED
    BY <1>7, <1>8, <2>1 DEF TitlesTold
<1>13. ReadingKnows'
  BY <1>0, <1>7, <1>9, <1>10, <1>11, <1>12 DEF ReadingKnows, Past3, Past2, Past1
<1> QED
  BY <1>8, <1>13 DEF ListInv

-------------------------------------------------------------------------------
(* Writes                                                                  *)

\* New rows come with new times, comments only go.
LEMMA TablesGrow ==
    ASSUME Tables, written \in Nat, written' \in Nat, written' >= written,
           NEW new, IsFiniteSet(new), DistinctTimes(new), log' = log \cup new,
           \A row \in new : row.type = "HISTORY" /\ row.time \in (written + 1)..written',
           comments' \subseteq comments, \A c \in comments' : c.node \in DOMAIN nodes'
    PROVE  Tables' /\ Grow
<1>1. IsFiniteSet(log') /\ IsFiniteSet(comments')
  BY FS_Union, FS_Subset DEF Tables
<1>2. \A row \in log' : row.type = "HISTORY" /\ row.time \in 1..written'
  BY DEF Tables
<1>3. \A c \in comments' :
         /\ c = [type |-> "COMMENT", node |-> c.node, time |-> c.time, gone |-> c.gone]
         /\ c.time \in 1..written' /\ c.node \in DOMAIN nodes'
  BY DEF Tables
<1>4. DistinctTimes(log \cup comments)'
  <2>1. \A x \in log \cup comments : x.time \in 1..written
    BY DEF Tables
  <2>2. ASSUME NEW a \in log' \cup comments', NEW b \in log' \cup comments', a.time = b.time
        PROVE  a = b
    <3>1. (a \in log \cup comments \/ a \in new) /\ (b \in log \cup comments \/ b \in new)
      OBVIOUS
    <3>2. CASE a \in log \cup comments /\ b \in log \cup comments
      BY <2>2, <3>2 DEF Tables, DistinctTimes
    <3>3. CASE a \in new /\ b \in new
      BY <2>2, <3>3 DEF DistinctTimes
    <3>4. CASE a \in log \cup comments /\ b \in new
      BY <2>1, <2>2, <3>4
    <3>5. CASE a \in new /\ b \in log \cup comments
      BY <2>1, <2>2, <3>5
    <3> QED
      BY <3>1, <3>2, <3>3, <3>4, <3>5
  <2> QED
    BY <2>2 DEF DistinctTimes
<1>5. Grow
  BY DEF Grow
<1> QED
  BY <1>1, <1>2, <1>3, <1>4, <1>5 DEF Tables

\* A row more.
LEMMA OneRow ==
    ASSUME Tables, written \in Nat, written' = written + 1,
           NEW n, NEW action, NEW diff, NEW title,
           log' = log \cup {HistoryRow(n, action, diff, title)},
           comments' \subseteq comments, \A c \in comments' : c.node \in DOMAIN nodes'
    PROVE  /\ Tables' /\ Grow
           /\ \A m : TitlesOf(m) \subseteq TitlesOf(m)'
           /\ action # "DELETE" => /\ title \in TitlesOf(n)'
                                   /\ \A m : DeletionOf(m)' = DeletionOf(m)
           /\ action = "DELETE" => \A m : (DeletionOf(m)' # {} <=> DeletionOf(m) # {} \/ m = n)
<1> DEFINE row == HistoryRow(n, action, diff, title)
<1>1. /\ row.type = "HISTORY" /\ row.time = written + 1 /\ row.node = n
      /\ row.action = action /\ row.title = title
  BY DEF HistoryRow, RowAt
<1> HIDE DEF row
<1>2. log' = log \cup {row}
  BY DEF row
<1>3. IsFiniteSet({row}) /\ DistinctTimes({row})
  BY FS_Singleton DEF DistinctTimes
<1>4. \A x \in {row} : x.type = "HISTORY" /\ x.time \in (written + 1)..written'
  BY <1>1
<1>5. Tables' /\ Grow
  BY <1>2, <1>3, <1>4, TablesGrow
<1>6. \A m : TitlesOf(m) \subseteq TitlesOf(m)'
  BY <1>2 DEF TitlesOf
<1>7. ASSUME action # "DELETE"
      PROVE  title \in TitlesOf(n)' /\ \A m : DeletionOf(m)' = DeletionOf(m)
  BY <1>1, <1>2, <1>7 DEF TitlesOf, DeletionOf
<1>8. ASSUME action = "DELETE"
      PROVE  \A m : (DeletionOf(m)' # {} <=> DeletionOf(m) # {} \/ m = n)
  BY <1>1, <1>2, <1>8 DEF DeletionOf
<1> QED
  BY <1>5, <1>6, <1>7, <1>8

LEMMA NewIdsAreNew ==
    ASSUME NEW n \in NewIds
    PROVE  n \in NodeIds /\ \A row \in log : row.node # n
<1>1. n \in NodeIds /\ n \in Int
  BY HistoryAssumption DEF NewIds
<1>2. 1..(n - 1) = {row.node : row \in log}
  BY DEF NewIds
<1>3. n \notin {row.node : row \in log}
  BY <1>1, <1>2
<1> QED
  BY <1>1, <1>3

LEMMA CreateKeeps ==
    ASSUME Tables, Lives, written \in Nat, NEW mine, NEW n \in NodeIds, CreateNode(mine, n)
    PROVE  Tables' /\ Lives' /\ Grow
<1>1. /\ written' = written + 1 /\ comments' = comments
      /\ log' = log \cup {HistoryRow(n, "CREATE", {}, <<n, 0>>)}
      /\ nodes' = [m \in DOMAIN nodes \cup {n} |-> IF m = n THEN NewTitle(n) ELSE nodes[m]]
  BY DEF CreateNode, WriteData
<1>2. \A row \in log : row.node # n
  BY NewIdsAreNew DEF CreateNode
<1>3. /\ DOMAIN nodes' = DOMAIN nodes \cup {n}
      /\ nodes'[n].title = <<n, 0>> /\ nodes'[n].was = <<n, 0>>
      /\ \A m \in DOMAIN nodes \ {n} : nodes'[m] = nodes[m]
  BY <1>1 DEF NewTitle
<1>4. \A c \in comments' : c.node \in DOMAIN nodes'
  BY <1>1, <1>3 DEF Tables
<1>5. /\ Tables' /\ Grow
      /\ \A m : TitlesOf(m) \subseteq TitlesOf(m)' /\ DeletionOf(m)' = DeletionOf(m)
      /\ <<n, 0>> \in TitlesOf(n)'
  BY <1>1, <1>4, OneRow
<1>6. DeletionOf(n) = {}
  BY <1>2 DEF DeletionOf
<1>7. \A row \in log' : row \in log \/ (row.node = n /\ row.action = "CREATE")
  BY <1>1 DEF HistoryRow, RowAt
<1>8. Lives'
  <2>1. IsFiniteSet(DOMAIN nodes') /\ DOMAIN nodes' \subseteq NodeIds
    BY <1>3, FS_AddElement DEF Lives
  <2>2. \A m \in DOMAIN nodes' : nodes'[m].title \in TitlesOf(m)' /\ nodes'[m].was \in TitlesOf(m)'
    BY <1>3, <1>5 DEF Lives
  <2>3. \A row \in log' : row.node \in DOMAIN nodes' \/ DeletionOf(row.node)' # {}
    BY <1>3, <1>5, <1>7 DEF Lives
  <2>4. ASSUME NEW row \in log', row.action = "DELETE"
        PROVE  row.node \notin DOMAIN nodes' /\ row.title \in TitlesOf(row.node)'
    <3>1. row \in log
      BY <1>7, <2>4
    <3> QED
      BY <1>2, <1>3, <1>5, <2>4, <3>1 DEF Lives
  <2> QED
    BY <2>1, <2>2, <2>3, <2>4 DEF Lives
<1> QED
  BY <1>5, <1>8

LEMMA UpdateKeeps ==
    ASSUME Tables, Lives, written \in Nat, NEW mine, NEW n, NEW diff, UpdateNode(mine, n, diff)
    PROVE  Tables' /\ Lives' /\ Grow
<1> DEFINE old   == nodes[n].title
           title == IF "title" \in diff THEN <<n, old[2] + 1>> ELSE old
<1>1. /\ written' = written + 1 /\ comments' = comments /\ n \in DOMAIN nodes
      /\ log' = log \cup {HistoryRow(n, "UPDATE", diff, title)}
      /\ nodes' = [nodes EXCEPT ![n] = [title |-> title, was |-> old]]
  BY DEF UpdateNode, WriteData
<1> HIDE DEF title
<1>3. /\ DOMAIN nodes' = DOMAIN nodes
      /\ nodes'[n].title = title /\ nodes'[n].was = old
      /\ \A m \in DOMAIN nodes \ {n} : nodes'[m] = nodes[m]
  BY <1>1
<1>4. \A c \in comments' : c.node \in DOMAIN nodes'
  BY <1>1, <1>3 DEF Tables
<1>5. /\ Tables' /\ Grow
      /\ \A m : TitlesOf(m) \subseteq TitlesOf(m)' /\ DeletionOf(m)' = DeletionOf(m)
      /\ title \in TitlesOf(n)'
  BY <1>1, <1>4, OneRow
<1>7. \A row \in log' : row \in log \/ (row.node = n /\ row.action = "UPDATE")
  BY <1>1 DEF HistoryRow, RowAt
<1>8. Lives'
  <2>2. \A m \in DOMAIN nodes' : nodes'[m].title \in TitlesOf(m)' /\ nodes'[m].was \in TitlesOf(m)'
    BY <1>1, <1>3, <1>5 DEF Lives
  <2>3. \A row \in log' : row.node \in DOMAIN nodes' \/ DeletionOf(row.node)' # {}
    BY <1>1, <1>3, <1>5, <1>7 DEF Lives
  <2>4. \A row \in log' : row.action = "DELETE" =>
           row.node \notin DOMAIN nodes' /\ row.title \in TitlesOf(row.node)'
    BY <1>3, <1>5, <1>7 DEF Lives
  <2> QED
    BY <1>3, <2>2, <2>3, <2>4 DEF Lives
<1> QED
  BY <1>5, <1>8

LEMMA DeleteKeeps ==
    ASSUME Tables, Lives, written \in Nat, NEW mine, NEW n, DeleteNode(mine, n)
    PROVE  Tables' /\ Lives' /\ Grow
<1>1. /\ written' = written + 1 /\ comments' = {c \in comments : c.node # n} /\ n \in DOMAIN nodes
      /\ nodes' = [m \in DOMAIN nodes \ {n} |-> nodes[m]]
  BY DEF DeleteNode, WriteData
<1>2. PICK title \in {nodes[n].title, nodes[n].was} :
         log' = log \cup {HistoryRow(n, "DELETE", {}, title)}
  BY DEF DeleteNode
<1>3. DOMAIN nodes' = DOMAIN nodes \ {n} /\ \A m \in DOMAIN nodes' : nodes'[m] = nodes[m]
  BY <1>1
<1>4. comments' \subseteq comments /\ \A c \in comments' : c.node \in DOMAIN nodes'
  BY <1>1, <1>3 DEF Tables
<1>5. /\ Tables' /\ Grow
      /\ \A m : TitlesOf(m) \subseteq TitlesOf(m)'
      /\ \A m : (DeletionOf(m)' # {} <=> DeletionOf(m) # {} \/ m = n)
  BY <1>1, <1>2, <1>4, OneRow
<1>6. title \in TitlesOf(n)
  BY <1>1, <1>2 DEF Lives
<1>7. \A row \in log' : row \in log \/ (row.node = n /\ row.title = title)
  BY <1>2 DEF HistoryRow, RowAt
<1>8. Lives'
  <2>1. IsFiniteSet(DOMAIN nodes') /\ DOMAIN nodes' \subseteq NodeIds
    BY <1>3, FS_RemoveElement DEF Lives
  <2>2. \A m \in DOMAIN nodes' : nodes'[m].title \in TitlesOf(m)' /\ nodes'[m].was \in TitlesOf(m)'
    BY <1>3, <1>5 DEF Lives
  <2>3. \A row \in log' : row.node \in DOMAIN nodes' \/ DeletionOf(row.node)' # {}
    BY <1>3, <1>5, <1>7 DEF Lives
  <2>4. \A row \in log' : row.action = "DELETE" =>
           row.node \notin DOMAIN nodes' /\ row.title \in TitlesOf(row.node)'
    BY <1>3, <1>5, <1>6, <1>7 DEF Lives
  <2> QED
    BY <2>1, <2>2, <2>3, <2>4 DEF Lives
<1> QED
  BY <1>5, <1>8

Place(S, m) == Cardinality({x \in S : x <= m})

LEMMA PlaceFacts ==
    ASSUME NEW S, S \subseteq Int, IsFiniteSet(S)
    PROVE  /\ Cardinality(S) \in Nat
           /\ \A m \in S : Place(S, m) \in 1..Cardinality(S)
           /\ \A m, k \in S : Place(S, m) = Place(S, k) => m = k
<1> DEFINE UpTo(m) == {x \in S : x <= m}
<1>0. Cardinality(S) \in Nat
  BY FS_CardinalityType
<1>1. \A m \in S : IsFiniteSet(UpTo(m)) /\ Cardinality(UpTo(m)) <= Cardinality(S)
  BY FS_Subset
<1>2. \A m \in S : Cardinality(UpTo(m)) \in Nat /\ Cardinality(UpTo(m)) # 0
  <2> TAKE m \in S
  <2>1. m \in UpTo(m)
    OBVIOUS
  <2> HIDE DEF UpTo
  <2> QED
    BY <1>1, <2>1, FS_CardinalityType, FS_EmptySet
<1>3. ASSUME NEW m \in S, NEW k \in S, m < k PROVE Cardinality(UpTo(m)) # Cardinality(UpTo(k))
  <2>0. m \in Int /\ k \in Int /\ \A x \in S : x \in Int
    OBVIOUS
  <2>1. UpTo(m) \subseteq UpTo(k) /\ k \in UpTo(k) /\ k \notin UpTo(m)
    <3>1. \A x \in S : x <= m => x <= k
      BY <1>3, <2>0
    <3>2. k <= k /\ ~(k <= m)
      BY <1>3, <2>0
    <3> QED
      BY <3>1, <3>2
  <2> HIDE DEF UpTo
  <2> QED
    BY <1>1, <2>1, FS_Subset
<1>4. \A m, k \in S : m = k \/ m < k \/ k < m
  OBVIOUS
<1>5. \A m \in S : Place(S, m) = Cardinality(UpTo(m))
  BY DEF Place
<1> HIDE DEF UpTo
<1> QED
  BY <1>0, <1>1, <1>2, <1>3, <1>4, <1>5

LEMMA ImportKeeps ==
    ASSUME Tables, Lives, written \in Nat, NEW mine, NEW n \in NodeIds, ImportRows(mine, n)
    PROVE  Tables' /\ Lives' /\ Grow
<1> DEFINE gone   == DOMAIN nodes
           N      == Cardinality(gone)
           end(m) == RowAt(written + Place(gone, m), m, "DELETE", {}, nodes[m].title)
           begin  == RowAt(written + N + 1, n, "CREATE", {}, <<n, 0>>)
           ends   == {end(m) : m \in gone}
           new    == ends \cup {begin}
<1>0. /\ N \in Nat /\ \A m \in gone : Place(gone, m) \in 1..N
      /\ \A m, k \in gone : Place(gone, m) = Place(gone, k) => m = k
  <2>1. gone \subseteq NodeIds /\ IsFiniteSet(gone) /\ NodeIds \subseteq Int
    <3>1. NodeIds \subseteq Int
      BY HistoryAssumption
    <3> QED
      BY <3>1 DEF Lives
  <2> HIDE DEF gone
  <2> QED
    BY <2>1, PlaceFacts
<1>1. /\ written' = written + N + 1 /\ comments' = {} /\ log' = log \cup new
      /\ nodes' = [m \in {n} |-> NewTitle(n)]
  <2>1. WriteData("import", mine, N + 1) /\ comments' = {} /\ nodes' = [m \in {n} |-> NewTitle(n)]
    BY DEF ImportRows
  <2>2. written' = written + N + 1
    BY <1>0, <2>1 DEF WriteData
  <2>3. log' = log \cup ends \cup {RowAt(written + (N + 1), n, "CREATE", {}, <<n, 0>>)}
    BY DEF ImportRows, Place
  <2>4. written + (N + 1) = written + N + 1
    BY <1>0
  <2> QED
    BY <2>1, <2>2, <2>3, <2>4
<1>2. \A row \in log : row.node # n
  BY NewIdsAreNew DEF ImportRows
<1>3. /\ DOMAIN nodes' = {n} /\ nodes'[n].title = <<n, 0>> /\ nodes'[n].was = <<n, 0>>
  BY <1>1 DEF NewTitle
<1>4. \A m \in gone :
         /\ end(m).type = "HISTORY" /\ end(m).time = written + Place(gone, m) /\ end(m).node = m
         /\ end(m).action = "DELETE" /\ end(m).title = nodes[m].title
  BY DEF RowAt
<1>5. /\ begin.type = "HISTORY" /\ begin.time = written + N + 1 /\ begin.node = n
      /\ begin.action = "CREATE" /\ begin.title = <<n, 0>>
  BY DEF RowAt
<1> HIDE DEF begin, end, N
<1>6. IsFiniteSet(new)
  <2> DEFINE f == [m \in gone |-> end(m)]
  <2>1. f \in Surjection(gone, ends)
    BY DEF Surjection
  <2>2. IsFiniteSet(gone)
    BY DEF Lives
  <2> HIDE DEF ends, f
  <2>3. IsFiniteSet(ends)
    BY <2>1, <2>2, FS_Surjection
  <2> QED
    BY <2>3, FS_AddElement
<1>7. \A row \in new : row = begin \/ \E m \in gone : row = end(m)
  OBVIOUS
<1>8. \A row \in new : row.type = "HISTORY" /\ row.time \in (written + 1)..written'
  <2>1. \A m \in gone : end(m).time \in (written + 1)..written'
    BY <1>0, <1>1, <1>4
  <2>2. begin.time \in (written + 1)..written'
    BY <1>0, <1>1, <1>5
  <2> QED
    BY <1>4, <1>5, <1>7, <2>1, <2>2
<1>9. DistinctTimes(new)
  <2>1. \A m, k \in gone : end(m).time = end(k).time => m = k
    BY <1>0, <1>4
  <2>2. \A m \in gone : end(m).time # begin.time
    BY <1>0, <1>4, <1>5
  <2> QED
    BY <1>7, <2>1, <2>2 DEF DistinctTimes
<1>10. Tables' /\ Grow
  <2> HIDE DEF new
  <2> QED
    BY <1>0, <1>1, <1>6, <1>8, <1>9, TablesGrow
<1>11. /\ \A m : TitlesOf(m) \subseteq TitlesOf(m)' /\ DeletionOf(m) \subseteq DeletionOf(m)'
       /\ <<n, 0>> \in TitlesOf(n)'
       /\ \A m \in gone : end(m) \in DeletionOf(m)'
  <2>1. begin \in log' /\ \A m \in gone : end(m) \in log'
    BY <1>1
  <2> QED
    BY <1>1, <1>4, <1>5, <2>1 DEF TitlesOf, DeletionOf
<1>12. \A row \in log' : row \in log \/ row = begin \/ \E m \in gone : row = end(m)
  BY <1>1, <1>7
<1>13. n \notin gone
  <2>1. n \in gone => nodes[n].title \in TitlesOf(n)
    BY DEF Lives
  <2> QED
    BY <1>2, <2>1 DEF TitlesOf
<1>14. Lives'
  <2> HIDE DEF new, ends
  <2>1. IsFiniteSet(DOMAIN nodes') /\ DOMAIN nodes' \subseteq NodeIds
    BY <1>3, FS_Singleton
  <2>2. \A m \in DOMAIN nodes' : nodes'[m].title \in TitlesOf(m)' /\ nodes'[m].was \in TitlesOf(m)'
    BY <1>3, <1>11
  <2>3. ASSUME NEW row \in log' PROVE row.node \in DOMAIN nodes' \/ DeletionOf(row.node)' # {}
    <3>1. CASE row \in log
      BY <1>11, <3>1 DEF Lives
    <3>2. CASE row = begin
      BY <1>3, <1>5, <3>2
    <3>3. CASE \E m \in gone : row = end(m)
      BY <1>4, <1>11, <3>3
    <3> QED
      BY <1>12, <3>1, <3>2, <3>3
  <2>4. ASSUME NEW row \in log', row.action = "DELETE"
        PROVE  row.node \notin DOMAIN nodes' /\ row.title \in TitlesOf(row.node)'
    <3>1. CASE row \in log
      BY <1>2, <1>3, <1>11, <2>4, <3>1 DEF Lives
    <3>2. row # begin
      BY <1>5, <2>4
    <3>3. CASE \E m \in gone : row = end(m)
      <4>1. PICK m \in gone : row = end(m)
        BY <3>3
      <4>2. nodes[m].title \in TitlesOf(m)
        BY DEF Lives
      <4> QED
        BY <1>3, <1>4, <1>11, <1>13, <4>1, <4>2
    <3> QED
      BY <1>12, <3>1, <3>2, <3>3
  <2> QED
    BY <2>1, <2>2, <2>3, <2>4 DEF Lives
<1> QED
  BY <1>10, <1>14

\* A comment more, or one that is gone.
LEMMA CommentsKeep ==
    ASSUME Tables, Lives, written \in Nat, NEW mine,
           (\E n \in NodeIds : AddComment(mine, n)) \/ (\E c \in comments : RemoveComment(mine, c))
    PROVE  Tables' /\ Lives' /\ Grow
<1>1. written' = written + 1 /\ log' = log /\ nodes' = nodes
  BY DEF AddComment, RemoveComment, WriteData
<1>2. Lives'
  BY <1>1 DEF Lives, TitlesOf, DeletionOf
<1>3. CASE \E n \in NodeIds : AddComment(mine, n)
  <2>1. PICK n \in NodeIds : AddComment(mine, n)
    BY <1>3
  <2> DEFINE new == [type |-> "COMMENT", node |-> n, time |-> written + 1, gone |-> FALSE]
  <2>2. comments' = comments \cup {new} /\ n \in DOMAIN nodes
    BY <2>1 DEF AddComment
  <2>3. new.time = written + 1 /\ new.node = n
        /\ new = [type |-> "COMMENT", node |-> new.node, time |-> new.time, gone |-> new.gone]
    OBVIOUS
  <2> HIDE DEF new
  <2>4. IsFiniteSet(comments')
    BY <2>2, FS_AddElement DEF Tables
  <2>5. \A x \in log \cup comments : x.time \in 1..written /\ x.time # new.time
    BY <2>3 DEF Tables
  <2>6. DistinctTimes(log \cup comments)'
    BY <1>1, <2>2, <2>5 DEF Tables, DistinctTimes
  <2>7. Tables'
    BY <1>1, <2>2, <2>3, <2>4, <2>6 DEF Tables
  <2>8. Grow
    BY <1>1, <2>2, <2>3 DEF Grow
  <2> QED
    BY <1>2, <2>7, <2>8
<1>4. CASE \E c \in comments : RemoveComment(mine, c)
  <2>1. PICK c \in comments : RemoveComment(mine, c)
    BY <1>4
  <2> DEFINE new == [c EXCEPT !.gone = TRUE]
  <2>2. comments' = (comments \ {c}) \cup {new}
    BY <2>1 DEF RemoveComment
  <2>3. c = [type |-> "COMMENT", node |-> c.node, time |-> c.time, gone |-> c.gone]
    BY DEF Tables
  <2>4. new = [type |-> "COMMENT", node |-> c.node, time |-> c.time, gone |-> TRUE]
    <3> DEFINE yes == TRUE
    <3> HIDE DEF yes
    <3>1. [c EXCEPT !.gone = yes]
            = [type |-> "COMMENT", node |-> c.node, time |-> c.time, gone |-> yes]
      BY <2>3
    <3> QED
      BY <3>1 DEF yes
  <2> HIDE DEF new
  <2>5. /\ new.type = "COMMENT" /\ new.time = c.time /\ new.node = c.node /\ new.gone
        /\ new = [type |-> "COMMENT", node |-> new.node, time |-> new.time, gone |-> new.gone]
    BY <2>4
  <2>6. IsFiniteSet(comments')
    BY <2>2, FS_AddElement, FS_RemoveElement DEF Tables
  <2>7. \A x \in log \cup (comments \ {c}) : x.time # new.time
    BY <2>5 DEF Tables, DistinctTimes
  <2>8. DistinctTimes(log \cup comments)'
    BY <1>1, <2>2, <2>7 DEF Tables, DistinctTimes
  <2>9. Tables'
    BY <1>1, <2>2, <2>5, <2>6, <2>8 DEF Tables
  <2>10. Grow
    BY <1>1, <2>2, <2>5 DEF Grow
  <2> QED
    BY <1>2, <2>9, <2>10
<1> QED
  BY <1>3, <1>4

-------------------------------------------------------------------------------
LEMMA ListKeeps == HInv /\ ListInv /\ [HistoryNext]_historyVars => ListInv'
<1> SUFFICES ASSUME HInv, ListInv, [HistoryNext]_historyVars PROVE ListInv'
  OBVIOUS
<1>0. /\ Tables /\ Lives /\ ReadingKnows /\ Underway /\ written \in Nat
      /\ own.unsure \in 0..written
  BY DEF HInv, Past, ListInv
<1>1. ASSUME Tables', Lives', Grow, reading' = reading PROVE ListInv'
  BY <1>0, <1>1, StaysRead DEF ListInv
<1>2. ASSUME UNCHANGED dataVars, reading' = NoReading \/ (\E query : reading' = Ask(query))
      PROVE  ListInv'
  BY <1>0, <1>2, TablesStay, NothingReadYet DEF ListInv
<1>3. ASSUME UNCHANGED dataVars, reading' = reading PROVE ListInv'
  <2>1. Tables' /\ Lives' /\ log' = log /\ comments' = comments
    BY <1>0, <1>3, TablesStay
  <2>2. Grow
    BY <2>1 DEF Grow
  <2> QED
    BY <1>1, <1>3, <2>1, <2>2
<1>4. CASE UNCHANGED historyVars
  BY <1>3, <1>4 DEF historyVars
<1>5. CASE ReadHistory \/ ReadComments \/ ReadNodes \/ AnswerList
  BY <1>0, <1>5, ReadHistoryKeeps, ReadCommentsKeeps, ReadNodesKeeps, AnswerListKeeps
<1>6. CASE \/ \E query \in Queries : OpenPage(query)
           \/ ListArrives \/ ListFails \/ ChangeAnswered \/ CommentAnswered
  BY <1>2, <1>6 DEF OpenPage, ListArrives, ListFails, ChangeAnswered, CommentAnswered, Answered
<1>7. CASE ClosePage \/ ImportAnswered
  BY <1>3, <1>7 DEF ClosePage, ImportAnswered, Answered
<1>8. ASSUME NEW mine \in BOOLEAN, NEW n \in NodeIds,
             \/ CreateNode(mine, n) \/ ImportRows(mine, n)
             \/ \E diff \in Diffs : UpdateNode(mine, n, diff)
             \/ DeleteNode(mine, n) \/ AddComment(mine, n)
      PROVE  ListInv'
  <2>1. reading' = reading
    BY <1>8 DEF CreateNode, ImportRows, UpdateNode, DeleteNode, AddComment, WriteData
  <2>2. Tables' /\ Lives' /\ Grow
    BY <1>0, <1>8, CreateKeeps, ImportKeeps, UpdateKeeps, DeleteKeeps, CommentsKeep
  <2> QED
    BY <1>1, <2>1, <2>2
<1>9. ASSUME NEW mine \in BOOLEAN, NEW c \in comments, RemoveComment(mine, c) PROVE ListInv'
  <2>1. reading' = reading
    BY <1>9 DEF RemoveComment, WriteData
  <2>2. Tables' /\ Lives' /\ Grow
    BY <1>0, <1>9, CommentsKeep
  <2> QED
    BY <1>1, <2>1, <2>2
<1> QED
  BY <1>4, <1>5, <1>6, <1>7, <1>8, <1>9 DEF HistoryNext

\* A list tells the newest of what happened, in order and of its topic, says
\* when it does not tell all, and names every node by a title it has or had
\* (project-history.service.ts, history-utils.ts), whatever is written, deleted
\* or imported between its four reads and after them.
THEOREM HistoryIsTrue == MCSpec => []ListTellsTruth
<1>1. MCInit => HInv /\ ListInv
  BY HistoryBegins, ListBegins DEF MCInit
<1>2. HInv /\ ListInv /\ [MCNext]_<<vars, cloneVars, historyVars, part>> => (HInv /\ ListInv)'
  BY HistoryKeeps, ListKeeps DEF MCNext
<1>3. HInv /\ ListInv => ListTellsTruth
  <2>1. CASE reading.step = "answered"
    BY <2>1, AnswerTellsTruth DEF HInv
  <2>2. CASE reading.step # "answered"
    BY <2>2 DEF ListTellsTruth
  <2> QED
    BY <2>1, <2>2
<1> QED
  BY <1>1, <1>2, <1>3, PTL DEF MCSpec

-------------------------------------------------------------------------------
(* ProjectClone: numbers                                                   *)

\* A finite set of numbers has a last element, and a first one.
LEMMA EndsExist ==
    ASSUME NEW S, S \subseteq Nat, IsFiniteSet(S), S # {}
    PROVE  /\ \E x \in S : \A y \in S : y <= x
           /\ \E x \in S : \A y \in S : x <= y
<1> DEFINE Up(x)   == {y \in S : x < y}
           Down(x) == {y \in S : y < x}
           R == StrictSubsetOrdering(S)
<1>1. IsWellFoundedOn(R, SUBSET S)
  BY FS_StrictSubsetOrderingWellFounded, FS_FiniteSubsetsOfFinite
<1>2. \A T \in SUBSET S, U \in SUBSET S : <<T, U>> \in R <=> T \subseteq U /\ T # U
  BY DEF StrictSubsetOrdering
<1> HIDE DEF R
<1>3. \E x \in S : \A y \in S : y <= x
  <2>1. {Up(x) : x \in S} \subseteq SUBSET S /\ {Up(x) : x \in S} # {}
    OBVIOUS
  <2>2. PICK T \in {Up(x) : x \in S} : \A U \in {Up(x) : x \in S} : ~(<<U, T>> \in R)
    BY <1>1, <2>1, WFMin
  <2>3. PICK x \in S : T = Up(x)
    BY <2>2
  <2>4. ASSUME NEW y \in S, x < y PROVE FALSE
    <3>0. x \in Nat /\ y \in Nat /\ \A z \in S : z \in Nat
      OBVIOUS
    <3>1. Up(y) \subseteq Up(x) /\ y \in Up(x) /\ y \notin Up(y)
      <4>1. ASSUME NEW z \in S, y < z PROVE x < z
        BY <2>4, <3>0, <4>1
      <4>2. ~(y < y)
        BY <3>0
      <4> QED
        BY <2>4, <4>1, <4>2
    <3>2. Up(y) \subseteq Up(x) /\ Up(y) # Up(x)
      BY <3>1
    <3>3. ~(<<Up(y), Up(x)>> \in R)
      BY <2>2, <2>3
    <3> QED
      BY <1>2, <3>2, <3>3
  <2> QED
    BY <2>4
<1>4. \E x \in S : \A y \in S : x <= y
  <2>1. {Down(x) : x \in S} \subseteq SUBSET S /\ {Down(x) : x \in S} # {}
    OBVIOUS
  <2>2. PICK T \in {Down(x) : x \in S} : \A U \in {Down(x) : x \in S} : ~(<<U, T>> \in R)
    BY <1>1, <2>1, WFMin
  <2>3. PICK x \in S : T = Down(x)
    BY <2>2
  <2>4. ASSUME NEW y \in S, y < x PROVE FALSE
    <3>0. x \in Nat /\ y \in Nat /\ \A z \in S : z \in Nat
      OBVIOUS
    <3>1. Down(y) \subseteq Down(x) /\ y \in Down(x) /\ y \notin Down(y)
      <4>1. ASSUME NEW z \in S, z < y PROVE z < x
        BY <2>4, <3>0, <4>1
      <4>2. ~(y < y)
        BY <3>0
      <4> QED
        BY <2>4, <4>1, <4>2
    <3>2. Down(y) \subseteq Down(x) /\ Down(y) # Down(x)
      BY <3>1
    <3>3. ~(<<Down(y), Down(x)>> \in R)
      BY <2>2, <2>3
    <3> QED
      BY <1>2, <3>2, <3>3
  <2> QED
    BY <2>4
<1> QED
  BY <1>3, <1>4

\* A quotient lies where it should, and more is never divided into less.
LEMMA QuotientFacts ==
    ASSUME NEW a \in Nat, NEW b \in Nat \ {0}
    PROVE  a \div b \in Nat /\ b * (a \div b) <= a /\ a < b * ((a \div b) + 1)
  OBVIOUS

LEMMA QuotientIs ==
    ASSUME NEW a \in Nat, NEW b \in Nat \ {0}, NEW q \in Nat, b * q <= a, a < b * (q + 1)
    PROVE  a \div b = q
<1>1. a \div b \in Nat /\ b * (a \div b) <= a /\ a < b * ((a \div b) + 1)
  BY QuotientFacts
<1> DEFINE p == a \div b
<1> HIDE DEF p
<1>2. ASSUME p < q PROVE FALSE
  BY <1>1, <1>2 DEF p
<1>3. ASSUME q < p PROVE FALSE
  BY <1>1, <1>3 DEF p
<1> QED
  BY <1>1, <1>2, <1>3 DEF p

LEMMA QuotientsGrow ==
    ASSUME NEW a \in Nat, NEW c \in Nat, NEW b \in Nat \ {0}, a <= c
    PROVE  a \div b <= c \div b
  OBVIOUS

-------------------------------------------------------------------------------
(* Spans and days                                                          *)

LEMMA DaysOfTree ==
    ASSUME NEW tree, IsTree(tree)
    PROVE  DaysOf(tree) \subseteq Nat /\ IsFiniteSet(DaysOf(tree))
<1> DEFINE items == ItemsOf(tree)
           starts == {tree[n].start : n \in items}
           ends   == {tree[n].end : n \in items}
<1>1. items \subseteq DOMAIN tree /\ IsFiniteSet(items)
  BY FS_Subset DEF IsTree, ItemsOf
<1>2. \A n \in items : tree[n].start \in Days /\ tree[n].end \in Days
  BY <1>1 DEF IsTree, TreeRow
<1> HIDE DEF items
<1>3. IsFiniteSet(starts)
  <2> DEFINE f == [n \in items |-> tree[n].start]
  <2>1. f \in Surjection(items, starts)
    BY DEF Surjection
  <2> QED
    BY <1>1, <2>1, FS_Surjection
<1>4. IsFiniteSet(ends)
  <2> DEFINE f == [n \in items |-> tree[n].end]
  <2>1. f \in Surjection(items, ends)
    BY DEF Surjection
  <2> QED
    BY <1>1, <2>1, FS_Surjection
<1>5. DaysOf(tree) = (starts \cup ends) \ {NoDay}
  BY DEF DaysOf, items
<1>6. starts \subseteq Days /\ ends \subseteq Days
  BY <1>2
<1> HIDE DEF starts, ends
<1>7. IsFiniteSet(starts \cup ends) /\ DaysOf(tree) \in SUBSET (starts \cup ends)
  BY <1>3, <1>4, <1>5, FS_Union
<1> QED
  BY <1>5, <1>6, <1>7, FS_Subset DEF Days

\* The span of days is from the first to the last.
LEMMA SpanIs ==
    ASSUME NEW tree, DaysOf(tree) \subseteq Nat, NEW a \in DaysOf(tree), NEW b \in DaysOf(tree),
           \A d \in DaysOf(tree) : a <= d /\ d <= b
    PROVE  findDateSpan(tree) = [start |-> a, end |-> b]
<1> DEFINE S == DaysOf(tree)
           first == CHOOSE d \in S : \A e \in S : d <= e
           last  == CHOOSE d \in S : \A e \in S : d >= e
<1>1. first \in S /\ \A e \in S : first <= e
  OBVIOUS
<1>2. last \in S /\ \A e \in S : last >= e
  OBVIOUS
<1>3. findDateSpan(tree) = [start |-> first, end |-> last]
  BY DEF findDateSpan
<1> HIDE DEF first, last
<1>4. first = a /\ last = b
  BY <1>1, <1>2
<1> QED
  BY <1>3, <1>4

LEMMA SpanFacts ==
    ASSUME NEW tree, IsTree(tree), DaysOf(tree) # {}
    PROVE  /\ findDateSpan(tree).start \in DaysOf(tree) /\ findDateSpan(tree).end \in DaysOf(tree)
           /\ \A d \in DaysOf(tree) :
                 d \in Nat /\ findDateSpan(tree).start <= d /\ d <= findDateSpan(tree).end
<1> DEFINE S == DaysOf(tree)
<1>1. S \subseteq Nat /\ IsFiniteSet(S)
  BY DaysOfTree
<1> HIDE DEF S
<1>2. (\E x \in S : \A y \in S : y <= x) /\ (\E x \in S : \A y \in S : x <= y)
  BY <1>1, EndsExist DEF S
<1>3. PICK a \in S : \A y \in S : a <= y
  BY <1>2
<1>4. PICK b \in S : \A y \in S : y <= b
  BY <1>2
<1>5. findDateSpan(tree) = [start |-> a, end |-> b]
  BY <1>1, <1>3, <1>4, SpanIs DEF S
<1> QED
  BY <1>1, <1>3, <1>4, <1>5 DEF S

LEMMA NoSpanFacts ==
    /\ NoSpan = [start |-> NoDay, end |-> NoDay]
    /\ \A tree : DaysOf(tree) = {} => findDateSpan(tree) = NoSpan
<1>1. DaysOf([n \in {} |-> {}]) = {}
  BY DEF DaysOf, ItemsOf
<1> QED
  BY <1>1 DEF NoSpan, findDateSpan

-------------------------------------------------------------------------------
(* A day is moved                                                          *)

Modes == {"KEEP", "SHIFT", "FIT"}

\* The new period of a mode.
IsPeriod(mode, to) ==
    /\ mode # "KEEP" => to.start \in Nat
    /\ mode = "FIT" => to.end \in Nat /\ to.start <= to.end

\* Stretched, a span keeps its ends and the order of its days.
LEMMA StretchedFacts ==
    ASSUME NEW span, span.start \in Nat, span.end \in Nat, span.start < span.end,
           NEW to, to.start \in Nat, to.end \in Nat, to.start <= to.end
    PROVE  /\ \A d \in span.start..span.end : Stretched(d, span, to) \in Nat
           /\ \A d, e \in span.start..span.end :
                 d <= e => Stretched(d, span, to) <= Stretched(e, span, to)
           /\ Stretched(span.start, span, to) = to.start
           /\ Stretched(span.end, span, to) = to.end
<1> DEFINE l == span.end - span.start
           m == to.end - to.start
           a(d) == 2 * (d - span.start) * m + l
           b == 2 * l
<1>1. l \in Nat \ {0} /\ m \in Nat /\ b \in Nat \ {0}
  OBVIOUS
<1>2. \A d : Stretched(d, span, to) = to.start + (a(d) \div b)
  BY DEF Stretched
<1>3. ASSUME NEW d \in span.start..span.end PROVE a(d) \in Nat
  <2>1. d - span.start \in Nat
    OBVIOUS
  <2> HIDE DEF l, m
  <2> DEFINE k == d - span.start
  <2>2. 2 * k \in Nat
    BY <2>1
  <2> HIDE DEF k
  <2>3. (2 * k) * m \in Nat
    BY <1>1, <2>2
  <2>4. (2 * k) * m + l \in Nat
    BY <1>1, <2>3
  <2> QED
    BY <2>4 DEF k
<1>4. ASSUME NEW d \in span.start..span.end, NEW e \in span.start..span.end, d <= e
      PROVE  a(d) <= a(e)
  <2> DEFINE k == d - span.start
             j == e - span.start
  <2>1. k \in Nat /\ j \in Nat /\ k <= j
    BY <1>4
  <2> HIDE DEF l, m, k, j
  <2>2. 2 * k <= 2 * j /\ 2 * k \in Nat /\ 2 * j \in Nat
    BY <2>1
  <2>3. (2 * k) * m <= (2 * j) * m
    BY <1>1, <2>2
  <2>4. (2 * k) * m + l <= (2 * j) * m + l
    BY <1>1, <2>1, <2>3
  <2> QED
    BY <2>4 DEF k, j
<1>5. a(span.start) = l
  <2>1. span.start - span.start = 0
    OBVIOUS
  <2> HIDE DEF l, m
  <2>2. (2 * 0) * m + l = l
    BY <1>1
  <2> QED
    BY <2>1, <2>2
<1>6. a(span.end) = b * m + l
  BY DEF l
<1>7. l \div b = 0
  <2> HIDE DEF l, m
  <2>1. b * 0 <= l /\ l < b * (0 + 1)
    BY <1>1
  <2> HIDE DEF b
  <2> QED
    BY <1>1, <2>1, QuotientIs
<1>8. (b * m + l) \div b = m
  <2> HIDE DEF l, m
  <2>0. l < b /\ l \in Nat
    BY <1>1
  <2> HIDE DEF b
  <2>1. b * m <= b * m + l /\ b * m + l < b * (m + 1) /\ b * m + l \in Nat
    BY <1>1, <2>0
  <2> QED
    BY <1>1, <2>1, QuotientIs
<1> HIDE DEF a, b, l
<1>9. \A d \in span.start..span.end : Stretched(d, span, to) \in Nat
  <2> SUFFICES ASSUME NEW d \in span.start..span.end PROVE to.start + (a(d) \div b) \in Nat
    BY <1>2
  <2>1. a(d) \div b \in Nat
    BY <1>1, <1>3, QuotientFacts
  <2> QED
    BY <2>1
<1>10. ASSUME NEW d \in span.start..span.end, NEW e \in span.start..span.end, d <= e
       PROVE  Stretched(d, span, to) <= Stretched(e, span, to)
  <2>1. a(d) \div b <= a(e) \div b /\ a(d) \div b \in Nat /\ a(e) \div b \in Nat
    BY <1>1, <1>3, <1>4, <1>10, QuotientsGrow, QuotientFacts
  <2> QED
    BY <1>2, <2>1
<1>11. Stretched(span.start, span, to) = to.start
  BY <1>2, <1>5, <1>7
<1>12. Stretched(span.end, span, to) = to.end
  BY <1>2, <1>6, <1>8
<1> QED
  BY <1>9, <1>10, <1>11, <1>12

\* What the modes do to the days of a span.
LEMMA MovedDays ==
    ASSUME NEW span, span.start \in Nat, span.end \in Nat, span.start <= span.end,
           NEW mode \in Modes, NEW to, IsPeriod(mode, to)
    PROVE  LET M(d) == remapOne(d, span, mode, to) IN
           /\ \A d \in span.start..span.end : M(d) \in Nat /\ (mode = "KEEP" => M(d) = d)
           /\ \A d, e \in span.start..span.end :
                 /\ d <= e => M(d) <= M(e)
                 /\ mode # "FIT" => M(e) - M(d) = e - d
           /\ mode # "KEEP" => M(span.start) = to.start
           /\ mode = "FIT" => M(span.end) = IF span.start = span.end THEN to.start ELSE to.end
<1>1. CASE mode = "KEEP"
  BY <1>1 DEF remapOne
<1>2. CASE mode = "SHIFT"
  BY <1>2 DEF remapOne, IsPeriod
<1>3. CASE mode = "FIT" /\ span.start = span.end
  BY <1>3 DEF remapOne, IsPeriod
<1>4. CASE mode = "FIT" /\ span.start # span.end
  <2>1. \A d : remapOne(d, span, mode, to) = Stretched(d, span, to)
    BY <1>4 DEF remapOne
  <2>2. span.start < span.end /\ to.start \in Nat /\ to.end \in Nat /\ to.start <= to.end
    BY <1>4 DEF IsPeriod
  <2> QED
    BY <1>4, <2>1, <2>2, StretchedFacts
<1> QED
  BY <1>1, <1>2, <1>3, <1>4 DEF Modes

-------------------------------------------------------------------------------
(* The new tree                                                            *)

\* A tree, and how its dates move.
CanMove(tree, mode, to) ==
    /\ IsTree(tree) /\ mode \in Modes /\ IsPeriod(mode, to)
    /\ mode # "KEEP" => DaysOf(tree) # {}

Moves(tree, mode, to, day) ==
    IF day = NoDay THEN NoDay ELSE remapOne(day, findDateSpan(tree), mode, to)

LEMMA DaysMove ==
    ASSUME NEW tree, NEW mode, NEW to, CanMove(tree, mode, to)
    PROVE  /\ \A d \in DaysOf(tree) : /\ d # NoDay /\ Moves(tree, mode, to, d) \in Nat
                                      /\ mode = "KEEP" => Moves(tree, mode, to, d) = d
           /\ \A d, e \in DaysOf(tree) :
                 /\ d <= e => Moves(tree, mode, to, d) <= Moves(tree, mode, to, e)
                 /\ mode # "FIT" =>
                       Moves(tree, mode, to, e) - Moves(tree, mode, to, d) = e - d
           /\ mode # "KEEP" => Moves(tree, mode, to, findDateSpan(tree).start) = to.start
           /\ mode = "FIT" =>
                 Moves(tree, mode, to, findDateSpan(tree).end)
                   = IF findDateSpan(tree).start = findDateSpan(tree).end THEN to.start ELSE to.end
<1> DEFINE span == findDateSpan(tree)
           M(d) == remapOne(d, span, mode, to)
<1>1. CASE DaysOf(tree) = {}
  BY <1>1 DEF CanMove, Modes
<1>2. CASE DaysOf(tree) # {}
  <2>1. /\ span.start \in DaysOf(tree) /\ span.end \in DaysOf(tree)
        /\ \A d \in DaysOf(tree) : d \in Nat /\ span.start <= d /\ d <= span.end
    BY <1>2, SpanFacts DEF CanMove
  <2> HIDE DEF span
  <2>2. /\ \A d \in span.start..span.end : M(d) \in Nat /\ (mode = "KEEP" => M(d) = d)
        /\ \A d, e \in span.start..span.end :
              /\ d <= e => M(d) <= M(e)
              /\ mode # "FIT" => M(e) - M(d) = e - d
        /\ mode # "KEEP" => M(span.start) = to.start
        /\ mode = "FIT" => M(span.end) = IF span.start = span.end THEN to.start ELSE to.end
    BY <2>1, MovedDays DEF CanMove
  <2>3. \A d \in DaysOf(tree) : d \in span.start..span.end /\ d # NoDay
    BY <2>1 DEF NoDay
  <2>4. \A d \in DaysOf(tree) : Moves(tree, mode, to, d) = M(d)
    BY <2>3 DEF Moves, span
  <2> HIDE DEF M
  <2> QED
    BY <2>1, <2>2, <2>3, <2>4 DEF span
<1> QED
  BY <1>1, <1>2

\* Row by row: an item does not end before it starts, so neither date gives way.
IsCloned(tree, new, mode, to) ==
    /\ DOMAIN new = {n + IdOffset : n \in DOMAIN tree}
    /\ \A n \in DOMAIN tree :
          /\ new[n + IdOffset].kind = tree[n].kind /\ new[n + IdOffset].depth = tree[n].depth
          /\ new[n + IdOffset].order = tree[n].order
          /\ new[n + IdOffset].parent = NewParent(tree[n].parent)
          /\ tree[n].kind = "ITEM" =>
                /\ new[n + IdOffset].start = Moves(tree, mode, to, tree[n].start)
                /\ new[n + IdOffset].end = Moves(tree, mode, to, tree[n].end)

LEMMA ClonedRows ==
    ASSUME NEW tree, NEW mode, NEW to, CanMove(tree, mode, to)
    PROVE  IsCloned(tree, buildClonedNodes(tree, mode, to), mode, to)
<1> DEFINE new == buildClonedNodes(tree, mode, to)
           span == findDateSpan(tree)
           dates(row) == IF row.kind = "ITEM"
                         THEN remapDatePair([start |-> row.start, end |-> row.end], span, mode, to)
                         ELSE [start |-> row.start, end |-> row.end]
<1>1. DOMAIN new = {n + IdOffset : n \in DOMAIN tree}
  BY DEF buildClonedNodes
<1>2. ASSUME NEW n \in DOMAIN tree
      PROVE  /\ new[n + IdOffset].kind = tree[n].kind /\ new[n + IdOffset].depth = tree[n].depth
             /\ new[n + IdOffset].order = tree[n].order
             /\ new[n + IdOffset].parent = NewParent(tree[n].parent)
             /\ tree[n].kind = "ITEM" =>
                   /\ new[n + IdOffset].start = Moves(tree, mode, to, tree[n].start)
                   /\ new[n + IdOffset].end = Moves(tree, mode, to, tree[n].end)
  <2>1. tree[n] \in TreeRow /\ n \in Nat
    BY DEF CanMove, IsTree
  <2>2. (n + IdOffset) - IdOffset = n /\ n + IdOffset \in {m + IdOffset : m \in DOMAIN tree}
    BY <2>1 DEF IdOffset
  <2>3. new[n + IdOffset]
          = [tree[n] EXCEPT !.parent = NewParent(tree[n].parent),
                            !.start = dates(tree[n]).start, !.end = dates(tree[n]).end]
    BY <2>2 DEF buildClonedNodes
  <2> DEFINE p == NewParent(tree[n].parent)
             s == dates(tree[n]).start
             e == dates(tree[n]).end
  <2>4. ASSUME tree[n].kind = "ITEM"
        PROVE  s = Moves(tree, mode, to, tree[n].start) /\ e = Moves(tree, mode, to, tree[n].end)
    <3> DEFINE first == Moves(tree, mode, to, tree[n].start)
               last == Moves(tree, mode, to, tree[n].end)
    <3>1. dates(tree[n]) = remapDatePair([start |-> tree[n].start, end |-> tree[n].end], span, mode, to)
      BY <2>4
    <3>2. dates(tree[n]) = [start |-> first,
              end |-> IF first # NoDay /\ last # NoDay /\ last < first THEN first ELSE last]
      BY <3>1 DEF remapDatePair, Moves
    <3>3. ASSUME first # NoDay, last # NoDay PROVE ~(last < first)
      <4>1. tree[n].start # NoDay /\ tree[n].end # NoDay
        BY <3>3 DEF Moves
      <4>2. tree[n].start <= tree[n].end
        BY <4>1 DEF CanMove, IsTree
      <4>3. tree[n].start \in DaysOf(tree) /\ tree[n].end \in DaysOf(tree)
        BY <2>4, <4>1 DEF DaysOf, ItemsOf
      <4>4. first <= last /\ first \in Nat /\ last \in Nat
        BY <4>2, <4>3, DaysMove
      <4> HIDE DEF first, last
      <4> QED
        BY <4>4
    <3> HIDE DEF first, last
    <3> QED
      BY <3>2, <3>3 DEF first, last
  <2> HIDE DEF p, s, e
  <2>5. new[n + IdOffset] = [tree[n] EXCEPT !.parent = p, !.start = s, !.end = e]
    BY <2>3 DEF p, s, e
  <2>6. new[n + IdOffset] = [kind |-> tree[n].kind, parent |-> p, depth |-> tree[n].depth,
                             order |-> tree[n].order, start |-> s, end |-> e]
    <3> HIDE DEF new
    <3> QED
      BY <2>1, <2>5 DEF TreeRow
  <2> HIDE DEF new
  <2> QED
    BY <2>4, <2>6 DEF p
<1> HIDE DEF new
<1>3. IsCloned(tree, new, mode, to)
  BY <1>1, <1>2 DEF IsCloned
<1> QED
  BY <1>3 DEF new

LEMMA ShapeIsCloned ==
    ASSUME NEW tree, NEW mode, NEW to, CanMove(tree, mode, to), NEW new,
           IsCloned(tree, new, mode, to)
    PROVE  SameShape(tree, new)
<1>1. /\ DOMAIN new = {n + IdOffset : n \in DOMAIN tree}
      /\ \A n \in DOMAIN tree :
            /\ new[n + IdOffset].kind = tree[n].kind /\ new[n + IdOffset].depth = tree[n].depth
            /\ new[n + IdOffset].order = tree[n].order
            /\ new[n + IdOffset].parent = NewParent(tree[n].parent)
  BY DEF IsCloned
<1>2. \A n \in DOMAIN tree : n \in Nat \ {0} /\ tree[n].parent \in Nat
  BY DEF CanMove, IsTree, TreeRow
<1>3. ASSUME NEW n \in DOMAIN tree
      PROVE  {m - IdOffset : m \in {m \in DOMAIN new : new[m].parent = n + IdOffset}}
               = {m \in DOMAIN tree : tree[m].parent = n}
  <2>1. \A m \in DOMAIN tree : new[m + IdOffset].parent = n + IdOffset <=> tree[m].parent = n
    BY <1>1, <1>2 DEF NewParent, IdOffset
  <2>2. ASSUME NEW k \in DOMAIN new, new[k].parent = n + IdOffset
        PROVE  k - IdOffset \in DOMAIN tree /\ tree[k - IdOffset].parent = n
    <3>1. PICK m \in DOMAIN tree : k = m + IdOffset
      BY <1>1
    <3>2. k - IdOffset = m
      BY <1>2, <3>1 DEF IdOffset
    <3> QED
      BY <2>1, <2>2, <3>1, <3>2
  <2>3. ASSUME NEW m \in DOMAIN tree, tree[m].parent = n
        PROVE  \E k \in DOMAIN new : new[k].parent = n + IdOffset /\ m = k - IdOffset
    <3>1. m = (m + IdOffset) - IdOffset /\ m + IdOffset \in DOMAIN new
      BY <1>1, <1>2 DEF IdOffset
    <3> QED
      BY <2>1, <2>3, <3>1
  <2> QED
    BY <2>2, <2>3
<1> QED
  BY <1>1, <1>3 DEF SameShape

\* The items and the days of the new tree.
LEMMA DaysAreCloned ==
    ASSUME NEW tree, NEW mode, NEW to, CanMove(tree, mode, to), NEW new,
           IsCloned(tree, new, mode, to)
    PROVE  /\ ItemsOf(new) = {n + IdOffset : n \in ItemsOf(tree)}
           /\ DaysOf(new) = {Moves(tree, mode, to, d) : d \in DaysOf(tree)}
           /\ Moved(tree, new)
                = {<<tree[n].start, Moves(tree, mode, to, tree[n].start)>> : n \in ItemsOf(tree)}
                  \cup {<<tree[n].end, Moves(tree, mode, to, tree[n].end)>> : n \in ItemsOf(tree)}
<1> DEFINE M(d) == Moves(tree, mode, to, d)
<1>1. /\ DOMAIN new = {n + IdOffset : n \in DOMAIN tree}
      /\ \A n \in DOMAIN tree : new[n + IdOffset].kind = tree[n].kind
      /\ \A n \in ItemsOf(tree) : new[n + IdOffset].start = M(tree[n].start)
                                  /\ new[n + IdOffset].end = M(tree[n].end)
  BY DEF IsCloned, ItemsOf
<1>2. ItemsOf(new) = {n + IdOffset : n \in ItemsOf(tree)}
  BY <1>1 DEF ItemsOf
<1>3. /\ \A d \in DaysOf(tree) : M(d) # NoDay
      /\ M(NoDay) = NoDay
  <2>1. \A d \in DaysOf(tree) : M(d) \in Nat
    BY DaysMove
  <2>2. M(NoDay) = NoDay
    BY DEF Moves
  <2> HIDE DEF M
  <2> QED
    BY <2>1, <2>2 DEF NoDay
<1> HIDE DEF M
<1>4. DaysOf(new) = ({M(tree[n].start) : n \in ItemsOf(tree)}
                     \cup {M(tree[n].end) : n \in ItemsOf(tree)}) \ {NoDay}
  BY <1>1, <1>2 DEF DaysOf
<1>5. DaysOf(new) = {M(d) : d \in DaysOf(tree)}
  BY <1>3, <1>4 DEF DaysOf
<1>6. Moved(tree, new) = {<<tree[n].start, M(tree[n].start)>> : n \in ItemsOf(tree)}
                         \cup {<<tree[n].end, M(tree[n].end)>> : n \in ItemsOf(tree)}
  BY <1>1 DEF Moved
<1> QED
  BY <1>2, <1>5, <1>6 DEF M

\* The first day goes to the first one, the last to the last.
LEMMA SpanIsMoved ==
    ASSUME NEW tree, NEW mode, NEW to, CanMove(tree, mode, to), NEW new,
           IsCloned(tree, new, mode, to)
    PROVE  /\ DaysOf(tree) = {} => findDateSpan(new) = NoSpan /\ findDateSpan(tree) = NoSpan
           /\ DaysOf(tree) # {} =>
                 findDateSpan(new) = [start |-> Moves(tree, mode, to, findDateSpan(tree).start),
                                      end   |-> Moves(tree, mode, to, findDateSpan(tree).end)]
<1> DEFINE M(d) == Moves(tree, mode, to, d)
           S == DaysOf(tree)
<1>1. DaysOf(new) = {M(d) : d \in S}
  BY DaysAreCloned
<1>2. ASSUME S = {} PROVE findDateSpan(new) = NoSpan /\ findDateSpan(tree) = NoSpan
  BY <1>1, <1>2, NoSpanFacts
<1>3. ASSUME S # {}
      PROVE  findDateSpan(new) = [start |-> M(findDateSpan(tree).start),
                                  end |-> M(findDateSpan(tree).end)]
  <2> DEFINE s == findDateSpan(tree).start
             e == findDateSpan(tree).end
  <2>1. /\ s \in S /\ e \in S
        /\ \A d \in S : d \in Nat /\ s <= d /\ d <= e
    BY <1>3, SpanFacts DEF CanMove
  <2>2. /\ \A d \in S : M(d) \in Nat
        /\ \A c, d \in S : c <= d => M(c) <= M(d)
    BY DaysMove
  <2> HIDE DEF s, e, M, S
  <2>3. M(s) \in DaysOf(new) /\ M(e) \in DaysOf(new) /\ DaysOf(new) \subseteq Nat
    BY <1>1, <2>1, <2>2
  <2>4. \A d \in DaysOf(new) : M(s) <= d /\ d <= M(e)
    BY <1>1, <2>1, <2>2
  <2>5. findDateSpan(new) = [start |-> M(s), end |-> M(e)]
    BY <2>3, <2>4, SpanIs
  <2> QED
    BY <2>5 DEF s, e
<1> QED
  BY <1>2, <1>3

LEMMA DatesAreCloned ==
    ASSUME NEW tree, NEW r, CanMove(tree, r.mode, To(r)), NEW new,
           IsCloned(tree, new, r.mode, To(r))
    PROVE  DatesFit(tree, new, r)
<1> DEFINE M(d) == Moves(tree, r.mode, To(r), d)
           S == DaysOf(tree)
           moved == {p \in Moved(tree, new) : p[1] # NoDay}
           s == findDateSpan(tree).start
           e == findDateSpan(tree).end
<1>1. Moved(tree, new) = {<<tree[n].start, M(tree[n].start)>> : n \in ItemsOf(tree)}
                         \cup {<<tree[n].end, M(tree[n].end)>> : n \in ItemsOf(tree)}
  BY DaysAreCloned
<1>2. /\ \A d \in S : /\ d # NoDay /\ M(d) \in Nat
                      /\ r.mode = "KEEP" => M(d) = d
      /\ \A c, d \in S : /\ c <= d => M(c) <= M(d)
                         /\ r.mode # "FIT" => M(d) - M(c) = d - c
      /\ r.mode # "KEEP" => M(s) = r.start
      /\ r.mode = "FIT" => M(e) = IF s = e THEN r.start ELSE r.end
  BY DaysMove DEF To
<1>3. M(NoDay) = NoDay
  BY DEF Moves
<1>4. S # {} => /\ findDateSpan(new) = [start |-> M(s), end |-> M(e)]
                /\ s \in S /\ e \in S
                /\ \A d \in S : d \in Nat /\ s <= d /\ d <= e
  BY SpanIsMoved, SpanFacts DEF CanMove
<1>5. r.mode # "KEEP" => S # {}
  BY DEF CanMove
<1> HIDE DEF M, s, e
<1>6. /\ \A n \in ItemsOf(tree) : tree[n].start = NoDay \/ tree[n].start \in S
      /\ \A n \in ItemsOf(tree) : tree[n].end = NoDay \/ tree[n].end \in S
      /\ \A d \in S : \E n \in ItemsOf(tree) : d = tree[n].start \/ d = tree[n].end
  BY DEF DaysOf
<1> HIDE DEF S
<1>7. \A p \in Moved(tree, new) : \/ p = <<NoDay, NoDay>>
                                  \/ \E d \in S : p = <<d, M(d)>>
  BY <1>1, <1>3, <1>6
<1>8. \A d \in S : <<d, M(d)>> \in moved
  BY <1>1, <1>2, <1>6
<1>9. \A p \in moved : p[1] \in S /\ p[2] = M(p[1])
  BY <1>7
<1>10. {p[1] : p \in moved} = S
  <2>1. \A d \in S : \E p \in moved : d = p[1]
    <3>1. \A d \in S : <<d, M(d)>>[1] = d
      OBVIOUS
    <3> HIDE DEF moved
    <3> QED
      BY <1>8, <3>1
  <2> HIDE DEF moved
  <2> QED
    BY <1>9, <2>1
<1>11. \A p \in Moved(tree, new) : p[1] = NoDay <=> p[2] = NoDay
  BY <1>2, <1>7 DEF NoDay
<1>12. \A p, q \in moved : /\ p[1] <= q[1] => p[2] <= q[2]
                           /\ r.mode # "FIT" => q[2] - p[2] = q[1] - p[1]
  BY <1>2, <1>9
<1>13. r.mode = "KEEP" => \A p \in moved : p[1] = p[2]
  BY <1>2, <1>9
<1>14. r.mode # "KEEP" => findDateSpan(new).start = r.start
  BY <1>2, <1>4, <1>5
<1>15. ASSUME r.mode = "FIT"
       PROVE  findDateSpan(new).end = IF Cardinality(S) = 1 THEN r.start ELSE r.end
  <2>1. S # {} /\ findDateSpan(new).end = IF s = e THEN r.start ELSE r.end
    BY <1>2, <1>4, <1>5, <1>15
  <2>2. ASSUME s = e PROVE Cardinality(S) = 1
    <3>1. S = {s}
      BY <1>4, <2>1, <2>2
    <3> QED
      BY <3>1, FS_Singleton
  <2>3. ASSUME Cardinality(S) = 1 PROVE s = e
    <3>1. IsFiniteSet(S)
      BY DaysOfTree DEF CanMove, S
    <3>2. \E x : S = {x}
      BY <2>3, <3>1, FS_Singleton
    <3> QED
      BY <1>4, <2>1, <3>2
  <2> QED
    BY <2>1, <2>2, <2>3
<1> HIDE DEF moved
<1>16. {p[1] : p \in moved} = S /\ moved = {p \in Moved(tree, new) : p[1] # NoDay}
  BY <1>10 DEF moved
<1> QED
  BY <1>11, <1>12, <1>13, <1>14, <1>15, <1>16 DEF DatesFit

\* The period the page announces for the rows it shows.
Announced(tree, mode, to) ==
    IF mode = "KEEP" THEN findDateSpan(tree)
    ELSE remapDatePair(findDateSpan(tree), findDateSpan(tree), mode, to)

LEMMA PeriodIsAnnounced ==
    ASSUME NEW tree, NEW mode, NEW to, CanMove(tree, mode, to), NEW new,
           IsCloned(tree, new, mode, to)
    PROVE  findDateSpan(new) = Announced(tree, mode, to)
<1> DEFINE M(d) == Moves(tree, mode, to, d)
           S == DaysOf(tree)
           s == findDateSpan(tree).start
           e == findDateSpan(tree).end
<1>1. CASE S = {}
  BY <1>1, SpanIsMoved DEF Announced, CanMove
<1>2. CASE S # {}
  <2>1. /\ findDateSpan(new) = [start |-> M(s), end |-> M(e)]
        /\ s \in S /\ e \in S
        /\ \A d \in S : d \in Nat /\ s <= d /\ d <= e
    BY <1>2, SpanIsMoved, SpanFacts DEF CanMove
  <2>2. /\ M(s) \in Nat /\ M(e) \in Nat /\ M(s) <= M(e) /\ (mode = "KEEP" => M(s) = s /\ M(e) = e)
    BY <2>1, DaysMove
  <2>3. CASE mode = "KEEP"
    <3>1. findDateSpan(tree) = [start |-> s, end |-> e]
      BY <1>2 DEF findDateSpan
    <3> QED
      BY <2>1, <2>2, <2>3, <3>1 DEF Announced
  <2>4. CASE mode # "KEEP"
    <3>1. Announced(tree, mode, to) = remapDatePair(findDateSpan(tree), findDateSpan(tree), mode, to)
      BY <2>4 DEF Announced
    <3>2. remapDatePair(findDateSpan(tree), findDateSpan(tree), mode, to)
            = [start |-> M(s),
               end |-> IF M(s) # NoDay /\ M(e) # NoDay /\ M(e) < M(s) THEN M(s) ELSE M(e)]
      BY DEF remapDatePair, Moves
    <3> HIDE DEF M, s, e
    <3>3. ~(M(e) < M(s))
      BY <2>2
    <3> QED
      BY <2>1, <3>1, <3>2, <3>3
  <2> QED
    BY <2>3, <2>4
<1> QED
  BY <1>1, <1>2

-------------------------------------------------------------------------------
(* The page and the request                                                *)

\* The page: what was given by hand is in the drafts, whatever arrived since.
IsDraft(d) == d = [role |-> d.role, inactive |-> d.inactive]

IsPage(p) ==
    /\ p = [users |-> p.users, members |-> p.members, nodes |-> p.nodes, drafts |-> p.drafts,
            seeded |-> p.seeded, byHand |-> p.byHand, mode |-> p.mode, start |-> p.start,
            end |-> p.end]
    /\ \A u \in DOMAIN p.drafts : IsDraft(p.drafts[u])

ByHandStays(p) ==
    \A c \in p.byHand : c[1] \in DOMAIN p.drafts /\ p.drafts[c[1]].role = c[2]

PageRight(p) ==
    /\ IsPage(p) /\ ByHandStays(p)
    /\ p.nodes \in Sources \cup {NotYet} /\ p.mode \in Modes
    /\ p.mode # "KEEP" => p.start \in Nat
    /\ p.mode = "FIT" => p.end \in Nat

\* The request: its people are those of the page, and what it has read can be moved.
IsRequest(q) ==
    q = [step |-> q.step, drafts |-> q.drafts, byHand |-> q.byHand, mode |-> q.mode,
         start |-> q.start, end |-> q.end, tree |-> q.tree]

PeopleRight(byHand, members) ==
    /\ \E u \in DOMAIN members : members[u] = "MANAGER"
    /\ \A c \in byHand :
          IF c[2] = "none" THEN c[1] \notin DOMAIN members
          ELSE c[1] \in DOMAIN members /\ members[c[1]] = c[2]

RequestRight(q) ==
    /\ IsRequest(q)
    /\ q.step # "idle" => PeopleRight(q.byHand, q.drafts) /\ q.mode \in Modes /\ IsPeriod(q.mode, To(q))
    /\ q.step = "read" => q.tree \in Sources /\ CanMove(q.tree, q.mode, To(q))

CloneInv == source \in Sources /\ PageRight(page) /\ RequestRight(request)

LEMMA IdleRequestFacts ==
    RequestRight(IdleRequest) /\ IdleRequest.step = "idle"
  BY DEF RequestRight, IsRequest, IdleRequest

LEMMA DraftFacts ==
    ASSUME NEW r, NEW i
    PROVE  IsDraft(Draft(r, i)) /\ Draft(r, i).role = r
  BY DEF IsDraft, Draft

\* What arrives never takes the place of a draft.
LEMMA DraftsMerge ==
    ASSUME NEW old, NEW more
    PROVE  LET merged == mergeMemberDrafts(old, more) IN
           /\ DOMAIN merged = DOMAIN old \cup DOMAIN more
           /\ \A u \in DOMAIN old : merged[u] = old[u]
           /\ \A u \in DOMAIN more \ DOMAIN old : merged[u] = more[u]
  BY DEF mergeMemberDrafts, With

LEMMA CloneInitRight ==
    ASSUME CloneInit
    PROVE  CloneInv
<1>1. PageRight(NoPage)
  BY DEF PageRight, IsPage, ByHandStays, NoPage, Modes
<1> QED
  BY <1>1, IdleRequestFacts DEF CloneInit, CloneInv

LEMMA PageStaysRight ==
    ASSUME CloneInv, CloneNext
    PROVE  PageRight(page')
<1> DEFINE P == page
<1> USE DEF CloneInv
<1>0. /\ IsPage(P) /\ ByHandStays(P)
      /\ P.nodes \in Sources \cup {NotYet} /\ P.mode \in Modes
      /\ P.mode # "KEEP" => P.start \in Nat
      /\ P.mode = "FIT" => P.end \in Nat
  BY DEF PageRight
<1>1. ASSUME NEW users, page' = [page EXCEPT !.users = users] PROVE PageRight(page')
  BY <1>0, <1>1 DEF PageRight, IsPage, ByHandStays
<1>2. ASSUME NEW members, page' = [page EXCEPT !.members = members] PROVE PageRight(page')
  BY <1>0, <1>2 DEF PageRight, IsPage, ByHandStays
<1>3. ASSUME NodesArrive PROVE PageRight(page')
  BY <1>0, <1>3 DEF PageRight, IsPage, ByHandStays, NodesArrive
<1>4. ASSUME Seed PROVE PageRight(page')
  <2> DEFINE seeds == [u \in DOMAIN page.members |->
                         IF u \in page.users THEN Draft(page.members[u], FALSE)
                         ELSE Draft("none", TRUE)]
             merged == mergeMemberDrafts(page.drafts, seeds)
             yes == TRUE
  <2>1. page' = [page EXCEPT !.drafts = merged, !.seeded = yes]
    BY <1>4 DEF Seed
  <2>2. \A u \in DOMAIN seeds : IsDraft(seeds[u])
    BY DraftFacts
  <2> HIDE DEF seeds, yes
  <2>3. /\ DOMAIN merged = DOMAIN page.drafts \cup DOMAIN seeds
        /\ \A u \in DOMAIN page.drafts : merged[u] = page.drafts[u]
        /\ \A u \in DOMAIN seeds \ DOMAIN page.drafts : merged[u] = seeds[u]
    BY DraftsMerge
  <2> HIDE DEF merged
  <2>4. \A u \in DOMAIN merged : IsDraft(merged[u])
    BY <1>0, <2>2, <2>3 DEF IsPage
  <2> QED
    BY <1>0, <2>1, <2>3, <2>4 DEF PageRight, IsPage, ByHandStays
<1>5. ASSUME NEW u \in People, addChecked(u) PROVE PageRight(page')
  <2> DEFINE more == [v \in {u} |-> Draft("MEMBER", FALSE)]
             merged == mergeMemberDrafts(page.drafts, more)
             hand == page.byHand \cup {<<u, "MEMBER">>}
  <2>1. page' = [page EXCEPT !.drafts = merged, !.byHand = hand] /\ u \notin DOMAIN page.drafts
    BY <1>5 DEF addChecked
  <2>2. DOMAIN more = {u} /\ IsDraft(more[u]) /\ more[u].role = "MEMBER"
    BY DraftFacts
  <2> HIDE DEF more
  <2>3. /\ DOMAIN merged = DOMAIN page.drafts \cup DOMAIN more
        /\ \A v \in DOMAIN page.drafts : merged[v] = page.drafts[v]
        /\ \A v \in DOMAIN more \ DOMAIN page.drafts : merged[v] = more[v]
    BY DraftsMerge
  <2> HIDE DEF merged
  <2>4. \A v \in DOMAIN merged : IsDraft(merged[v])
    BY <1>0, <2>2, <2>3 DEF IsPage
  <2>5. \A c \in hand : c[1] \in DOMAIN merged /\ merged[c[1]].role = c[2]
    BY <1>0, <2>1, <2>2, <2>3 DEF ByHandStays
  <2> HIDE DEF hand
  <2> QED
    BY <1>0, <2>1, <2>4, <2>5 DEF PageRight, IsPage, ByHandStays
<1>6. ASSUME NEW u \in People, NEW given, setRole(u, given) PROVE PageRight(page')
  <2> DEFINE d == [page.drafts[u] EXCEPT !.role = given]
             drafts == [page.drafts EXCEPT ![u] = d]
             hand == {p \in page.byHand : p[1] # u} \cup {<<u, given>>}
  <2>1. page' = [page EXCEPT !.drafts = drafts, !.byHand = hand] /\ u \in DOMAIN page.drafts
    BY <1>6 DEF setRole
  <2>2. IsDraft(d) /\ d.role = given
    BY <1>0, <2>1 DEF IsPage, IsDraft
  <2> HIDE DEF d
  <2>3. DOMAIN drafts = DOMAIN page.drafts /\ drafts[u] = d
        /\ \A v \in DOMAIN page.drafts : v # u => drafts[v] = page.drafts[v]
    BY <2>1
  <2> HIDE DEF drafts
  <2>4. \A v \in DOMAIN drafts : IsDraft(drafts[v])
    BY <1>0, <2>2, <2>3 DEF IsPage
  <2>5. \A c \in hand : c[1] \in DOMAIN drafts /\ drafts[c[1]].role = c[2]
    BY <1>0, <2>1, <2>2, <2>3 DEF ByHandStays
  <2> HIDE DEF hand
  <2> QED
    BY <1>0, <2>1, <2>4, <2>5 DEF PageRight, IsPage, ByHandStays
<1>7. ASSUME NEW mode \in {"SHIFT", "FIT"}, NEW start \in StartDates, NEW end \in EndDates,
             chooseDates(mode, start, end)
      PROVE  PageRight(page')
  <2> DEFINE last == IF mode = "FIT" THEN end ELSE NoDay
  <2>1. page' = [page EXCEPT !.mode = mode, !.start = start, !.end = last]
    BY <1>7 DEF chooseDates
  <2>2. start \in Nat /\ (mode = "FIT" => last \in Nat)
    BY NewDatesAssumption
  <2> HIDE DEF last
  <2> QED
    BY <1>0, <2>1, <2>2 DEF PageRight, IsPage, ByHandStays, Modes
<1>8. ASSUME UNCHANGED page PROVE PageRight(page')
  BY <1>8
<1>9. UsersArrive \/ MembersArrive => PageRight(page')
  BY <1>1, <1>2 DEF UsersArrive, MembersArrive
<1>10. onSubmit \/ CheckPeople \/ ReadRows \/ Save => UNCHANGED page
  BY DEF onSubmit, CheckPeople, ReadRows, Save
<1>11. (\E u \in People : Deactivate(u) \/ ChangeRoster(u)) \/ ChangeRows => UNCHANGED page
  BY DEF Deactivate, ChangeRoster, ChangeRows, Change
<1> QED
  BY <1>3, <1>4, <1>5, <1>6, <1>7, <1>8, <1>9, <1>10, <1>11 DEF CloneNext

LEMMA RequestStaysRight ==
    ASSUME CloneInv, CloneNext
    PROVE  RequestRight(request')
<1> USE DEF CloneInv
<1>1. ASSUME onSubmit PROVE RequestRight(request')
  <2> DEFINE chosen == {v \in DOMAIN page.drafts : page.drafts[v].role # "none"}
             people == [u \in chosen |-> page.drafts[u].role]
             q == [step |-> "sent", drafts |-> people, byHand |-> page.byHand, mode |-> page.mode,
                   start |-> page.start, end |-> page.end, tree |-> NotYet]
  <2>1. request' = q
    BY <1>1 DEF onSubmit, IdleRequest
  <2>2. PeopleRight(page.byHand, people)
    BY <1>1 DEF onSubmit, PeopleRight, PageRight, ByHandStays
  <2>3. page.mode \in Modes /\ IsPeriod(page.mode, [start |-> page.start, end |-> page.end])
    BY <1>1 DEF onSubmit, IsComplete, PageRight, IsPeriod
  <2> HIDE DEF people
  <2> QED
    BY <2>1, <2>2, <2>3 DEF RequestRight, IsRequest, To
<1>2. ASSUME CheckPeople PROVE RequestRight(request')
  <2>1. CASE Refused
    BY <2>1, IdleRequestFacts DEF Refused
  <2>2. CASE request' = [request EXCEPT !.step = "checked"]
    BY <1>2, <2>2 DEF CheckPeople, RequestRight, IsRequest, To
  <2> QED
    BY <1>2, <2>1, <2>2 DEF CheckPeople
<1>3. ASSUME ReadRows PROVE RequestRight(request')
  <2>1. CASE Refused
    BY <2>1, IdleRequestFacts DEF Refused
  <2>2. CASE /\ request' = [request EXCEPT !.step = "read", !.tree = source]
             /\ ~(request.mode # "KEEP" /\ findDateSpan(source) = NoSpan)
    <3>1. CanMove(source, request.mode, To(request))
      BY <1>3, <2>2, NoSpanFacts, SourcesAssumption DEF CanMove, ReadRows, RequestRight
    <3>2. request.mode = request'.mode /\ To(request) = To(request')
          /\ request'.step = "read" /\ request'.tree = source
          /\ request'.byHand = request.byHand /\ request'.drafts = request.drafts
          /\ IsRequest(request')
      BY <2>2 DEF RequestRight, IsRequest, To
    <3> QED
      BY <1>3, <3>1, <3>2 DEF RequestRight, ReadRows
  <2> QED
    BY <1>3, <2>1, <2>2 DEF ReadRows
<1>4. Save => RequestRight(request')
  BY IdleRequestFacts DEF Save, Refused
<1>5. UNCHANGED request => RequestRight(request')
  OBVIOUS
<1>6. UsersArrive \/ MembersArrive \/ NodesArrive \/ Seed => UNCHANGED request
  BY DEF UsersArrive, MembersArrive, NodesArrive, Seed
<1>7. \A u \in People : (addChecked(u) \/ \E given \in GivenRoles \cup {"none"} : setRole(u, given))
                           => UNCHANGED request
  BY DEF addChecked, setRole
<1>8. (\E mode \in {"SHIFT", "FIT"}, start \in StartDates, end \in EndDates :
         chooseDates(mode, start, end)) => UNCHANGED request
  BY DEF chooseDates
<1>9. (\E u \in People : Deactivate(u) \/ ChangeRoster(u)) \/ ChangeRows => UNCHANGED request
  BY DEF Deactivate, ChangeRoster, ChangeRows, Change
<1> QED
  BY <1>1, <1>2, <1>3, <1>4, <1>5, <1>6, <1>7, <1>8, <1>9 DEF CloneNext

LEMMA CloneStaysRight ==
    ASSUME CloneInv, [CloneNext]_cloneVars
    PROVE  CloneInv'
<1>1. CASE CloneNext
  <2>1. source' \in Sources
    BY <1>1 DEF CloneNext, CloneInv, UsersArrive, MembersArrive, NodesArrive, Seed, addChecked,
       setRole, chooseDates, onSubmit, CheckPeople, ReadRows, Save, Deactivate, ChangeRoster,
       ChangeRows
  <2> QED
    BY <1>1, <2>1, PageStaysRight, RequestStaysRight DEF CloneInv
<1>2. CASE UNCHANGED cloneVars
  BY <1>2 DEF cloneVars, CloneInv
<1> QED
  BY <1>1, <1>2

\* Only Save makes a project.
LEMMA OnlySaveClones ==
    ASSUME CloneNext, clone' # clone
    PROVE  Save
  BY DEF CloneNext, UsersArrive, MembersArrive, NodesArrive, Seed, addChecked,
     setRole, chooseDates, onSubmit, CheckPeople, ReadRows, Save, Deactivate, ChangeRoster,
     ChangeRows, Change

CloneRight ==
    LET old == request.tree
        new == clone'.tree
    IN  /\ SameShape(old, new)
        /\ DatesFit(old, new, request)
        /\ page.nodes = old /\ page.mode = request.mode
              /\ page.start = request.start /\ page.end = request.end =>
              findDateSpan(new) = preview
        /\ \E u \in DOMAIN clone'.members : clone'.members[u] = "MANAGER"
        /\ \A p \in request.byHand :
              IF p[2] = "none" THEN p[1] \notin DOMAIN clone'.members
              ELSE p[1] \in DOMAIN clone'.members /\ clone'.members[p[1]] = p[2]

LEMMA SaveIsFaithful ==
    ASSUME CloneInv, [CloneNext]_cloneVars, clone' # clone
    PROVE  CloneRight
<1> DEFINE old == request.tree
           new == buildClonedNodes(old, request.mode, To(request))
<1>1. Save
  BY OnlySaveClones DEF cloneVars
<1>2. clone' = [tree |-> new, members |-> request.drafts] /\ UNCHANGED page /\ request.step = "read"
  BY <1>1 DEF Save
<1>3. old \in Sources /\ CanMove(old, request.mode, To(request))
      /\ PeopleRight(request.byHand, request.drafts)
  BY <1>2 DEF CloneInv, RequestRight
<1>4. IsCloned(old, new, request.mode, To(request))
  BY <1>3, ClonedRows
<1> HIDE DEF new
<1>5. clone'.tree = new /\ clone'.members = request.drafts
  BY <1>2
<1>6. SameShape(old, new)
  BY <1>3, <1>4, ShapeIsCloned
<1>7. DatesFit(old, new, request)
  BY <1>3, <1>4, DatesAreCloned
<1>8. ASSUME page.nodes = old, page.mode = request.mode,
             page.start = request.start, page.end = request.end
      PROVE  findDateSpan(new) = preview
  <2>1. PageSpan = findDateSpan(old) /\ To(page) = To(request)
    BY <1>3, <1>8, SourcesAssumption DEF PageSpan, To
  <2>2. findDateSpan(new) = Announced(old, request.mode, To(request))
    BY <1>3, <1>4, PeriodIsAnnounced
  <2> QED
    BY <1>8, <2>1, <2>2 DEF preview, Announced
<1> QED
  BY <1>3, <1>5, <1>6, <1>7, <1>8 DEF CloneRight, PeopleRight

\* A project that is cloned has the tree the server has read, with its dates
\* where they were asked for, the period the page announced unless a row was
\* changed meanwhile, and the people who were chosen, whatever arrived in which
\* order (clone-tree.ts, clone-dates.ts, member-drafts.ts, ProjectClonePage.tsx).
THEOREM ClonesAreFaithful == MCSpec => CloneIsFaithful
<1>1. MCInit => CloneInv
  BY CloneInitRight DEF MCInit
<1>2. CloneInv /\ [MCNext]_<<vars, cloneVars, historyVars, part>> => [CloneNext]_cloneVars
  BY DEF MCNext
<1>3. CloneInv /\ [CloneNext]_cloneVars => CloneInv'
  BY CloneStaysRight
<1>4. CloneInv /\ [CloneNext]_cloneVars => [clone' # clone => CloneRight]_cloneVars
  BY SaveIsFaithful
<1> QED
  BY <1>1, <1>2, <1>3, <1>4, PTL DEF MCSpec, CloneIsFaithful, CloneRight

===============================================================================
