---------------------------- MODULE AccountsProofs -----------------------------
(***************************************************************************)
(* Theorems about Accounts, for any number of users, sessions and          *)
(* requests: what holds whatever runs together, and what holds as long as  *)
(* requests do not overlap; what follows from that for MCAccounts; about   *)
(* the functions of GroupTree on every tree of groups; and about Groups,   *)
(* for any number of groups, users and requests that overlap.              *)
(***************************************************************************)
EXTENDS MCAccounts, FiniteSetTheorems, WellFoundedInduction, TLAPS

(***************************************************************************)
(* What the steps of a request rely on: the guard has found a session, and *)
(* a count knows what it is for.                                           *)
(***************************************************************************)
GoodRequest ==
    {q \in Request : /\ q.step \in GuardSteps \cup {"extend"} => q.sid \in Sids
                     /\ q.step = "count" => q.next # "none"}

GoodAccount == {a \in Account : ~a.exists => a = Absent}

IInv ==
    /\ account \in [Users -> GoodAccount]
    /\ session \in [Sids -> Session]
    /\ req \in [Requests -> GoodRequest]
    /\ SessionsHaveOwners

USE DEF LoginSteps, GuardSteps, OwnSteps, AdminSteps

LEMMA IdleFacts == Idle \in GoodRequest /\ Idle.step = "idle" /\ Idle.sid = NULL
  BY DEF Idle, GoodRequest, Request, Steps

LEMMA AccountFacts ==
    /\ Absent \in GoodAccount /\ ~Absent.exists
    /\ \A w \in Passwords : NewAccount(w) \in GoodAccount /\ NewAccount(w).exists
  BY DEF Absent, NewAccount, GoodAccount, Account

\* What the parts of IInv say of one row, one session, one request.
LEMMA TypeFacts ==
    ASSUME IInv
    PROVE  /\ TypeOK
           /\ \A u \in Users : account[u] \in Account
           /\ \A s \in Sids : session[s] \in Session
           /\ \A r \in Requests : req[r] \in Request /\ req[r] \in GoodRequest
           /\ \A s \in Sids : IsRow(s) => session[s].user \in Users
  BY DEF IInv, GoodRequest, GoodAccount, TypeOK, SessionsHaveOwners, Exists

\* No account goes away and no session comes.
LEMMA OwnersStay ==
    ASSUME IInv,
           \A u \in Users : account[u].exists => account'[u].exists,
           \A s \in Sids : session'[s].state \in {"live", "expired"} =>
               IsRow(s) /\ session'[s].user = session[s].user
    PROVE  SessionsHaveOwners'
  BY DEF IInv, SessionsHaveOwners, Exists, IsRow

\* A request goes on to a step that relies on nothing.
LEMMA GotoFacts ==
    ASSUME IInv, NEW r \in Requests, NEW step \in Steps,
           step \notin GuardSteps \cup {"extend", "count"}
    PROVE  [req[r] EXCEPT !.step = step] \in GoodRequest
<1>1. req[r] \in Request
  BY TypeFacts
<1>2. [req[r] EXCEPT !.step = step] \in Request
  BY <1>1 DEF Request
<1>3. [req[r] EXCEPT !.step = step].step = step
  BY <1>1 DEF Request
<1> HIDE DEF Steps
<1> QED
  BY <1>2, <1>3 DEF GoodRequest

\* A step of a request that changes nothing else.
LEMMA RequestStep ==
    ASSUME IInv, NEW r \in Requests, NEW q \in GoodRequest,
           req' = [req EXCEPT ![r] = q], UNCHANGED <<account, session>>
    PROVE  IInv'
<1>1. SessionsHaveOwners'
  BY OwnersStay DEF IsRow
<1> QED
  BY <1>1 DEF IInv

\* A step that takes sessions away or changes their dates.
LEMMA SessionStep ==
    ASSUME IInv, NEW r \in Requests, NEW q \in GoodRequest,
           req' = [req EXCEPT ![r] = q], UNCHANGED account,
           session' \in [Sids -> Session],
           \A s \in Sids : session'[s].state \in {"live", "expired"} =>
               IsRow(s) /\ session'[s].user = session[s].user
    PROVE  IInv'
<1>1. SessionsHaveOwners'
  BY OwnersStay
<1> QED
  BY <1>1 DEF IInv

\* A step that writes the row of an account, or finds it gone.
LEMMA WriteStep ==
    ASSUME IInv, NEW r \in Requests, NEW u, NEW row, NEW step,
           WriteAccount(r, u, row, step),
           Exists(u) => row \in Account /\ row.exists,
           step \in {"idle", "login sweep", "destroy"}
    PROVE  IInv'
<1>1. req' = [req EXCEPT ![r] = Idle] \/ req' = [req EXCEPT ![r].step = step]
  BY DEF WriteAccount, Goto, Done
<1>2. [req[r] EXCEPT !.step = step] \in GoodRequest
  BY GotoFacts DEF Steps
<1>3. PICK q \in GoodRequest : req' = [req EXCEPT ![r] = q]
  BY <1>1, <1>2, IdleFacts DEF IInv
<1>4. CASE ~Exists(u)
  BY <1>3, <1>4, RequestStep DEF WriteAccount
<1>5. CASE Exists(u)
  <2>1. row \in GoodAccount
    BY <1>5 DEF GoodAccount
  <2>2. account' = [account EXCEPT ![u] = row] /\ UNCHANGED session
    BY <1>5 DEF WriteAccount
  <2>3. account' \in [Users -> GoodAccount]
    BY <2>1, <2>2 DEF IInv
  <2>4. \A v \in Users : account[v].exists => account'[v].exists
    BY <1>5, <2>2 DEF IInv
  <2>5. SessionsHaveOwners'
    BY <2>2, <2>4, OwnersStay DEF IsRow
  <2> QED
    BY <1>3, <2>2, <2>3, <2>5 DEF IInv
<1> QED
  BY <1>4, <1>5

\* A database of an earlier version has accounts and no sessions.
LEMMA InitHolds == Init => IInv
<1> SUFFICES ASSUME Init PROVE IInv
  OBVIOUS
<1>1. account \in [Users -> GoodAccount]
  <2>1. ASSUME NEW w \in Passwords, NEW l \in BOOLEAN
        PROVE  [NewAccount(w) EXCEPT !.mustChange = FALSE, !.legacy = l] \in GoodAccount
    BY DEF NewAccount, GoodAccount, Account
  <2> QED
    BY <2>1, AccountFacts DEF Init
<1>2. session \in [Sids -> Session] /\ \A s \in Sids : session[s].state = "unused"
  BY DEF Init, Unused, Session
<1>3. SessionsHaveOwners
  BY <1>2 DEF SessionsHaveOwners, IsRow
<1>4. req \in [Requests -> GoodRequest]
  BY IdleFacts DEF Init
<1> QED
  BY <1>1, <1>2, <1>3, <1>4 DEF IInv

-------------------------------------------------------------------------------
(* login                                                                   *)

LEMMA LoginHolds == ASSUME IInv, NEW r \in Requests, Login(r) PROVE IInv'
<1>1. CASE LoginRead(r)
  <2>1. PICK u \in Users :
           req' = [req EXCEPT ![r] = [Idle EXCEPT
                      !.step = "login write", !.target = u,
                      !.password = account[u].password, !.legacy = account[u].legacy]]
    BY <1>1 DEF LoginRead
  <2>2. account[u].password \in Passwords \cup {NULL} /\ account[u].legacy \in BOOLEAN
    BY TypeFacts DEF Account
  <2>3. [Idle EXCEPT !.step = "login write", !.target = u,
            !.password = account[u].password, !.legacy = account[u].legacy] \in GoodRequest
    BY <2>2 DEF Idle, GoodRequest, Request, Steps
  <2> QED
    BY <1>1, <2>1, <2>3, RequestStep DEF LoginRead
<1>2. CASE LoginWrite(r)
  <2>1. ASSUME Exists(req[r].target)
        PROVE  Rehashed(r) \in Account /\ Rehashed(r).exists
    <3>1. account[req[r].target] \in Account /\ account[req[r].target].exists
      BY <2>1, TypeFacts DEF Exists
    <3>2. req[r].password \in Passwords \cup {NULL}
      BY TypeFacts DEF Request
    <3> QED
      BY <3>1, <3>2 DEF Rehashed, Account
  <2> QED
    BY <1>2, <2>1, WriteStep DEF LoginWrite
<1>3. CASE LoginSweep(r)
  <2>1. [req[r] EXCEPT !.step = "login create"] \in GoodRequest
    BY GotoFacts DEF Steps
  <2>2. req' = [req EXCEPT ![r] = [req[r] EXCEPT !.step = "login create"]]
    BY <1>3 DEF LoginSweep, Goto, IInv
  <2>3. /\ session' \in [Sids -> Session]
        /\ \A s \in Sids : session'[s].state \in {"live", "expired"} =>
               IsRow(s) /\ session'[s].user = session[s].user
    BY <1>3, TypeFacts DEF LoginSweep, Session, IsRow
  <2>4. UNCHANGED account
    BY <1>3 DEF LoginSweep
  <2> QED
    BY <2>1, <2>2, <2>3, <2>4, SessionStep
<1>4. CASE LoginCreate(r)
  <2>1. req' = [req EXCEPT ![r] = Idle] /\ UNCHANGED account
    BY <1>4 DEF LoginCreate, Done
  <2>2. CASE UNCHANGED session
    BY <2>1, <2>2, IdleFacts, RequestStep
  <2>3. CASE MayOwn(req[r].target) /\ session' # session
    <3>1. PICK s \in Sids :
             session' = [session EXCEPT ![s] =
                [state |-> "live", user |-> req[r].target, with |-> req[r].password]]
      BY <1>4, <2>3 DEF LoginCreate
    <3>2. req[r].target \in Users /\ account[req[r].target].exists
          /\ req[r].password \in Passwords \cup {NULL}
      BY <2>3, TypeFacts DEF MayOwn, Exists, Request
    <3>3. session' \in [Sids -> Session]
      BY <3>1, <3>2 DEF IInv, Session
    <3>4. SessionsHaveOwners'
      BY <2>1, <3>1, <3>2 DEF IInv, SessionsHaveOwners, Exists, IsRow
    <3>5. req' \in [Requests -> GoodRequest]
      BY <2>1, IdleFacts DEF IInv
    <3> QED
      BY <2>1, <3>3, <3>4, <3>5 DEF IInv
  <2> QED
    BY <1>4, <2>2, <2>3 DEF LoginCreate
<1> QED
  BY <1>1, <1>2, <1>3, <1>4 DEF Login

-------------------------------------------------------------------------------
(* AuthGuard, and what users do themselves                                 *)

\* logout and the guard: the row goes if it is still there.
LEMMA DeleteRow ==
    ASSUME IInv, NEW r \in Requests, Done(r), UNCHANGED account, NEW s \in Sids,
           session' = IF IsRow(s) THEN [session EXCEPT ![s].state = "gone"] ELSE session
    PROVE  IInv'
<1>1. /\ session' \in [Sids -> Session]
      /\ \A t \in Sids : session'[t].state \in {"live", "expired"} =>
             IsRow(t) /\ session'[t].user = session[t].user
  BY DEF IInv, Session, IsRow
<1> QED
  BY <1>1, IdleFacts, SessionStep DEF Done

LEMMA GuardHolds == ASSUME IInv, NEW r \in Requests, Guard(r) PROVE IInv'
<1>1. CASE TouchRead(r)
  <2>1. PICK s \in Sids, step \in {"touch write", "touch delete"} :
           req' = [req EXCEPT ![r] = [Idle EXCEPT !.step = step, !.sid = s]]
    BY <1>1 DEF TouchRead
  <2>2. [Idle EXCEPT !.step = step, !.sid = s] \in GoodRequest
    BY DEF Idle, GoodRequest, Request, Steps
  <2> QED
    BY <1>1, <2>1, <2>2, RequestStep DEF TouchRead
<1>2. CASE TouchDelete(r)
  <2>1. req[r].sid \in Sids
    BY <1>2, TypeFacts DEF TouchDelete, GoodRequest
  <2> QED
    BY <1>2, <2>1, DeleteRow DEF TouchDelete
<1>3. CASE TouchWrite(r)
  <2>1. req[r].sid \in Sids /\ req[r] \in Request
    BY <1>3, TypeFacts DEF TouchWrite, GoodRequest
  <2>2. CASE ~IsRow(req[r].sid)
    BY <1>3, <2>2, IdleFacts, RequestStep DEF TouchWrite, Done
  <2>3. CASE IsRow(req[r].sid)
    <3> DEFINE u == session[req[r].sid].user
               admin == (u \in Admins)
               must == account[u].mustChange
               q == [req[r] EXCEPT !.step = "serve", !.actor = u, !.admin = admin,
                                   !.mustChange = must]
    <3>1. u \in Users /\ must \in BOOLEAN /\ admin \in BOOLEAN
      BY <2>1, <2>3, TypeFacts DEF Account
    <3>2. req' = [req EXCEPT ![r] = q]
      BY <1>3, <2>3 DEF TouchWrite, IInv
    <3> HIDE DEF u, admin, must
    <3>3. q \in Request /\ q.sid = req[r].sid /\ q.step = "serve"
      BY <2>1, <3>1 DEF Request, Steps
    <3>4. q \in GoodRequest
      BY <2>1, <3>3 DEF GoodRequest
    <3> QED
      BY <1>3, <3>2, <3>4, RequestStep DEF TouchWrite
  <2> QED
    BY <2>2, <2>3
<1>4. CASE ServeOther(r)
  BY <1>4, IdleFacts, RequestStep DEF ServeOther, Done
<1> QED
  BY <1>1, <1>2, <1>3, <1>4 DEF Guard

\* What the guard has let through has a session and nothing in hand.
LEMMA ServeFacts ==
    ASSUME IInv, NEW r \in Requests, Serves(r)
    PROVE  req[r] \in Request /\ req[r].sid \in Sids
  BY TypeFacts DEF Serves, GoodRequest

LEMMA OwnHolds == ASSUME IInv, NEW r \in Requests, Own(r) PROVE IInv'
<1>1. CASE Logout(r)
  BY <1>1, ServeFacts, DeleteRow DEF Logout
<1>2. CASE ExtendRead(r)
  <2>1. [req[r] EXCEPT !.step = "extend"] \in Request
        /\ [req[r] EXCEPT !.step = "extend"].sid = req[r].sid
        /\ [req[r] EXCEPT !.step = "extend"].step = "extend"
    BY <1>2, ServeFacts DEF ExtendRead, Request, Steps
  <2>2. [req[r] EXCEPT !.step = "extend"] \in GoodRequest
    BY <1>2, <2>1, ServeFacts DEF ExtendRead, GoodRequest
  <2>3. \/ req' = [req EXCEPT ![r] = [req[r] EXCEPT !.step = "extend"]]
        \/ req' = [req EXCEPT ![r] = Idle]
    BY <1>2 DEF ExtendRead, Goto, Done, IInv
  <2> QED
    BY <1>2, <2>2, <2>3, IdleFacts, RequestStep DEF ExtendRead
<1>3. CASE ExtendWrite(r)
  <2>1. req[r].sid \in Sids
    BY <1>3, TypeFacts DEF ExtendWrite, GoodRequest
  <2>2. /\ session' \in [Sids -> Session]
        /\ \A t \in Sids : session'[t].state \in {"live", "expired"} =>
               IsRow(t) /\ session'[t].user = session[t].user
    BY <1>3, <2>1 DEF ExtendWrite, Extended, IInv, Session, IsRow
  <2> QED
    BY <1>3, <2>2, IdleFacts, SessionStep DEF ExtendWrite, Done
<1>4. CASE ChangeRead(r)
  <2>1. PICK w \in Passwords : req' = [req EXCEPT ![r].step = "change", ![r].password = w]
    BY <1>4 DEF ChangeRead
  <2> DEFINE q == [req[r] EXCEPT !.step = "change", !.password = w]
  <2>2. req' = [req EXCEPT ![r] = q]
    BY <2>1 DEF IInv
  <2>3. q \in Request /\ q.step = "change"
    <3>1. req[r] \in Request
      BY <1>4, ServeFacts DEF ChangeRead
    <3>2. "change" \in Steps /\ w \in Passwords \cup {NULL}
      BY DEF Steps
    <3> QED
      BY <3>1, <3>2 DEF Request
  <2>4. q \in GoodRequest
    BY <2>3 DEF GoodRequest
  <2> QED
    BY <1>4, <2>2, <2>4, RequestStep DEF ChangeRead
<1>5. CASE ChangeWrite(r)
  <2> DEFINE u == req[r].actor
             row == [account[u] EXCEPT !.password = req[r].password,
                        !.legacy = FALSE, !.mustChange = FALSE]
  <2>1. ASSUME Exists(u) PROVE row \in Account /\ row.exists
    <3>1. account[u] \in Account /\ account[u].exists
      BY <2>1, TypeFacts DEF Exists
    <3>2. req[r].password \in Passwords \cup {NULL}
      BY TypeFacts DEF Request
    <3> QED
      BY <3>1, <3>2 DEF Account
  <2>2. WriteAccount(r, u, row, "idle")
    BY <1>5 DEF ChangeWrite
  <2> HIDE DEF u, row
  <2> QED
    BY <2>1, <2>2, WriteStep
<1> QED
  BY <1>1, <1>2, <1>3, <1>4, <1>5 DEF Own

-------------------------------------------------------------------------------
(* What administrators do                                                  *)

\* The requests that only look something up.
LEMMA AdminReads ==
    ASSUME IInv, NEW r \in Requests,
           \/ UpdateRead(r) \/ RetireRead(r) \/ ResetRead(r)
           \/ UnretireRead(r) \/ RemoveRead(r) \/ Count(r)
    PROVE  IInv'
<1>1. UNCHANGED <<account, session>>
  BY DEF UpdateRead, RetireRead, ResetRead, UnretireRead, RemoveRead, Count
<1>2. req[r] \in Request
  BY TypeFacts
<1>3. CASE UpdateRead(r)
  <2>1. PICK u \in Users, active \in BOOLEAN, step \in {"count", "update"} :
           req' = [req EXCEPT ![r].target = u, ![r].will = active,
                      ![r].was = account[u].active, ![r].next = "update",
                      ![r].step = step]
    BY <1>3 DEF UpdateRead
  <2> DEFINE was == account[u].active
             q == [req[r] EXCEPT !.target = u, !.will = active, !.was = was,
                                 !.next = "update", !.step = step]
  <2>2. req' = [req EXCEPT ![r] = q]
    BY <2>1 DEF IInv
  <2>3. was \in BOOLEAN
    BY TypeFacts DEF Account
  <2> HIDE DEF was
  <2>4. step \in Steps /\ step \notin GuardSteps \cup {"extend"}
    BY DEF Steps
  <2>5. q \in GoodRequest
    <3> HIDE DEF Steps
    <3>1. q \in Request
      BY <1>2, <2>3, <2>4 DEF Request
    <3>2. q.step = step /\ q.next = "update"
      BY <1>2 DEF Request
    <3> QED
      BY <2>4, <3>1, <3>2 DEF GoodRequest
  <2> QED
    BY <1>1, <2>2, <2>5, RequestStep
<1>4. CASE RetireRead(r)
  <2>1. PICK u \in Users, step \in {"count", "retire"} :
           req' = [req EXCEPT ![r].target = u, ![r].next = "retire", ![r].step = step]
    BY <1>4 DEF RetireRead
  <2> DEFINE q == [req[r] EXCEPT !.target = u, !.next = "retire", !.step = step]
  <2>2. req' = [req EXCEPT ![r] = q]
    BY <2>1 DEF IInv
  <2>3. q \in Request /\ q.step = step /\ q.next = "retire"
    <3>1. step \in Steps
      BY DEF Steps
    <3> HIDE DEF Steps
    <3> QED
      BY <1>2, <3>1 DEF Request
  <2>4. q \in GoodRequest
    BY <2>3 DEF GoodRequest
  <2> QED
    BY <1>1, <2>2, <2>4, RequestStep
<1>5. CASE ResetRead(r)
  <2>1. PICK u \in Users, w \in Passwords :
           req' = [req EXCEPT ![r].step = "reset", ![r].target = u, ![r].password = w]
    BY <1>5 DEF ResetRead
  <2> DEFINE q == [req[r] EXCEPT !.step = "reset", !.target = u, !.password = w]
  <2>2. req' = [req EXCEPT ![r] = q]
    BY <2>1 DEF IInv
  <2>3. q \in Request /\ q.step = "reset"
    BY <1>2 DEF Request, Steps
  <2>4. q \in GoodRequest
    BY <2>3 DEF GoodRequest
  <2> QED
    BY <1>1, <2>2, <2>4, RequestStep
<1>6. CASE UnretireRead(r) \/ RemoveRead(r)
  <2>1. PICK u \in Users, step \in {"unretire", "remove"} :
           req' = [req EXCEPT ![r].step = step, ![r].target = u]
    BY <1>6 DEF UnretireRead, RemoveRead
  <2> DEFINE q == [req[r] EXCEPT !.step = step, !.target = u]
  <2>2. req' = [req EXCEPT ![r] = q]
    BY <2>1 DEF IInv
  <2>3. q \in Request /\ q.step = step
    <3>1. step \in Steps
      BY DEF Steps
    <3> HIDE DEF Steps
    <3> QED
      BY <1>2, <3>1 DEF Request
  <2>4. q \in GoodRequest
    BY <2>3 DEF GoodRequest
  <2> QED
    BY <1>1, <2>2, <2>4, RequestStep
<1>7. CASE Count(r)
  <2>1. req[r].next \in {"update", "retire"}
    BY <1>2, <1>7, TypeFacts DEF Count, GoodRequest, Request
  <2>2. [req[r] EXCEPT !.step = req[r].next] \in GoodRequest
    BY <2>1, GotoFacts DEF Steps
  <2>3. \/ req' = [req EXCEPT ![r] = [req[r] EXCEPT !.step = req[r].next]]
        \/ req' = [req EXCEPT ![r] = Idle]
    BY <1>7 DEF Count, Goto, Done, IInv
  <2> QED
    BY <1>1, <2>2, <2>3, IdleFacts, RequestStep
<1> QED
  BY <1>3, <1>4, <1>5, <1>6, <1>7

\* The requests that write a row of an account.
LEMMA AdminWrites ==
    ASSUME IInv, NEW r \in Requests,
           UpdateWrite(r) \/ RetireWrite(r) \/ ResetWrite(r) \/ UnretireWrite(r)
    PROVE  IInv'
<1> DEFINE u == req[r].target
<1>1. ASSUME Exists(u) PROVE account[u] \in Account /\ account[u].exists
  BY <1>1, TypeFacts DEF Exists
<1>2. req[r].will \in BOOLEAN /\ req[r].password \in Passwords \cup {NULL}
  BY TypeFacts DEF Request
<1>3. CASE UpdateWrite(r)
  <2>1. PICK step \in {"idle", "destroy"} :
           WriteAccount(r, u, [account[u] EXCEPT !.active = req[r].will], step)
    BY <1>3 DEF UpdateWrite
  <2> HIDE DEF u
  <2>2. Exists(u) => /\ [account[u] EXCEPT !.active = req[r].will] \in Account
                     /\ [account[u] EXCEPT !.active = req[r].will].exists
    BY <1>1, <1>2 DEF Account
  <2> QED
    BY <2>1, <2>2, WriteStep
<1>4. CASE RetireWrite(r)
  <2>1. WriteAccount(r, u, [account[u] EXCEPT !.active = FALSE, !.retired = TRUE], "destroy")
    BY <1>4 DEF RetireWrite
  <2> HIDE DEF u
  <2>2. Exists(u) => /\ [account[u] EXCEPT !.active = FALSE, !.retired = TRUE] \in Account
                     /\ [account[u] EXCEPT !.active = FALSE, !.retired = TRUE].exists
    BY <1>1 DEF Account
  <2> QED
    BY <2>1, <2>2, WriteStep
<1>5. CASE ResetWrite(r)
  <2> DEFINE row == [account[u] EXCEPT !.password = req[r].password,
                        !.legacy = FALSE, !.mustChange = TRUE]
  <2>1. WriteAccount(r, u, row, "destroy")
    BY <1>5 DEF ResetWrite, AfterReset
  <2> HIDE DEF u
  <2>2. Exists(u) => row \in Account /\ row.exists
    BY <1>1, <1>2 DEF Account
  <2> HIDE DEF row
  <2> QED
    BY <2>1, <2>2, WriteStep
<1>6. CASE UnretireWrite(r)
  <2>1. WriteAccount(r, u, [account[u] EXCEPT !.active = TRUE, !.retired = FALSE], "idle")
    BY <1>6 DEF UnretireWrite
  <2> HIDE DEF u
  <2>2. Exists(u) => /\ [account[u] EXCEPT !.active = TRUE, !.retired = FALSE] \in Account
                     /\ [account[u] EXCEPT !.active = TRUE, !.retired = FALSE].exists
    BY <1>1 DEF Account
  <2> QED
    BY <2>1, <2>2, WriteStep
<1> QED
  BY <1>3, <1>4, <1>5, <1>6

LEMMA AdminHolds == ASSUME IInv, NEW r \in Requests, Administrate(r) PROVE IInv'
<1>1. CASE \/ UpdateRead(r) \/ RetireRead(r) \/ ResetRead(r)
           \/ UnretireRead(r) \/ RemoveRead(r) \/ Count(r)
  BY <1>1, AdminReads
<1>2. CASE UpdateWrite(r) \/ RetireWrite(r) \/ ResetWrite(r) \/ UnretireWrite(r)
  BY <1>2, AdminWrites
<1>3. CASE Destroy(r)
  <2>1. /\ session' \in [Sids -> Session]
        /\ \A s \in Sids : session'[s].state \in {"live", "expired"} =>
               IsRow(s) /\ session'[s].user = session[s].user
    BY <1>3, TypeFacts DEF Destroy, WithoutSessionsOf, Session, IsRow
  <2> QED
    BY <1>3, <2>1, IdleFacts, SessionStep DEF Destroy, Done
<1>4. CASE CreateUser(r)
  <2>1. PICK u \in Users, w \in Passwords :
           account' = [account EXCEPT ![u] = NewAccount(w)]
    BY <1>4 DEF CreateUser
  <2>2. account' \in [Users -> GoodAccount]
        /\ \A v \in Users : account[v].exists => account'[v].exists
    BY <2>1, AccountFacts DEF IInv
  <2>3. req' \in [Requests -> GoodRequest] /\ UNCHANGED session
    BY <1>4, IdleFacts DEF CreateUser, Done, IInv
  <2>4. SessionsHaveOwners'
    BY <2>2, <2>3, OwnersStay DEF IsRow
  <2> QED
    BY <2>2, <2>3, <2>4 DEF IInv
<1>5. CASE RemoveCommit(r)
  <2> DEFINE u == req[r].target
  <2>1. CASE UNCHANGED <<account, session>> /\ Done(r)
    BY <2>1, IdleFacts, RequestStep DEF Done
  <2>2. CASE /\ Exists(u)
             /\ account' = [account EXCEPT ![u] = Deleted(@)]
             /\ session' = WithoutSessionsOf(u)
             /\ req' = [q \in Requests |-> IF q = r THEN Idle ELSE Forget(req[q], u)]
    <3>1. account' \in [Users -> GoodAccount]
          /\ \A v \in Users \ {u} : account'[v] = account[v]
      BY <2>2, AccountFacts DEF IInv, Deleted
    <3>2. session' \in [Sids -> Session]
          /\ \A s \in Sids : session'[s].state \in {"live", "expired"} =>
                 session'[s] = session[s] /\ session[s].user # u
      BY <2>2, TypeFacts DEF WithoutSessionsOf, Session, IsRow
    <3>3. SessionsHaveOwners'
      BY <3>1, <3>2 DEF IInv, SessionsHaveOwners, Exists, IsRow
    <3>4. ASSUME NEW q \in Requests PROVE Forget(req[q], u) \in GoodRequest
      <4> DEFINE f == Forget(req[q], u)
      <4>1. req[q] \in Request /\ req[q] \in GoodRequest
        BY TypeFacts
      <4>2. f \in Request /\ f.step = req[q].step /\ f.sid = req[q].sid
            /\ f.next = req[q].next
        BY <4>1 DEF Forget, Request
      <4> HIDE DEF f
      <4>3. f \in GoodRequest
        BY <4>1, <4>2 DEF GoodRequest
      <4> QED
        BY <4>3 DEF f
    <3>5. req' \in [Requests -> GoodRequest]
      BY <2>2, <3>4, IdleFacts
    <3> QED
      BY <3>1, <3>2, <3>3, <3>5 DEF IInv
  <2> QED
    BY <1>5, <2>1, <2>2 DEF RemoveCommit
<1> QED
  BY <1>1, <1>2, <1>3, <1>4, <1>5 DEF Administrate

-------------------------------------------------------------------------------
(* The surroundings, and what holds always                                 *)

LEMMA SurroundingsHold == ASSUME IInv, Restart \/ Expire \/ ResetAdmin PROVE IInv'
<1>1. CASE Restart
  <2>1. account' \in [Users -> GoodAccount]
        /\ \A v \in Users : account[v].exists => account'[v].exists
    BY <1>1, AccountFacts, AdminsAssumption DEF Restart, IInv, Exists
  <2>2. req' \in [Requests -> GoodRequest] /\ UNCHANGED session
    BY <1>1, IdleFacts DEF Restart
  <2>3. SessionsHaveOwners'
    BY <2>1, <2>2, OwnersStay DEF IsRow
  <2> QED
    BY <2>1, <2>2, <2>3 DEF IInv
<1>2. CASE Expire
  <2>1. /\ session' \in [Sids -> Session]
        /\ \A s \in Sids : session'[s].state \in {"live", "expired"} =>
               IsRow(s) /\ session'[s].user = session[s].user
    BY <1>2 DEF Expire, IInv, Session, IsRow
  <2>2. UNCHANGED <<account, req>>
    BY <1>2 DEF Expire
  <2>3. SessionsHaveOwners'
    BY <2>1, <2>2, OwnersStay
  <2> QED
    BY <2>1, <2>2, <2>3 DEF IInv
<1>3. CASE ResetAdmin
  <2>1. PICK w \in Passwords :
           account' = [account EXCEPT ![InitialAdmin] =
                          [@ EXCEPT !.password = w, !.legacy = FALSE,
                                    !.mustChange = FALSE, !.active = TRUE]]
    BY <1>3 DEF ResetAdmin
  <2> DEFINE row == [account[InitialAdmin] EXCEPT !.password = w, !.legacy = FALSE,
                         !.mustChange = FALSE, !.active = TRUE]
  <2>2. row \in Account /\ row.exists
    BY <1>3, TypeFacts, AdminsAssumption DEF ResetAdmin, Exists, Account
  <2>3. account' = [account EXCEPT ![InitialAdmin] = row] /\ row \in GoodAccount
    BY <2>1, <2>2 DEF GoodAccount, IInv
  <2> HIDE DEF row
  <2>4. account' \in [Users -> GoodAccount]
        /\ \A v \in Users : account[v].exists => account'[v].exists
    BY <2>2, <2>3 DEF IInv
  <2>5. UNCHANGED <<session, req>>
    BY <1>3 DEF ResetAdmin
  <2>6. SessionsHaveOwners'
    BY <2>4, <2>5, OwnersStay DEF IsRow
  <2> QED
    BY <2>4, <2>5, <2>6 DEF IInv
<1> QED
  BY <1>1, <1>2, <1>3

LEMMA NextHolds == IInv /\ [Next]_vars => IInv'
<1> SUFFICES ASSUME IInv, Next \/ UNCHANGED vars PROVE IInv'
  OBVIOUS
<1>1. CASE UNCHANGED vars
  BY <1>1 DEF vars, IInv, SessionsHaveOwners, Exists, IsRow
<1>2. CASE Next
  BY <1>2, LoginHolds, GuardHolds, OwnHolds, AdminHolds, SurroundingsHold DEF Next
<1> QED
  BY <1>1, <1>2

THEOREM IInvHolds == Spec => []IInv
  BY InitHolds, NextHolds, PTL DEF Spec

(***************************************************************************)
(* The rows of users and sessions and what requests remember keep their    *)
(* types, whatever is deleted while requests are in flight.                *)
(***************************************************************************)
THEOREM AccountTypes == Spec => []TypeOK
<1>1. IInv => TypeOK
  BY TypeFacts
<1> QED
  BY <1>1, IInvHolds, PTL

(***************************************************************************)
(* A session never belongs to an account that does not exist: the foreign  *)
(* key and its cascade keep logins in flight from outliving the account    *)
(* (sessions.service.ts, create).                                          *)
(***************************************************************************)
THEOREM OwnersExist == Spec => []SessionsHaveOwners
<1>1. IInv => SessionsHaveOwners
  BY DEF IInv
<1> QED
  BY <1>1, IInvHolds, PTL

(***************************************************************************)
(* A session that was ended stays ended, whatever a touch or an extend in  *)
(* flight has read before (sessions.service.ts, 131-137).                  *)
(***************************************************************************)
THEOREM EndedStays == Spec => EndedForGood
<1> DEFINE Ended == \A s \in Sids : session[s].state = "gone" => session'[s].state = "gone"
<1>1. ASSUME IInv, NEW r \in Requests, Login(r) \/ Guard(r) PROVE Ended
  <2>1. CASE UNCHANGED session
    BY <2>1
  <2>2. CASE LoginSweep(r)
    BY <1>1, <2>2, TypeFacts DEF LoginSweep, Session
  <2>3. CASE LoginCreate(r) /\ session' # session
    <3>1. PICK t \in Sids :
             session[t] = Unused /\ \E row : session' = [session EXCEPT ![t] = row]
      BY <2>3 DEF LoginCreate
    <3>2. session[t].state # "gone"
      BY <3>1 DEF Unused
    <3> QED
      BY <1>1, <3>1, <3>2 DEF IInv
  <2>4. CASE TouchDelete(r)
    <3>1. req[r].sid \in Sids
      BY <1>1, <2>4, TypeFacts DEF TouchDelete, GoodRequest
    <3> QED
      BY <1>1, <2>4, <3>1 DEF TouchDelete, IInv, Session
  <2> QED
    BY <1>1, <2>1, <2>2, <2>3, <2>4
       DEF Login, Guard, LoginRead, LoginWrite, WriteAccount, TouchRead, TouchWrite,
           ServeOther
<1>2. ASSUME IInv, NEW r \in Requests, Own(r) PROVE Ended
  <2>1. CASE UNCHANGED session
    BY <2>1
  <2>2. CASE Logout(r)
    BY <1>2, <2>2, ServeFacts DEF Logout, IInv, Session
  <2>3. CASE ExtendWrite(r)
    <3>1. req[r].sid \in Sids
      BY <1>2, <2>3, TypeFacts DEF ExtendWrite, GoodRequest
    <3> QED
      BY <1>2, <2>3, <3>1 DEF ExtendWrite, Extended, IsRow, IInv, Session
  <2> QED
    BY <1>2, <2>1, <2>2, <2>3 DEF Own, ExtendRead, ChangeRead, ChangeWrite, WriteAccount
<1>3. ASSUME IInv, NEW r \in Requests, Administrate(r) PROVE Ended
  <2>1. CASE UNCHANGED session
    BY <2>1
  <2>2. CASE session' = WithoutSessionsOf(req[r].target)
    BY <1>3, <2>2, TypeFacts DEF WithoutSessionsOf, Session
  <2> QED
    BY <1>3, <2>1, <2>2
       DEF Administrate, UpdateRead, RetireRead, Count, UpdateWrite, RetireWrite,
           Destroy, CreateUser, ResetRead, ResetWrite, UnretireRead, UnretireWrite,
           RemoveRead, RemoveCommit, WriteAccount
<1>4. ASSUME IInv, Restart \/ Expire \/ ResetAdmin PROVE Ended
  BY <1>4 DEF Restart, Expire, ResetAdmin, IInv, Session
<1>5. IInv /\ [Next]_vars => [Ended]_vars
  BY <1>1, <1>2, <1>3, <1>4 DEF Next
<1> QED
  BY <1>5, IInvHolds, PTL DEF Spec, EndedForGood

-------------------------------------------------------------------------------
(* What holds as long as requests do not overlap                           *)

(***************************************************************************)
(* While one request runs alone, the others are idle before and after each *)
(* of its steps.                                                           *)
(***************************************************************************)
LEMMA RestIsIdle ==
    ASSUME IInv, OneAtATime, OneAtATime', NEW r \in Requests,
           Login(r) \/ Guard(r) \/ Own(r) \/ Administrate(r)
    PROVE  \A q \in Requests \ {r} : req[q] = Idle /\ req'[q] = Idle
<1>0. req = [q \in Requests |-> req[q]]
  BY DEF IInv
<1>1. \A q \in Requests \ {r} : req'[q] = req[q] \/ \E u : req'[q] = Forget(req[q], u)
  <2>1. CASE Login(r)
    BY <1>0, <2>1 DEF Login, LoginRead, LoginWrite, LoginSweep, LoginCreate, WriteAccount,
                      Goto, Done
  <2>2. CASE Guard(r)
    BY <1>0, <2>2 DEF Guard, TouchRead, TouchDelete, TouchWrite, ServeOther, Done
  <2>3. CASE Own(r)
    BY <1>0, <2>3 DEF Own, Logout, ExtendRead, ExtendWrite, ChangeRead, ChangeWrite,
                      WriteAccount, Goto, Done
  <2>4. CASE UpdateRead(r) \/ RetireRead(r) \/ Count(r) \/ UpdateWrite(r) \/ RetireWrite(r)
    BY <1>0, <2>4 DEF UpdateRead, RetireRead, Count, UpdateWrite, RetireWrite,
                      WriteAccount, Goto, Done
  <2>5. CASE Destroy(r) \/ CreateUser(r) \/ ResetRead(r) \/ ResetWrite(r) \/ UnretireRead(r)
             \/ UnretireWrite(r) \/ RemoveRead(r)
    BY <1>0, <2>5 DEF Destroy, CreateUser, ResetRead, ResetWrite, UnretireRead, UnretireWrite,
                      RemoveRead, WriteAccount, AfterReset, Goto, Done
  <2>6. CASE RemoveCommit(r)
    BY <1>0, <2>6 DEF RemoveCommit, Done
  <2> QED
    BY <2>1, <2>2, <2>3, <2>4, <2>5, <2>6 DEF Administrate
<1>2. \A u : Forget(Idle, u) = Idle
  BY DEF Forget, Idle
<1>3. CASE req[r] # Idle
  <2>1. \A q \in Requests \ {r} : req[q] = Idle
    BY <1>3 DEF OneAtATime
  <2> QED
    BY <1>1, <1>2, <2>1
<1>4. CASE req[r] = Idle
  <2>1. req[r].step = "idle"
    BY <1>4, IdleFacts
  <2>2. LoginRead(r) \/ TouchRead(r)
    BY <2>1 DEF Login, LoginWrite, LoginSweep, LoginCreate, Guard, TouchDelete, TouchWrite,
                ServeOther, Own, Logout, ExtendRead, ExtendWrite, ChangeRead, ChangeWrite,
                Administrate, UpdateRead, RetireRead, Count, UpdateWrite, RetireWrite, Destroy,
                CreateUser, ResetRead, ResetWrite, UnretireRead, UnretireWrite, RemoveRead,
                RemoveCommit, Serves, ServesAdmin
  <2>3. \A q \in Requests \ {r} : req'[q] = req[q]
    BY <1>0, <2>2 DEF LoginRead, TouchRead
  <2>4. req'[r] # Idle
    <3>1. CASE LoginRead(r)
      <4>1. PICK w, l, u : req' = [req EXCEPT ![r] = [Idle EXCEPT
               !.step = "login write", !.target = u, !.password = w, !.legacy = l]]
        BY <3>1 DEF LoginRead
      <4>2. [Idle EXCEPT !.step = "login write", !.target = u,
                !.password = w, !.legacy = l].step = "login write"
        BY DEF Idle
      <4> QED
        BY <1>0, <4>1, <4>2, IdleFacts
    <3>2. CASE TouchRead(r)
      <4>1. PICK s \in Sids, step \in {"touch write", "touch delete"} :
               req' = [req EXCEPT ![r] = [Idle EXCEPT !.step = step, !.sid = s]]
        BY <3>2 DEF TouchRead
      <4>2. [Idle EXCEPT !.step = step, !.sid = s].step = step
        BY DEF Idle
      <4> QED
        BY <1>0, <4>1, <4>2, IdleFacts
    <3> QED
      BY <2>2, <3>1, <3>2
  <2>5. \A q \in Requests \ {r} : req'[q] = Idle
    BY <2>4 DEF OneAtATime
  <2> QED
    BY <2>3, <2>5
<1> QED
  BY <1>3, <1>4

(***************************************************************************)
(* A request that is about to activate an account knows that it is not     *)
(* retired; one that only counts turns accounts off.                       *)
(***************************************************************************)
KnowsRetired(r) ==
    /\ req[r].step = "update" /\ req[r].will /\ Exists(req[r].target) =>
           ~account[req[r].target].retired
    /\ req[r].step = "count" /\ req[r].next = "update" => ~req[r].will

RInv == IInv /\ RetiredIsInactive /\ \A r \in Requests : KnowsRetired(r)

\* The requests that are idle know nothing that could be wrong.
LEMMA RetiredAfter ==
    ASSUME RInv, IInv', NEW r \in Requests, \A q \in Requests \ {r} : req'[q] = Idle,
           RetiredIsInactive', KnowsRetired(r)'
    PROVE  RInv'
<1>1. ASSUME NEW q \in Requests \ {r} PROVE KnowsRetired(q)'
  BY <1>1, IdleFacts DEF KnowsRetired
<1> QED
  BY <1>1 DEF RInv

\* A step that writes no account and is not about to activate one.
LEMMA RetiredStays ==
    ASSUME RInv, IInv', NEW r \in Requests, \A q \in Requests \ {r} : req'[q] = Idle,
           UNCHANGED account, NEW q \in GoodRequest, req' = [req EXCEPT ![r] = q],
           q.step \notin {"update", "count"}
    PROVE  RInv'
<1>1. req'[r] = q
  BY DEF RInv, IInv
<1>2. KnowsRetired(r)'
  BY <1>1 DEF KnowsRetired
<1> QED
  BY <1>2, RetiredAfter DEF RInv, RetiredIsInactive

\* A step that writes a row that is not both retired and active.
LEMMA RetiredWrite ==
    ASSUME RInv, IInv', NEW r \in Requests, \A q \in Requests \ {r} : req'[q] = Idle,
           NEW u, NEW row, NEW step \in {"idle", "login sweep", "destroy"},
           WriteAccount(r, u, row, step),
           Exists(u) => (row.retired => ~row.active)
    PROVE  RInv'
<1>1. req'[r].step \in {"idle", "login sweep", "destroy"}
  <2>1. req' = [req EXCEPT ![r] = Idle] \/ req' = [req EXCEPT ![r].step = step]
    BY DEF WriteAccount, Goto, Done
  <2>2. req[r] \in Request
    BY TypeFacts DEF RInv
  <2> QED
    <3>1. req \in [Requests -> GoodRequest]
      BY DEF RInv, IInv
    <3>2. [req[r] EXCEPT !.step = step].step = step
      BY <2>2 DEF Request
    <3>3. req'[r] \in {Idle, [req[r] EXCEPT !.step = step]}
      BY <2>1, <3>1
    <3> QED
      BY <3>2, <3>3, IdleFacts
<1>2. KnowsRetired(r)'
  BY <1>1 DEF KnowsRetired
<1>3. RetiredIsInactive'
  BY DEF WriteAccount, RInv, IInv, RetiredIsInactive
<1> QED
  BY <1>2, <1>3, RetiredAfter

LEMMA RetiredLogin ==
    ASSUME RInv, IInv', NEW r \in Requests, \A q \in Requests \ {r} : req'[q] = Idle,
           Login(r) \/ Guard(r) \/ Own(r)
    PROVE  RInv'
<1>0. /\ IInv /\ req[r] \in Request
      /\ \A u \in Users : account[u] \in Account /\ (account[u].retired => ~account[u].active)
  BY TypeFacts DEF RInv, RetiredIsInactive
<1>1. CASE UNCHANGED account
  <2>1. req'[r].step \notin {"update", "count"}
    <3>1. ASSUME NEW q, req' = [req EXCEPT ![r] = q], q.step \notin {"update", "count"}
          PROVE  req'[r].step \notin {"update", "count"}
      BY <1>0, <3>1 DEF IInv
    <3>2. Done(r) => req'[r].step \notin {"update", "count"}
      BY <3>1, IdleFacts DEF Done
    <3>3. ASSUME NEW step \in {"login sweep", "login create", "extend"}, Goto(r, step)
          PROVE  req'[r].step \notin {"update", "count"}
      BY <1>0, <3>3 DEF Goto, IInv, Request
    <3>4. CASE Login(r)
      <4>1. CASE LoginRead(r)
        <5>1. PICK w, l, u : req' = [req EXCEPT ![r] = [Idle EXCEPT
                 !.step = "login write", !.target = u, !.password = w, !.legacy = l]]
          BY <4>1 DEF LoginRead
        <5>2. [Idle EXCEPT !.step = "login write", !.target = u,
                  !.password = w, !.legacy = l].step = "login write"
          BY DEF Idle
        <5> QED
          BY <3>1, <5>1, <5>2
      <4> QED
        BY <3>2, <3>3, <3>4, <4>1
           DEF Login, LoginWrite, LoginSweep, LoginCreate, WriteAccount
    <3>5. CASE Guard(r)
      <4>1. CASE TouchRead(r)
        <5>1. PICK s \in Sids, step \in {"touch write", "touch delete"} :
                 req' = [req EXCEPT ![r] = [Idle EXCEPT !.step = step, !.sid = s]]
          BY <4>1 DEF TouchRead
        <5>2. [Idle EXCEPT !.step = step, !.sid = s].step = step
          BY DEF Idle
        <5> QED
          BY <3>1, <5>1, <5>2
      <4>2. CASE TouchWrite(r)
        <5>1. CASE Done(r)
          BY <3>2, <5>1
        <5>2. CASE ~Done(r)
          <6> DEFINE u == session[req[r].sid].user
                     admin == (u \in Admins)
                     must == account[u].mustChange
          <6>1. req' = [req EXCEPT ![r].step = "serve", ![r].actor = u,
                              ![r].admin = admin, ![r].mustChange = must]
            BY <4>2, <5>2 DEF TouchWrite
          <6> HIDE DEF u, admin, must
          <6> QED
            BY <1>0, <6>1 DEF IInv, Request
        <5> QED
          BY <5>1, <5>2
      <4> QED
        BY <3>2, <3>5, <4>1, <4>2 DEF Guard, TouchDelete, ServeOther
    <3>6. CASE Own(r)
      <4>1. CASE ChangeRead(r)
        BY <1>0, <4>1 DEF ChangeRead, IInv, Request
      <4> QED
        BY <3>2, <3>3, <3>6, <4>1
           DEF Own, Logout, ExtendRead, ExtendWrite, ChangeWrite, WriteAccount
    <3> QED
      BY <3>4, <3>5, <3>6
  <2>2. KnowsRetired(r)'
    BY <2>1 DEF KnowsRetired
  <2> QED
    BY <1>1, <2>2, RetiredAfter DEF RInv, RetiredIsInactive
<1>2. CASE LoginWrite(r)
  <2>1. Exists(req[r].target) => (Rehashed(r).retired => ~Rehashed(r).active)
    BY <1>0 DEF Rehashed, Exists, Account
  <2> QED
    BY <1>2, <2>1, RetiredWrite DEF LoginWrite
<1>3. CASE ChangeWrite(r)
  <2> DEFINE u == req[r].actor
             row == [account[u] EXCEPT !.password = req[r].password,
                        !.legacy = FALSE, !.mustChange = FALSE]
  <2>1. Exists(u) => (row.retired => ~row.active)
    BY <1>0 DEF Exists, Account
  <2>2. WriteAccount(r, u, row, "idle")
    BY <1>3 DEF ChangeWrite
  <2> HIDE DEF u, row
  <2> QED
    BY <2>1, <2>2, RetiredWrite
<1> QED
  BY <1>1, <1>2, <1>3
     DEF Login, LoginRead, LoginSweep, LoginCreate, Guard, TouchRead, TouchWrite,
         TouchDelete, ServeOther, Own, Logout, ExtendRead, ExtendWrite, ChangeRead

LEMMA RetiredAdministrate ==
    ASSUME RInv, IInv', NEW r \in Requests, \A q \in Requests \ {r} : req'[q] = Idle,
           Administrate(r)
    PROVE  RInv'
<1>0. /\ IInv /\ req[r] \in Request
      /\ \A u \in Users : account[u] \in Account /\ (account[u].retired => ~account[u].active)
  BY TypeFacts DEF RInv, RetiredIsInactive
<1>1. CASE UpdateRead(r)
  <2>1. PICK u \in Users, active \in BOOLEAN, step \in {"count", "update"} :
           /\ account[u].retired => ~active
           /\ step = "count" => ~active
           /\ req' = [req EXCEPT ![r].target = u, ![r].will = active,
                        ![r].was = account[u].active, ![r].next = "update",
                        ![r].step = step]
    <3>1. PICK u \in Users, active \in BOOLEAN :
             /\ MaySet(u, active)
             /\ req' = [req EXCEPT ![r].target = u, ![r].will = active,
                        ![r].was = account[u].active, ![r].next = "update",
                        ![r].step = IF ~active /\ Counts(u) THEN "count" ELSE "update"]
      BY <1>1 DEF UpdateRead
    <3>2. PICK step \in {"count", "update"} :
             /\ step = "count" => ~active
             /\ step = IF ~active /\ Counts(u) THEN "count" ELSE "update"
      OBVIOUS
    <3>3. account[u].retired => ~active
      BY <3>1 DEF MaySet
    <3> QED
      BY <3>1, <3>2, <3>3
  <2>2. req'[r].target = u /\ req'[r].will = active /\ req'[r].step = step
    BY <1>0, <2>1 DEF IInv, Request
  <2>3. UNCHANGED account
    BY <1>1 DEF UpdateRead
  <2>4. KnowsRetired(r)'
    BY <2>1, <2>2, <2>3 DEF KnowsRetired
  <2> QED
    BY <2>3, <2>4, RetiredAfter DEF RInv, RetiredIsInactive
<1>2. CASE RetireRead(r)
  <2>1. PICK u \in Users, step \in {"count", "retire"} :
           req' = [req EXCEPT ![r].target = u, ![r].next = "retire", ![r].step = step]
    BY <1>2 DEF RetireRead
  <2>2. req'[r].next = "retire" /\ req'[r].step = step
    BY <1>0, <2>1 DEF IInv, Request
  <2>3. KnowsRetired(r)'
    BY <2>2 DEF KnowsRetired
  <2> QED
    BY <1>2, <2>3, RetiredAfter DEF RetireRead, RInv, RetiredIsInactive
<1>3. CASE Count(r)
  <2>1. req' = [req EXCEPT ![r] = Idle] \/ req' = [req EXCEPT ![r].step = req[r].next]
    BY <1>3 DEF Count, Goto, Done
  <2>2. \/ req'[r].step = "idle"
        \/ req'[r].step = req[r].next /\ req'[r].will = req[r].will
    BY <1>0, <2>1, IdleFacts DEF IInv, Request
  <2>3. req[r].next = "update" => ~req[r].will
    BY <1>3 DEF Count, RInv, KnowsRetired
  <2>4. req[r].next \in {"none", "update", "retire"}
    BY <1>0 DEF Request
  <2>5. KnowsRetired(r)'
    BY <2>2, <2>3, <2>4 DEF KnowsRetired
  <2> QED
    BY <1>3, <2>5, RetiredAfter DEF Count, RInv, RetiredIsInactive
<1>4. CASE UpdateWrite(r)
  <2> DEFINE u == req[r].target
             row == [account[u] EXCEPT !.active = req[r].will]
  <2>1. PICK step \in {"idle", "destroy"} : WriteAccount(r, u, row, step)
    BY <1>4 DEF UpdateWrite
  <2>2. ASSUME Exists(u) PROVE row.retired => ~row.active
    <3>1. account[u] \in Account /\ (req[r].will => ~account[u].retired)
      BY <1>0, <1>4, <2>2 DEF UpdateWrite, RInv, KnowsRetired, Exists
    <3> QED
      BY <3>1 DEF Account
  <2> HIDE DEF u, row
  <2> QED
    BY <2>1, <2>2, RetiredWrite
<1>5. CASE RetireWrite(r)
  <2> DEFINE u == req[r].target
             row == [account[u] EXCEPT !.active = FALSE, !.retired = TRUE]
  <2>1. Exists(u) => (row.retired => ~row.active)
    BY <1>0 DEF Exists, Account
  <2>2. WriteAccount(r, u, row, "destroy")
    BY <1>5 DEF RetireWrite
  <2> HIDE DEF u, row
  <2> QED
    BY <2>1, <2>2, RetiredWrite
<1>6. CASE ResetWrite(r)
  <2> DEFINE u == req[r].target
             row == [account[u] EXCEPT !.password = req[r].password,
                        !.legacy = FALSE, !.mustChange = TRUE]
  <2>1. Exists(u) => (row.retired => ~row.active)
    BY <1>0 DEF Exists, Account
  <2>2. WriteAccount(r, u, row, "destroy")
    BY <1>6 DEF ResetWrite, AfterReset
  <2> HIDE DEF u, row
  <2> QED
    BY <2>1, <2>2, RetiredWrite
<1>7. CASE UnretireWrite(r)
  <2> DEFINE u == req[r].target
             row == [account[u] EXCEPT !.active = TRUE, !.retired = FALSE]
  <2>1. Exists(u) => (row.retired => ~row.active)
    BY <1>0 DEF Exists, Account
  <2>2. WriteAccount(r, u, row, "idle")
    BY <1>7 DEF UnretireWrite
  <2> HIDE DEF u, row
  <2> QED
    BY <2>1, <2>2, RetiredWrite
<1>8. CASE UnretireRead(r) \/ RemoveRead(r) \/ ResetRead(r)
  <2>1. req'[r].step \in {"unretire", "remove", "reset"}
    <3>1. CASE UnretireRead(r)
      BY <1>0, <3>1 DEF UnretireRead, IInv, Request
    <3>2. CASE RemoveRead(r)
      BY <1>0, <3>2 DEF RemoveRead, IInv, Request
    <3>3. CASE ResetRead(r)
      BY <1>0, <3>3 DEF ResetRead, IInv, Request
    <3> QED
      BY <1>8, <3>1, <3>2, <3>3
  <2>2. KnowsRetired(r)'
    BY <2>1 DEF KnowsRetired
  <2> QED
    BY <1>8, <2>2, RetiredAfter
       DEF UnretireRead, RemoveRead, ResetRead, RInv, RetiredIsInactive
<1>9. CASE Destroy(r) \/ CreateUser(r) \/ RemoveCommit(r)
  <2>1. req'[r] = Idle
    BY <1>0, <1>9 DEF Destroy, CreateUser, RemoveCommit, Done, IInv
  <2>2. KnowsRetired(r)'
    BY <2>1, IdleFacts DEF KnowsRetired
  <2>3. RetiredIsInactive'
    <3>1. ~Absent.retired /\ \A w \in Passwords : ~NewAccount(w).retired
      BY DEF Absent, NewAccount
    <3> QED
      BY <1>0, <1>9, <3>1
         DEF Destroy, CreateUser, RemoveCommit, Deleted, IInv, RetiredIsInactive
  <2> QED
    BY <2>2, <2>3, RetiredAfter
<1> QED
  BY <1>1, <1>2, <1>3, <1>4, <1>5, <1>6, <1>7, <1>8, <1>9 DEF Administrate

LEMMA RetiredStarts == Init => RInv
<1> SUFFICES ASSUME Init PROVE RInv
  OBVIOUS
<1>1. RetiredIsInactive
  <2>1. ~Absent.retired
    BY DEF Absent
  <2>2. ASSUME NEW w \in Passwords, NEW l \in BOOLEAN
        PROVE  ~[NewAccount(w) EXCEPT !.mustChange = FALSE, !.legacy = l].retired
    BY DEF NewAccount
  <2>3. PICK w \in Passwords :
           account \in [Users -> {Absent} \cup
                          {[NewAccount(w) EXCEPT !.mustChange = FALSE, !.legacy = l] :
                              l \in BOOLEAN}]
    BY DEF Init
  <2>4. ASSUME NEW u \in Users PROVE ~account[u].retired
    <3>1. \/ account[u] = Absent
          \/ \E l \in BOOLEAN :
                account[u] = [NewAccount(w) EXCEPT !.mustChange = FALSE, !.legacy = l]
      BY <2>3
    <3> QED
      BY <2>1, <2>2, <3>1
  <2> QED
    BY <2>4 DEF RetiredIsInactive
<1>2. \A r \in Requests : KnowsRetired(r)
  BY IdleFacts DEF Init, KnowsRetired
<1> QED
  BY <1>1, <1>2, InitHolds DEF RInv

LEMMA RetiredNext ==
    ASSUME RInv, OneAtATime, OneAtATime', [Next]_vars, ~ResetAdmin
    PROVE  RInv'
<1>1. IInv'
  BY NextHolds DEF RInv
<1>2. CASE UNCHANGED vars
  BY <1>1, <1>2 DEF vars, RInv, RetiredIsInactive, KnowsRetired, Exists
<1>3. ASSUME NEW r \in Requests, Login(r) \/ Guard(r) \/ Own(r) \/ Administrate(r)
      PROVE  RInv'
  <2>1. \A q \in Requests \ {r} : req'[q] = Idle
    BY <1>3, RestIsIdle DEF RInv
  <2> QED
    BY <1>1, <1>3, <2>1, RetiredLogin, RetiredAdministrate
<1>4. CASE Restart
  <2>1. \A w \in Passwords : ~NewAccount(w).retired
    BY DEF NewAccount
  <2>2. RetiredIsInactive'
    BY <1>4, <2>1 DEF Restart, RInv, IInv, RetiredIsInactive
  <2>3. \A r \in Requests : KnowsRetired(r)'
    BY <1>4, IdleFacts DEF Restart, KnowsRetired
  <2> QED
    BY <1>1, <2>2, <2>3 DEF RInv
<1>5. CASE Expire
  BY <1>1, <1>5 DEF Expire, RInv, RetiredIsInactive, KnowsRetired, Exists
<1> QED
  BY <1>2, <1>3, <1>4, <1>5 DEF Next

(***************************************************************************)
(* As long as requests do not overlap and sp-reset-admin.exe is not used,  *)
(* no retired account is active: update, retire and unretire keep the two  *)
(* columns together (users.service.ts, 310-319).  Without either, the runs *)
(* of the same property find the way around.                               *)
(***************************************************************************)
THEOREM RetiredStayOut ==
    ASSUME ~CliInUse
    PROVE  Spec /\ []OneAtATime => []RetiredIsInactive
<1>1. RInv /\ OneAtATime /\ OneAtATime' /\ [Next]_vars => RInv'
  BY RetiredNext DEF ResetAdmin
<1>2. RInv => RetiredIsInactive
  BY DEF RInv
<1> QED
  BY <1>1, <1>2, RetiredStarts, PTL DEF Spec

-------------------------------------------------------------------------------
(* Somebody is in charge                                                   *)

\* The steps that rely on something an administrator could change.
CarefulSteps == {"touch write", "serve", "count", "update", "retire", "remove"}

\* Most actions go on to a step that relies on nothing of this kind.
LEMMA CarelessAfter ==
    ASSUME IInv, NEW r \in Requests,
           \/ Login(r) \/ TouchDelete(r) \/ ServeOther(r) \/ Own(r) \/ UpdateWrite(r)
           \/ RetireWrite(r) \/ Destroy(r) \/ CreateUser(r) \/ ResetRead(r) \/ ResetWrite(r)
           \/ UnretireRead(r) \/ UnretireWrite(r) \/ RemoveCommit(r)
    PROVE  req'[r].step \notin CarefulSteps
<1>0. req = [q \in Requests |-> req[q]] /\ req[r] \in Request
  BY TypeFacts DEF IInv
<1>1. ASSUME NEW q, req' = [req EXCEPT ![r] = q], q.step \notin CarefulSteps
      PROVE  req'[r].step \notin CarefulSteps
  BY <1>0, <1>1
<1>2. Done(r) => req'[r].step \notin CarefulSteps
  BY <1>1, IdleFacts DEF Done, CarefulSteps
<1>3. ASSUME NEW step \in {"login sweep", "login create", "extend", "destroy"}, Goto(r, step)
      PROVE  req'[r].step \notin CarefulSteps
  BY <1>0, <1>3 DEF Goto, Request, CarefulSteps
<1>4. ASSUME NEW step \in {"idle", "login sweep", "destroy"}, NEW u, NEW row,
             WriteAccount(r, u, row, step)
      PROVE  req'[r].step \notin CarefulSteps
  BY <1>2, <1>3, <1>4 DEF WriteAccount
<1>5. CASE Login(r)
  <2>1. CASE LoginRead(r)
    <3>1. PICK w, l, u : req' = [req EXCEPT ![r] = [Idle EXCEPT
             !.step = "login write", !.target = u, !.password = w, !.legacy = l]]
      BY <2>1 DEF LoginRead
    <3>2. [Idle EXCEPT !.step = "login write", !.target = u,
              !.password = w, !.legacy = l].step = "login write"
      BY DEF Idle
    <3> QED
      BY <1>1, <3>1, <3>2 DEF CarefulSteps
  <2>2. CASE LoginWrite(r)
    BY <1>4, <2>2 DEF LoginWrite
  <2> QED
    BY <1>2, <1>3, <1>5, <2>1, <2>2 DEF Login, LoginSweep, LoginCreate
<1>6. CASE Own(r)
  <2>1. CASE ChangeRead(r)
    <3>1. PICK w : req' = [req EXCEPT ![r].step = "change", ![r].password = w]
      BY <2>1 DEF ChangeRead
    <3> QED
      BY <1>0, <3>1 DEF Request, CarefulSteps
  <2>2. CASE ChangeWrite(r)
    BY <1>4, <2>2 DEF ChangeWrite
  <2> QED
    BY <1>2, <1>3, <1>6, <2>1, <2>2 DEF Own, Logout, ExtendRead, ExtendWrite
<1>7. CASE TouchDelete(r) \/ ServeOther(r) \/ Destroy(r) \/ CreateUser(r)
  BY <1>2, <1>7 DEF TouchDelete, ServeOther, Destroy, CreateUser
<1>8. CASE UpdateWrite(r) \/ RetireWrite(r) \/ ResetWrite(r) \/ UnretireWrite(r)
  <2>1. \E step \in {"idle", "login sweep", "destroy"} : \E u, row : WriteAccount(r, u, row, step)
    BY <1>8 DEF UpdateWrite, RetireWrite, ResetWrite, UnretireWrite, AfterReset
  <2> QED
    BY <1>4, <2>1
<1>9. CASE ResetRead(r) \/ UnretireRead(r)
  <2>1. req'[r].step \in {"reset", "unretire"}
    <3>1. CASE ResetRead(r)
      <4>1. PICK u, w : req' = [req EXCEPT ![r].step = "reset", ![r].target = u, ![r].password = w]
        BY <3>1 DEF ResetRead
      <4> QED
        BY <1>0, <4>1 DEF Request
    <3>2. CASE UnretireRead(r)
      <4>1. PICK u : req' = [req EXCEPT ![r].step = "unretire", ![r].target = u]
        BY <3>2 DEF UnretireRead
      <4> QED
        BY <1>0, <4>1 DEF Request
    <3> QED
      BY <1>9, <3>1, <3>2
  <2> QED
    BY <2>1 DEF CarefulSteps
<1>10. CASE RemoveCommit(r)
  BY <1>0, <1>10, IdleFacts DEF RemoveCommit, Done, CarefulSteps
<1> QED
  BY <1>5, <1>6, <1>7, <1>8, <1>9, <1>10

(***************************************************************************)
(* What a request that runs alone can rely on: who acts is an active       *)
(* administrator, and who is turned off leaves another one.                *)
(***************************************************************************)
SomeOther(u) == \E a \in Admins \ {u} : IsActive(a)

InCharge(q) ==
    /\ q.step = "touch write" => IsActive(session[q.sid].user)
    /\ q.step = "serve" /\ q.admin => q.actor \in Admins /\ IsActive(q.actor)
    /\ q.step = "remove" => SomeOther(q.target)
    /\ (q.step = "retire" \/ (q.step = "update" /\ ~q.will)) /\ q.target \in Admins =>
          SomeOther(q.target)

CInv == IInv /\ SomeActiveAdmin /\ \A r \in Requests : InCharge(req[r])

LEMMA IdleInCharge == InCharge(Idle)
  BY IdleFacts DEF InCharge

LEMMA InChargeAfter ==
    ASSUME CInv, IInv', SomeActiveAdmin', NEW r \in Requests,
           \A q \in Requests \ {r} : req'[q] = Idle,
           InCharge(req[r])'
    PROVE  CInv'
<1>1. ASSUME NEW q \in Requests \ {r} PROVE InCharge(req[q])'
  BY <1>1, IdleFacts DEF InCharge
<1> QED
  BY <1>1 DEF CInv

LEMMA ReadsLeaveInCharge ==
    ASSUME CInv, IInv', NEW r \in Requests, \A q \in Requests \ {r} : req'[q] = Idle,
           TouchRead(r) \/ TouchWrite(r) \/ UpdateRead(r) \/ RetireRead(r) \/ Count(r)
           \/ RemoveRead(r)
    PROVE  CInv'
<1>0. /\ req = [q \in Requests |-> req[q]] /\ req[r] \in Request /\ IInv /\ InCharge(req[r])
      /\ SomeActiveAdmin
  BY TypeFacts DEF CInv, IInv
<1>1. UNCHANGED <<account, session>>
  BY DEF TouchRead, TouchWrite, UpdateRead, RetireRead, Count, RemoveRead
<1>2. SomeActiveAdmin'
  BY <1>0, <1>1 DEF SomeActiveAdmin, IsActive, Exists
<1>3. ASSUME NEW q, q = req'[r], InCharge(q) PROVE CInv'
  <2>1. InCharge(q)'
    BY <1>1, <1>3 DEF InCharge, SomeOther, IsActive, Exists
  <2>2. InCharge(req[r])'
    BY <1>3, <2>1 DEF InCharge
  <2> QED
    BY <1>2, <2>2, InChargeAfter
<1>4. CASE TouchRead(r)
  <2>1. PICK s \in Sids, step \in {"touch write", "touch delete"} :
           /\ step = "touch write" => IsActive(session[s].user)
           /\ req' = [req EXCEPT ![r] = [Idle EXCEPT !.step = step, !.sid = s]]
    BY <1>4 DEF TouchRead
  <2> DEFINE q == [Idle EXCEPT !.step = step, !.sid = s]
  <2>2. q = req'[r] /\ q.step = step /\ q.sid = s
    BY <1>0, <2>1 DEF Idle
  <2> HIDE DEF q
  <2>3. InCharge(q)
    BY <2>1, <2>2 DEF InCharge
  <2> QED
    BY <1>3, <2>2, <2>3
<1>5. CASE TouchWrite(r)
  <2>1. CASE Done(r)
    BY <1>0, <1>3, <2>1, IdleInCharge DEF Done
  <2>2. CASE ~Done(r)
    <3> DEFINE u == session[req[r].sid].user
               admin == (u \in Admins)
               must == account[u].mustChange
               q == [req[r] EXCEPT !.step = "serve", !.actor = u, !.admin = admin,
                                   !.mustChange = must]
    <3>1. req' = [req EXCEPT ![r].step = "serve", ![r].actor = u, ![r].admin = admin,
                             ![r].mustChange = must] /\ IsActive(u)
      BY <1>0, <1>5, <2>2 DEF TouchWrite, InCharge
    <3> HIDE DEF u, admin, must
    <3>2. q = req'[r] /\ q.step = "serve" /\ q.actor = u /\ q.admin = admin
      BY <1>0, <3>1 DEF Request
    <3> HIDE DEF q
    <3>3. InCharge(q)
      BY <3>1, <3>2 DEF InCharge, admin
    <3> QED
      BY <1>3, <3>2, <3>3
  <2> QED
    BY <2>1, <2>2
<1>6. CASE UpdateRead(r)
  <2>1. PICK u \in Users, active \in BOOLEAN :
           req' = [req EXCEPT ![r].target = u, ![r].will = active,
                      ![r].was = account[u].active, ![r].next = "update",
                      ![r].step = IF ~active /\ Counts(u) THEN "count" ELSE "update"]
    BY <1>6 DEF UpdateRead
  <2> DEFINE was == account[u].active
             step == IF ~active /\ Counts(u) THEN "count" ELSE "update"
             q == [req[r] EXCEPT !.target = u, !.will = active, !.was = was,
                                 !.next = "update", !.step = step]
  <2>2. q = req'[r]
    BY <1>0, <2>1
  <2>3. step = "count" \/ (step = "update" /\ (active \/ ~Counts(u)))
    OBVIOUS
  <2> HIDE DEF was, step
  <2>4. q.target = u /\ q.step = step /\ q.will = active
    BY <1>0 DEF Request
  <2> HIDE DEF q
  <2>5. u \in Admins /\ ~Counts(u) => SomeOther(u)
    BY <1>0 DEF Counts, SomeActiveAdmin, SomeOther, IsActive
  <2>6. InCharge(q)
    BY <2>3, <2>4, <2>5 DEF InCharge
  <2> QED
    BY <1>3, <2>2, <2>6
<1>7. CASE RetireRead(r)
  <2>1. PICK u \in Users :
           req' = [req EXCEPT ![r].target = u, ![r].next = "retire",
                        ![r].step = IF Counts(u) THEN "count" ELSE "retire"]
    BY <1>7 DEF RetireRead
  <2> DEFINE step == IF Counts(u) THEN "count" ELSE "retire"
             q == [req[r] EXCEPT !.target = u, !.next = "retire", !.step = step]
  <2>2. q = req'[r]
    BY <1>0, <2>1
  <2>3. step = "count" \/ (step = "retire" /\ ~Counts(u))
    OBVIOUS
  <2> HIDE DEF step
  <2>4. q.target = u /\ q.step = step
    BY <1>0 DEF Request
  <2> HIDE DEF q
  <2>5. u \in Admins /\ ~Counts(u) => SomeOther(u)
    BY <1>0 DEF Counts, SomeActiveAdmin, SomeOther, IsActive
  <2>6. InCharge(q)
    BY <2>3, <2>4, <2>5 DEF InCharge
  <2> QED
    BY <1>3, <2>2, <2>6
<1>8. CASE Count(r)
  <2>1. CASE Done(r)
    BY <1>0, <1>3, <2>1, IdleInCharge DEF Done
  <2>2. CASE SomeOther(req[r].target) /\ Goto(r, req[r].next)
    <3> DEFINE next == req[r].next
               q == [req[r] EXCEPT !.step = next]
    <3>1. q = req'[r]
      BY <1>0, <2>2 DEF Goto
    <3>2. next \in {"none", "update", "retire"}
      BY <1>0 DEF Request
    <3>3. q.step = next /\ q.target = req[r].target
      BY <1>0 DEF Request
    <3> HIDE DEF q, next
    <3>4. InCharge(q)
      BY <2>2, <3>2, <3>3 DEF InCharge
    <3> QED
      BY <1>3, <3>1, <3>4
  <2> QED
    BY <1>8, <2>1, <2>2 DEF Count, SomeOther
<1>9. CASE RemoveRead(r)
  <2>1. PICK u \in Users \ {req[r].actor} :
           req' = [req EXCEPT ![r].step = "remove", ![r].target = u]
    BY <1>9 DEF RemoveRead
  <2> DEFINE q == [req[r] EXCEPT !.step = "remove", !.target = u]
  <2>2. q = req'[r] /\ q.step = "remove" /\ q.target = u
    BY <1>0, <2>1 DEF Request
  <2>3. req[r].actor \in Admins /\ IsActive(req[r].actor)
    BY <1>0, <1>9 DEF RemoveRead, ServesAdmin, Serves, InCharge
  <2> HIDE DEF q
  <2>4. InCharge(q)
    BY <2>1, <2>2, <2>3 DEF InCharge, SomeOther
  <2> QED
    BY <1>3, <2>2, <2>4
<1> QED
  BY <1>4, <1>5, <1>6, <1>7, <1>8, <1>9

\* An active administrator whose row stays or stays active is still one.
LEMMA AdminStays ==
    ASSUME CInv, NEW a \in Admins, IsActive(a), account'[a].exists, account'[a].active
    PROVE  SomeActiveAdmin'
  BY AdminsAssumption DEF SomeActiveAdmin, IsActive, Exists

LEMMA WriteLeavesInCharge ==
    ASSUME CInv, NEW r \in Requests, NEW u, NEW row, NEW step, WriteAccount(r, u, row, step),
           Exists(u) => row.exists /\ (account[u].active => row.active \/ SomeOther(u))
    PROVE  SomeActiveAdmin'
<1>1. PICK a \in Admins : IsActive(a)
  BY DEF CInv, SomeActiveAdmin
<1>2. CASE ~Exists(u)
  BY <1>1, <1>2, AdminStays DEF WriteAccount, IsActive, Exists
<1>3. CASE Exists(u)
  <2>1. account' = [account EXCEPT ![u] = row] /\ u \in Users
    BY <1>3 DEF WriteAccount, Exists
  <2>2. \A v \in Users : account'[v] = IF v = u THEN row ELSE account[v]
    BY <2>1 DEF CInv, IInv
  <2>3. CASE a # u
    BY <1>1, <2>2, <2>3, AdminStays DEF IsActive, Exists
  <2>4. CASE a = u /\ row.active
    BY <1>1, <1>3, <2>2, <2>4, AdminStays DEF IsActive, Exists
  <2>5. CASE a = u /\ ~row.active
    <3>1. PICK b \in Admins \ {u} : IsActive(b)
      BY <1>1, <1>3, <2>5 DEF SomeOther, IsActive
    <3> QED
      BY <2>2, <3>1, AdminStays DEF IsActive, Exists
  <2> QED
    BY <2>3, <2>4, <2>5
<1> QED
  BY <1>2, <1>3

LEMMA WritesLeaveInCharge ==
    ASSUME CInv, IInv', NEW r \in Requests, \A q \in Requests \ {r} : req'[q] = Idle,
           \/ Login(r) \/ TouchDelete(r) \/ ServeOther(r) \/ Own(r) \/ UpdateWrite(r)
           \/ RetireWrite(r) \/ Destroy(r) \/ CreateUser(r) \/ ResetRead(r) \/ ResetWrite(r)
           \/ UnretireRead(r) \/ UnretireWrite(r) \/ RemoveCommit(r)
    PROVE  CInv'
<1>0. /\ req[r] \in Request /\ IInv /\ InCharge(req[r]) /\ SomeActiveAdmin
      /\ \A u \in Users : account[u] \in Account
  BY TypeFacts DEF CInv
<1>1. InCharge(req[r])'
  <2>1. req'[r].step \notin CarefulSteps
    BY <1>0, CarelessAfter
  <2> QED
    BY <2>1 DEF InCharge, CarefulSteps
<1>2. SomeActiveAdmin'
  <2>1. CASE UNCHANGED account
    BY <1>0, <2>1 DEF SomeActiveAdmin, IsActive, Exists
  <2>2. CASE LoginWrite(r)
    <3>1. ASSUME Exists(req[r].target)
          PROVE  Rehashed(r).exists /\ Rehashed(r).active = account[req[r].target].active
      BY <1>0, <3>1 DEF Rehashed, Exists, Account
    <3> QED
      BY <2>2, <3>1, WriteLeavesInCharge DEF LoginWrite
  <2>3. CASE ChangeWrite(r)
    <3> DEFINE u == req[r].actor
               row == [account[u] EXCEPT !.password = req[r].password,
                          !.legacy = FALSE, !.mustChange = FALSE]
    <3>1. Exists(u) => row.exists /\ row.active = account[u].active
      BY <1>0 DEF Exists, Account
    <3>2. WriteAccount(r, u, row, "idle")
      BY <2>3 DEF ChangeWrite
    <3> HIDE DEF u, row
    <3> QED
      BY <3>1, <3>2, WriteLeavesInCharge
  <2>4. CASE UpdateWrite(r)
    <3> DEFINE u == req[r].target
               row == [account[u] EXCEPT !.active = req[r].will]
    <3>1. PICK step : WriteAccount(r, u, row, step)
      BY <2>4 DEF UpdateWrite
    <3>2. Exists(u) => row.exists /\ row.active = req[r].will
      BY <1>0 DEF Exists, Account
    <3>3. req[r].will \/ SomeOther(u)
      <4>1. ~req[r].will /\ u \in Admins => SomeOther(u)
        BY <1>0, <2>4 DEF UpdateWrite, InCharge
      <4>2. u \notin Admins => SomeOther(u)
        BY <1>0 DEF SomeActiveAdmin, SomeOther
      <4> QED
        BY <4>1, <4>2
    <3> HIDE DEF u, row
    <3> QED
      BY <3>1, <3>2, <3>3, WriteLeavesInCharge
  <2>5. CASE RetireWrite(r)
    <3> DEFINE u == req[r].target
               row == [account[u] EXCEPT !.active = FALSE, !.retired = TRUE]
    <3>1. WriteAccount(r, u, row, "destroy")
      BY <2>5 DEF RetireWrite
    <3>2. Exists(u) => row.exists
      BY <1>0 DEF Exists, Account
    <3>3. SomeOther(u)
      <4>1. u \in Admins => SomeOther(u)
        BY <1>0, <2>5 DEF RetireWrite, InCharge
      <4>2. u \notin Admins => SomeOther(u)
        BY <1>0 DEF SomeActiveAdmin, SomeOther
      <4> QED
        BY <4>1, <4>2
    <3> HIDE DEF u, row
    <3> QED
      BY <3>1, <3>2, <3>3, WriteLeavesInCharge
  <2>6. CASE ResetWrite(r)
    <3> DEFINE u == req[r].target
               row == [account[u] EXCEPT !.password = req[r].password,
                          !.legacy = FALSE, !.mustChange = TRUE]
    <3>1. Exists(u) => row.exists /\ row.active = account[u].active
      BY <1>0 DEF Exists, Account
    <3>2. WriteAccount(r, u, row, AfterReset)
      BY <2>6 DEF ResetWrite
    <3> HIDE DEF u, row
    <3> QED
      BY <3>1, <3>2, WriteLeavesInCharge
  <2>7. CASE UnretireWrite(r)
    <3> DEFINE u == req[r].target
               row == [account[u] EXCEPT !.active = TRUE, !.retired = FALSE]
    <3>1. Exists(u) => row.exists /\ row.active
      BY <1>0 DEF Exists, Account
    <3>2. WriteAccount(r, u, row, "idle")
      BY <2>7 DEF UnretireWrite
    <3> HIDE DEF u, row
    <3> QED
      BY <3>1, <3>2, WriteLeavesInCharge
  <2>8. CASE CreateUser(r)
    <3>1. PICK u \in Users \ Admins : \E row : account' = [account EXCEPT ![u] = row]
      BY <2>8 DEF CreateUser
    <3>2. PICK a \in Admins : IsActive(a)
      BY <1>0 DEF SomeActiveAdmin
    <3>3. account'[a] = account[a]
      BY <1>0, <3>1, <3>2 DEF IInv, IsActive, Exists
    <3> QED
      BY <3>2, <3>3, AdminStays DEF IsActive, Exists
  <2>9. CASE RemoveCommit(r) /\ account' # account
    <3>1. SomeOther(req[r].target)
      BY <1>0, <2>9 DEF RemoveCommit, InCharge
    <3>2. PICK a \in Admins \ {req[r].target} : IsActive(a)
      BY <3>1 DEF SomeOther
    <3>3. account'[a] = account[a]
      BY <1>0, <2>9, <3>2 DEF RemoveCommit, IInv, IsActive, Exists
    <3> QED
      BY <3>2, <3>3, AdminStays DEF IsActive, Exists
  <2> QED
    BY <2>1, <2>2, <2>3, <2>4, <2>5, <2>6, <2>7, <2>8, <2>9
       DEF Login, LoginRead, LoginSweep, LoginCreate, TouchDelete, ServeOther, Own, Logout,
           ExtendRead, ExtendWrite, ChangeRead, Destroy, ResetRead, UnretireRead
<1> QED
  BY <1>1, <1>2, InChargeAfter

LEMMA SurroundingsLeaveInCharge ==
    ASSUME CInv, IInv', Restart \/ Expire \/ ResetAdmin
    PROVE  CInv'
<1>0. IInv /\ SomeActiveAdmin /\ InitialAdmin \in Admins /\ Admins \subseteq Users
  BY AdminsAssumption DEF CInv
<1>1. CASE Restart
  <2>1. SomeActiveAdmin'
    <3>1. CASE UNCHANGED account
      BY <1>0, <3>1 DEF SomeActiveAdmin, IsActive, Exists
    <3>2. CASE account' # account
      <4>1. PICK w \in Passwords : account' = [account EXCEPT ![InitialAdmin] = NewAccount(w)]
        BY <1>1, <3>2 DEF Restart
      <4>2. account'[InitialAdmin] = NewAccount(w)
        BY <1>0, <4>1 DEF IInv
      <4> QED
        BY <1>0, <4>2 DEF NewAccount, SomeActiveAdmin, IsActive, Exists
    <3> QED
      BY <3>1, <3>2
  <2>2. \A r \in Requests : InCharge(req[r])'
    BY <1>1, IdleFacts DEF Restart, InCharge
  <2> QED
    BY <2>1, <2>2 DEF CInv
<1>2. CASE Expire
  <2>1. UNCHANGED <<account, req>> /\ \A s \in Sids : session'[s].user = session[s].user
    BY <1>0, <1>2, TypeFacts DEF Expire, IInv, Session
  <2>2. SomeActiveAdmin'
    BY <1>0, <2>1 DEF SomeActiveAdmin, IsActive, Exists
  <2>3. ASSUME NEW r \in Requests PROVE InCharge(req[r])'
    <3>1. InCharge(req[r])
      BY DEF CInv
    <3>2. req[r].step = "touch write" => req[r].sid \in Sids
      BY <1>0, TypeFacts DEF GoodRequest, GuardSteps
    <3> QED
      BY <2>1, <3>1, <3>2 DEF InCharge, SomeOther, IsActive, Exists
  <2> QED
    BY <2>2, <2>3 DEF CInv
<1>3. CASE ResetAdmin
  <2>1. UNCHANGED <<session, req>>
    BY <1>3 DEF ResetAdmin
  <2>2. \A u \in Users : IsActive(u) => IsActive(u)'
    <3>1. PICK row : account' = [account EXCEPT ![InitialAdmin] = row] /\ row.exists /\ row.active
      <4>1. PICK w \in Passwords :
               account' = [account EXCEPT ![InitialAdmin] =
                              [@ EXCEPT !.password = w, !.legacy = FALSE,
                                        !.mustChange = FALSE, !.active = TRUE]]
        BY <1>3 DEF ResetAdmin
      <4>2. account[InitialAdmin] \in Account /\ account[InitialAdmin].exists
        BY <1>0, <1>3, TypeFacts DEF ResetAdmin, Exists
      <4> DEFINE row == [account[InitialAdmin] EXCEPT !.password = w, !.legacy = FALSE,
                                        !.mustChange = FALSE, !.active = TRUE]
      <4>3. row.exists /\ row.active
        BY <4>2 DEF Account
      <4>4. account' = [account EXCEPT ![InitialAdmin] = row]
        BY <4>1
      <4> QED
        BY <4>3, <4>4
    <3>2. \A u \in Users : account'[u] = IF u = InitialAdmin THEN row ELSE account[u]
      BY <1>0, <3>1 DEF IInv
    <3> QED
      BY <3>1, <3>2 DEF IsActive, Exists
  <2>3. SomeActiveAdmin'
    BY <1>0, <2>2 DEF SomeActiveAdmin
  <2>4. ASSUME NEW r \in Requests PROVE InCharge(req[r])'
    <3>1. InCharge(req[r])
      BY DEF CInv
    <3>2. \A u : SomeOther(u) => SomeOther(u)'
      BY <1>0, <2>2 DEF SomeOther
    <3>3. \A u : IsActive(u) => u \in Users
      BY DEF IsActive, Exists
    <3>4. PICK q : q = req[r] /\ q = req'[r]
      BY <2>1
    <3> QED
      BY <2>1, <2>2, <3>1, <3>2, <3>3, <3>4 DEF InCharge
  <2> QED
    BY <2>3, <2>4 DEF CInv
<1> QED
  BY <1>1, <1>2, <1>3

LEMMA CInvStarts == Init => CInv
<1> SUFFICES ASSUME Init PROVE CInv
  OBVIOUS
<1>1. SomeActiveAdmin
  <2>1. account[InitialAdmin] # Absent /\ InitialAdmin \in Users /\ Exists(InitialAdmin)
    <3>1. InitialAdmin \in Users /\ account[InitialAdmin].exists
      BY DEF Init, Exists
    <3> QED
      BY <3>1, AccountFacts DEF Exists
  <2>2. PICK w \in Passwords, l \in BOOLEAN :
           account[InitialAdmin] = [NewAccount(w) EXCEPT !.mustChange = FALSE, !.legacy = l]
    BY <2>1 DEF Init
  <2>3. account[InitialAdmin].active
    BY <2>2 DEF NewAccount
  <2> QED
    BY <2>1, <2>3, AdminsAssumption DEF SomeActiveAdmin, IsActive
<1>2. \A r \in Requests : InCharge(req[r])
  BY IdleInCharge DEF Init
<1> QED
  BY <1>1, <1>2, InitHolds DEF CInv

LEMMA CInvNext == CInv /\ OneAtATime /\ OneAtATime' /\ [Next]_vars => CInv'
<1> SUFFICES ASSUME CInv, OneAtATime, OneAtATime', [Next]_vars PROVE CInv'
  OBVIOUS
<1>1. IInv'
  BY NextHolds DEF CInv
<1>2. CASE UNCHANGED vars
  BY <1>1, <1>2 DEF vars, CInv, SomeActiveAdmin, InCharge, SomeOther, IsActive, Exists
<1>3. ASSUME NEW r \in Requests, Login(r) \/ Guard(r) \/ Own(r) \/ Administrate(r)
      PROVE  CInv'
  <2>1. \A q \in Requests \ {r} : req'[q] = Idle
    BY <1>3, RestIsIdle DEF CInv
  <2> QED
    BY <1>1, <1>3, <2>1, ReadsLeaveInCharge, WritesLeaveInCharge DEF Guard, Administrate
<1> QED
  BY <1>1, <1>2, <1>3, SurroundingsLeaveInCharge DEF Next

(***************************************************************************)
(* As long as requests do not overlap there is an administrator who can    *)
(* log in, whatever is updated, retired or removed, whenever the server    *)
(* dies and whatever sp-reset-admin.exe does (users.service.ts, 130-146    *)
(* and 330-342).                                                           *)
(***************************************************************************)
THEOREM SomebodyCanLogIn == Spec /\ []OneAtATime => []SomeActiveAdmin
<1>1. CInv => SomeActiveAdmin
  BY DEF CInv
<1> QED
  BY <1>1, CInvStarts, CInvNext, PTL DEF Spec

-------------------------------------------------------------------------------
(* Who is thrown out is out                                                *)

(***************************************************************************)
(* What a request that runs alone is certain of: a login, of the account   *)
(* and its password; an update, of what isActive was.                      *)
(***************************************************************************)
Certain(q) ==
    /\ q.step \in LoginSteps => IsActive(q.target) /\ q.password = account[q.target].password
    /\ (q.step = "update" \/ (q.step = "count" /\ q.next = "update")) /\ Exists(q.target) =>
          q.was = account[q.target].active

OInv == IInv /\ InactiveIsOut /\ ResetIsOut /\ \A r \in Requests : Certain(req[r])

LEMMA IdleIsCertain == Certain(Idle)
  BY IdleFacts DEF Certain, LoginSteps

\* Most steps are certain of nothing.
LEMMA UncertainAfter ==
    ASSUME IInv, NEW r \in Requests,
           \/ Guard(r) \/ Own(r) \/ UpdateWrite(r) \/ RetireRead(r) \/ RetireWrite(r)
           \/ Destroy(r) \/ CreateUser(r) \/ ResetRead(r) \/ ResetWrite(r)
           \/ UnretireRead(r) \/ UnretireWrite(r) \/ RemoveRead(r) \/ RemoveCommit(r)
    PROVE  /\ req'[r].step \notin LoginSteps \cup {"update"}
           /\ req'[r].step = "count" => req'[r].next # "update"
<1> DEFINE Unsure(q) == /\ q.step \notin LoginSteps \cup {"update"}
                        /\ q.step = "count" => q.next # "update"
<1>0. req = [q \in Requests |-> req[q]] /\ req[r] \in Request
  BY TypeFacts DEF IInv
<1>1. ASSUME NEW q, req' = [req EXCEPT ![r] = q], q.step \notin LoginSteps \cup {"update", "count"}
      PROVE  Unsure(req'[r])
  BY <1>0, <1>1
<1>2. Done(r) => Unsure(req'[r])
  BY <1>1, IdleFacts DEF Done, LoginSteps
<1>3. ASSUME NEW step \in {"idle", "extend", "destroy"}, Goto(r, step)
      PROVE  Unsure(req'[r])
  BY <1>0, <1>3 DEF Goto, Request, LoginSteps
<1>4. ASSUME NEW step \in {"idle", "destroy"}, NEW u, NEW row, WriteAccount(r, u, row, step)
      PROVE  Unsure(req'[r])
  BY <1>2, <1>3, <1>4 DEF WriteAccount
<1>5. CASE Guard(r)
  <2>1. CASE TouchRead(r)
    <3>1. PICK s \in Sids, step \in {"touch write", "touch delete"} :
             req' = [req EXCEPT ![r] = [Idle EXCEPT !.step = step, !.sid = s]]
      BY <2>1 DEF TouchRead
    <3>2. [Idle EXCEPT !.step = step, !.sid = s].step = step
      BY DEF Idle
    <3> QED
      BY <1>1, <3>1, <3>2 DEF LoginSteps
  <2>2. CASE TouchWrite(r) /\ ~Done(r)
    <3> DEFINE u == session[req[r].sid].user
               admin == (u \in Admins)
               must == account[u].mustChange
    <3>1. req' = [req EXCEPT ![r].step = "serve", ![r].actor = u, ![r].admin = admin,
                             ![r].mustChange = must]
      BY <2>2 DEF TouchWrite
    <3> HIDE DEF u, admin, must
    <3>2. req'[r].step = "serve"
      BY <1>0, <3>1 DEF Request
    <3> QED
      BY <3>2 DEF LoginSteps
  <2> QED
    BY <1>2, <1>5, <2>1, <2>2 DEF Guard, TouchDelete, ServeOther
<1>6. CASE Own(r)
  <2>1. CASE ChangeRead(r)
    <3>1. PICK w : req' = [req EXCEPT ![r].step = "change", ![r].password = w]
      BY <2>1 DEF ChangeRead
    <3>2. req'[r].step = "change"
      BY <1>0, <3>1 DEF Request
    <3> QED
      BY <3>2 DEF LoginSteps
  <2>2. CASE ChangeWrite(r)
    BY <1>4, <2>2 DEF ChangeWrite
  <2> QED
    BY <1>2, <1>3, <1>6, <2>1, <2>2 DEF Own, Logout, ExtendRead, ExtendWrite
<1>7. CASE Destroy(r) \/ CreateUser(r)
  BY <1>2, <1>7 DEF Destroy, CreateUser
<1>8. CASE UpdateWrite(r) \/ RetireWrite(r) \/ ResetWrite(r) \/ UnretireWrite(r)
  <2>1. \E step \in {"idle", "destroy"} : \E u, row : WriteAccount(r, u, row, step)
    BY <1>8 DEF UpdateWrite, RetireWrite, ResetWrite, UnretireWrite, AfterReset
  <2> QED
    BY <1>4, <2>1
<1>9. CASE ResetRead(r) \/ UnretireRead(r) \/ RemoveRead(r)
  <2>1. req'[r].step \in {"reset", "unretire", "remove"}
    <3>1. CASE ResetRead(r)
      <4>1. PICK u, w : req' = [req EXCEPT ![r].step = "reset", ![r].target = u, ![r].password = w]
        BY <3>1 DEF ResetRead
      <4> QED
        BY <1>0, <4>1 DEF Request
    <3>2. CASE UnretireRead(r) \/ RemoveRead(r)
      <4>1. PICK step, u :
               /\ step \in {"unretire", "remove"}
               /\ req' = [req EXCEPT ![r].step = step, ![r].target = u]
        BY <3>2 DEF UnretireRead, RemoveRead
      <4> QED
        BY <1>0, <4>1 DEF Request
    <3> QED
      BY <1>9, <3>1, <3>2
  <2> QED
    BY <2>1 DEF LoginSteps
<1>10. CASE RetireRead(r)
  <2>1. PICK u \in Users, step \in {"count", "retire"} :
           req' = [req EXCEPT ![r].target = u, ![r].next = "retire", ![r].step = step]
    BY <1>10 DEF RetireRead
  <2>2. req'[r].next = "retire" /\ req'[r].step = step
    BY <1>0, <2>1 DEF Request
  <2> QED
    BY <2>2 DEF LoginSteps
<1>11. CASE RemoveCommit(r)
  BY <1>0, <1>11, IdleFacts DEF RemoveCommit, Done, LoginSteps
<1> QED
  BY <1>5, <1>6, <1>7, <1>8, <1>9, <1>10, <1>11

(***************************************************************************)
(* The rows a step leaves: it is enough to look at the sessions of users   *)
(* whose sessions are not about to be destroyed.                           *)
(***************************************************************************)
Fits(row, s) == row.active /\ (row.mustChange => s.with = row.password)

LEMMA OutAfter ==
    ASSUME OInv, IInv', NEW r \in Requests, \A q \in Requests \ {r} : req'[q] = Idle,
           Certain(req[r])',
           \A s \in Sids :
              /\ session'[s].state \in {"live", "expired"}
              /\ ~(req'[r].step = "destroy" /\ req'[r].target = session'[s].user)
              => Fits(account'[session'[s].user], session'[s])
    PROVE  OInv'
<1>1. ASSUME NEW q \in Requests \ {r} PROVE Certain(req[q])'
  BY <1>1, IdleFacts DEF Certain, LoginSteps
<1>2. ASSUME NEW s \in Sids, IsRow(s)', Settled(session[s].user)'
      PROVE  Fits(account'[session'[s].user], session'[s])
  BY <1>2 DEF IsRow, Settled
<1> QED
  BY <1>1, <1>2 DEF OInv, InactiveIsOut, ResetIsOut, Fits

\* What the invariant says before the step.
LEMMA OutBefore ==
    ASSUME OInv, NEW r \in Requests, \A q \in Requests \ {r} : req[q] = Idle
    PROVE  /\ \A s \in Sids :
                IsRow(s) /\ ~(req[r].step = "destroy" /\ req[r].target = session[s].user)
                => Fits(account[session[s].user], session[s])
           /\ Certain(req[r])
<1>1. ASSUME NEW s \in Sids, IsRow(s),
             ~(req[r].step = "destroy" /\ req[r].target = session[s].user)
      PROVE  Settled(session[s].user)
  BY <1>1, IdleFacts DEF Settled
<1> QED
  BY <1>1 DEF OInv, InactiveIsOut, ResetIsOut, Fits

\* A step that writes no account and brings no session.
LEMMA CalmKeepsOut ==
    ASSUME OInv, IInv', NEW r \in Requests,
           \A q \in Requests \ {r} : req[q] = Idle /\ req'[q] = Idle,
           UNCHANGED account, req[r].step # "destroy", Certain(req[r])',
           \A s \in Sids : session'[s].state \in {"live", "expired"} =>
               IsRow(s) /\ session'[s].user = session[s].user /\ session'[s].with = session[s].with
    PROVE  OInv'
<1>1. \A s \in Sids : IsRow(s) => Fits(account[session[s].user], session[s])
  BY OutBefore
<1>2. \A s \in Sids :
         session'[s].state \in {"live", "expired"} => Fits(account'[session'[s].user], session'[s])
  BY <1>1 DEF Fits
<1> QED
  BY <1>2, OutAfter

\* The sessions that fitted the row of u still fit, unless they are about to go.
SessionsFit(r, u, row) ==
    \A s \in Sids : /\ Exists(u) /\ IsRow(s) /\ session[s].user = u
                    /\ Fits(account[u], session[s])
                    /\ ~(req'[r].step = "destroy" /\ req'[r].target = u)
                    => Fits(row, session[s])

\* A step that writes the row of one account.
LEMMA WriteKeepsOut ==
    ASSUME OInv, IInv', NEW r \in Requests,
           \A q \in Requests \ {r} : req[q] = Idle /\ req'[q] = Idle,
           req[r].step # "destroy", Certain(req[r])',
           NEW u, NEW row, NEW step, WriteAccount(r, u, row, step), SessionsFit(r, u, row)
    PROVE  OInv'
<1>00. \A s \in Sids : /\ Exists(u) /\ IsRow(s) /\ session[s].user = u
                        /\ Fits(account[u], session[s])
                        /\ ~(req'[r].step = "destroy" /\ req'[r].target = u)
                        => Fits(row, session[s])
  BY DEF SessionsFit
<1>0. /\ \A s \in Sids : IsRow(s) => Fits(account[session[s].user], session[s])
      /\ IInv /\ \A s \in Sids : IsRow(s) => session[s].user \in Users
  BY OutBefore, TypeFacts DEF OInv
<1>1. UNCHANGED session
  BY DEF WriteAccount
<1>2. CASE ~Exists(u)
  BY <1>1, <1>2, CalmKeepsOut DEF WriteAccount, IsRow
<1>3. CASE Exists(u)
  <2>1. account' = [account EXCEPT ![u] = row] /\ u \in Users
    BY <1>3 DEF WriteAccount, Exists
  <2>2. \A v \in Users : account'[v] = IF v = u THEN row ELSE account[v]
    BY <1>0, <2>1 DEF IInv
  <2>3. ASSUME NEW s \in Sids, session'[s].state \in {"live", "expired"},
               ~(req'[r].step = "destroy" /\ req'[r].target = session'[s].user)
        PROVE  Fits(account'[session'[s].user], session'[s])
    <3>1. IsRow(s) /\ session'[s] = session[s] /\ session[s].user \in Users
          /\ Fits(account[session[s].user], session[s])
      BY <1>0, <1>1, <2>3 DEF IsRow
    <3>2. CASE session[s].user = u
      <4>1. ~(req'[r].step = "destroy" /\ req'[r].target = u)
        BY <2>3, <3>1, <3>2
      <4>2. Fits(row, session[s])
        BY <1>00, <1>3, <3>1, <3>2, <4>1
      <4> QED
        BY <2>2, <3>1, <3>2, <4>2
    <3>3. CASE session[s].user # u
      BY <2>2, <3>1, <3>3
    <3> QED
      BY <3>2, <3>3
  <2> QED
    BY <2>3, OutAfter
<1> QED
  BY <1>2, <1>3

LEMMA LoginKeepsOut ==
    ASSUME OInv, IInv', NEW r \in Requests,
           \A q \in Requests \ {r} : req[q] = Idle /\ req'[q] = Idle, Login(r)
    PROVE  OInv'
<1>0. /\ req = [q \in Requests |-> req[q]] /\ req[r] \in Request /\ IInv /\ Certain(req[r])
      /\ \A s \in Sids : session[s] \in Session
      /\ \A u \in Users : account[u] \in Account
  BY TypeFacts, OutBefore DEF OInv, IInv
<1>1. CASE LoginRead(r)
  <2>1. PICK u \in Users :
           /\ IsActive(u)
           /\ req' = [req EXCEPT ![r] = [Idle EXCEPT
                        !.step = "login write", !.target = u,
                        !.password = account[u].password, !.legacy = account[u].legacy]]
    BY <1>1 DEF LoginRead
  <2> DEFINE w == account[u].password
             l == account[u].legacy
             q == [Idle EXCEPT !.step = "login write", !.target = u, !.password = w, !.legacy = l]
  <2>2. q = req'[r]
    BY <1>0, <2>1
  <2> HIDE DEF w, l
  <2>3. q.step = "login write" /\ q.target = u /\ q.password = w
    BY DEF Idle
  <2> HIDE DEF q
  <2>4. UNCHANGED <<account, session>> /\ req[r] = Idle
    BY <1>1 DEF LoginRead
  <2>5. Certain(req[r])'
    BY <2>1, <2>2, <2>3, <2>4 DEF Certain, LoginSteps, IsActive, Exists, w
  <2> QED
    BY <2>4, <2>5, CalmKeepsOut, IdleFacts DEF IsRow
<1>2. CASE LoginWrite(r)
  <2> DEFINE u == req[r].target
             row == Rehashed(r)
  <2>1. IsActive(u) /\ req[r].password = account[u].password /\ u \in Users
        /\ req[r].step = "login write"
    BY <1>0, <1>2 DEF LoginWrite, Certain, LoginSteps, IsActive, Exists
  <2>2. /\ row.active = account[u].active /\ row.mustChange = account[u].mustChange
        /\ row.password = account[u].password /\ row.exists = account[u].exists
    BY <1>0, <2>1 DEF Rehashed, Account
  <2>3. WriteAccount(r, u, row, "login sweep") /\ Exists(u)
    BY <1>2, <2>1 DEF LoginWrite, IsActive
  <2>4. account' = [account EXCEPT ![u] = row] /\ req' = [req EXCEPT ![r].step = "login sweep"]
    BY <2>3 DEF WriteAccount, Goto
  <2>5. /\ req'[r].step = "login sweep" /\ req'[r].target = u
        /\ req'[r].password = req[r].password
    BY <1>0, <2>4 DEF Request
  <2>6. account'[u] = row
    BY <1>0, <2>1, <2>4 DEF IInv
  <2> HIDE DEF u, row
  <2>7. Certain(req[r])'
    BY <2>1, <2>2, <2>5, <2>6 DEF Certain, LoginSteps, IsActive, Exists
  <2>8. Exists(u) => \A s \in Sids : Fits(account[u], session[s]) => Fits(row, session[s])
    BY <2>2 DEF Fits
  <2>9. req[r].step # "destroy"
    BY <2>1
  <2>10. SessionsFit(r, u, row)
    BY <2>8 DEF SessionsFit
  <2> QED
    BY <2>3, <2>7, <2>9, <2>10, WriteKeepsOut
<1>3. CASE LoginSweep(r)
  <2>1. req' = [req EXCEPT ![r].step = "login create"] /\ req[r].step = "login sweep"
        /\ UNCHANGED account
    BY <1>3 DEF LoginSweep, Goto
  <2>2. /\ req'[r].step = "login create" /\ req'[r].target = req[r].target
        /\ req'[r].password = req[r].password
    BY <1>0, <2>1 DEF Request
  <2>3. Certain(req[r])'
    BY <1>0, <2>1, <2>2 DEF Certain, LoginSteps, IsActive, Exists
  <2>4. \A s \in Sids : session'[s].state \in {"live", "expired"} =>
               IsRow(s) /\ session'[s].user = session[s].user /\ session'[s].with = session[s].with
    BY <1>0, <1>3 DEF LoginSweep, Session, IsRow
  <2> QED
    BY <2>1, <2>3, <2>4, CalmKeepsOut
<1>4. CASE LoginCreate(r)
  <2>1. req'[r] = Idle /\ UNCHANGED account /\ req[r].step = "login create"
    BY <1>0, <1>4 DEF LoginCreate, Done
  <2>2. Certain(req[r])'
    BY <2>1, IdleFacts DEF Certain, LoginSteps
  <2>3. CASE UNCHANGED session
    BY <2>1, <2>2, <2>3, CalmKeepsOut DEF IsRow
  <2>4. CASE session' # session
    <3>1. PICK s \in Sids :
             session' = [session EXCEPT ![s] =
                [state |-> "live", user |-> req[r].target, with |-> req[r].password]]
      BY <1>4, <2>4 DEF LoginCreate
    <3>2. IsActive(req[r].target) /\ req[r].password = account[req[r].target].password
      BY <1>0, <2>1 DEF Certain, LoginSteps
    <3>3. session'[s].user = req[r].target /\ session'[s].with = req[r].password
      BY <1>0, <3>1 DEF IInv
    <3>4. \A t \in Sids \ {s} : session'[t] = session[t]
      BY <1>0, <3>1 DEF IInv
    <3>5. \A t \in Sids : IsRow(t) => Fits(account[session[t].user], session[t])
      BY <2>1, OutBefore
    <3>6. ASSUME NEW t \in Sids, session'[t].state \in {"live", "expired"}
          PROVE  Fits(account'[session'[t].user], session'[t])
      <4>1. CASE t = s
        BY <2>1, <3>2, <3>3, <4>1 DEF Fits, IsActive
      <4>2. CASE t # s
        <5>1. session'[t] = session[t] /\ IsRow(t)
          BY <3>4, <3>6, <4>2 DEF IsRow
        <5> QED
          BY <2>1, <3>5, <5>1
      <4> QED
        BY <4>1, <4>2
    <3> QED
      BY <2>2, <3>6, OutAfter
  <2> QED
    BY <2>3, <2>4
<1> QED
  BY <1>1, <1>2, <1>3, <1>4 DEF Login

LEMMA GuardKeepsOut ==
    ASSUME OInv, IInv', NEW r \in Requests,
           \A q \in Requests \ {r} : req[q] = Idle /\ req'[q] = Idle, Guard(r) \/ Own(r)
    PROVE  OInv'
<1>0. /\ req = [q \in Requests |-> req[q]] /\ req[r] \in Request /\ IInv
      /\ \A s \in Sids : session[s] \in Session
      /\ \A u \in Users : account[u] \in Account
  BY TypeFacts DEF OInv, IInv
<1>1. Certain(req[r])'
  <2>1. req'[r].step \notin LoginSteps \cup {"update"}
        /\ (req'[r].step = "count" => req'[r].next # "update")
    BY <1>0, UncertainAfter
  <2> QED
    BY <2>1 DEF Certain
<1>2. req[r].step # "destroy"
  BY IdleFacts DEF Guard, TouchRead, TouchDelete, TouchWrite, ServeOther, Own, Logout, ExtendRead,
                   ExtendWrite, ChangeRead, ChangeWrite, Serves
<1>3. CASE ChangeWrite(r)
  <2> DEFINE u == req[r].actor
             row == [account[u] EXCEPT !.password = req[r].password,
                        !.legacy = FALSE, !.mustChange = FALSE]
  <2>1. Exists(u) => row.active = account[u].active /\ ~row.mustChange
    BY <1>0 DEF Exists, Account
  <2>2. WriteAccount(r, u, row, "idle")
    BY <1>3 DEF ChangeWrite
  <2> HIDE DEF u, row
  <2>3. \A s \in Sids : Exists(u) /\ Fits(account[u], session[s]) => Fits(row, session[s])
    BY <2>1 DEF Fits
  <2> QED
    BY <1>1, <1>2, <2>2, <2>3, WriteKeepsOut DEF SessionsFit
<1>4. CASE ~ChangeWrite(r)
  <2>1. UNCHANGED account
    BY <1>4 DEF Guard, TouchRead, TouchDelete, TouchWrite, ServeOther, Own, Logout, ExtendRead,
                ExtendWrite, ChangeRead
  <2>2. \A s \in Sids : session'[s].state \in {"live", "expired"} =>
               IsRow(s) /\ session'[s].user = session[s].user /\ session'[s].with = session[s].with
    <3>1. CASE UNCHANGED session
      BY <3>1 DEF IsRow
    <3>2. CASE (TouchDelete(r) \/ Logout(r)) /\ session' # session
      <4>1. session' = [session EXCEPT ![req[r].sid].state = "gone"]
        BY <3>2 DEF TouchDelete, Logout
      <4>2. \A s \in Sids : session'[s] = session[s] \/ session'[s].state = "gone"
        BY <1>0, <4>1 DEF IInv, Session
      <4> QED
        BY <4>2 DEF IsRow
    <3>3. CASE ExtendWrite(r)
      BY <1>0, <3>3 DEF ExtendWrite, Extended, IInv, Session, IsRow
    <3> QED
      BY <1>4, <3>1, <3>2, <3>3
         DEF Guard, TouchRead, TouchDelete, TouchWrite, ServeOther, Own, Logout, ExtendRead,
             ChangeRead
  <2> QED
    BY <1>1, <1>2, <2>1, <2>2, CalmKeepsOut
<1> QED
  BY <1>3, <1>4

\* The reads of administrators.
LEMMA AdminReadKeepsOut ==
    ASSUME OInv, IInv', NEW r \in Requests,
           \A q \in Requests \ {r} : req[q] = Idle /\ req'[q] = Idle,
           \/ UpdateRead(r) \/ RetireRead(r) \/ Count(r) \/ ResetRead(r)
           \/ UnretireRead(r) \/ RemoveRead(r)
    PROVE  OInv'
<1>0. /\ req = [q \in Requests |-> req[q]] /\ req[r] \in Request /\ IInv /\ Certain(req[r])
  BY TypeFacts, OutBefore DEF OInv, IInv
<1>1. UNCHANGED <<account, session>> /\ req[r].step # "destroy"
  BY DEF UpdateRead, RetireRead, Count, ResetRead, UnretireRead, RemoveRead, ServesAdmin, Serves
<1>2. Certain(req[r])'
  <2>1. CASE UpdateRead(r)
    <3>1. PICK u \in Users, active \in BOOLEAN, step \in {"count", "update"} :
             req' = [req EXCEPT ![r].target = u, ![r].will = active,
                        ![r].was = account[u].active, ![r].next = "update",
                        ![r].step = step]
      BY <2>1 DEF UpdateRead
    <3> DEFINE was == account[u].active
    <3>2. req' = [req EXCEPT ![r].target = u, ![r].will = active, ![r].was = was,
                             ![r].next = "update", ![r].step = step]
      BY <3>1
    <3> HIDE DEF was
    <3>3. req'[r].target = u /\ req'[r].was = was /\ req'[r].step = step
      BY <1>0, <3>2 DEF Request
    <3>4. req'[r].was = account'[req'[r].target].active
      BY <1>1, <3>3 DEF was
    <3> QED
      BY <3>3, <3>4 DEF Certain, LoginSteps
  <2>2. CASE Count(r)
    <3>1. CASE Done(r)
      <4>1. req'[r] = Idle
        BY <1>0, <3>1 DEF Done
      <4> QED
        BY <4>1, IdleFacts DEF Certain, LoginSteps
    <3>2. CASE ~Done(r)
      <4>1. req' = [req EXCEPT ![r].step = req[r].next] /\ req[r].step = "count"
        BY <2>2, <3>2 DEF Count, Goto
      <4>2. /\ req'[r].step = req[r].next /\ req'[r].was = req[r].was
            /\ req'[r].target = req[r].target
        BY <1>0, <4>1 DEF Request
      <4>3. req[r].next \in {"none", "update", "retire"}
        BY <1>0 DEF Request
      <4>4. req[r].next = "update" /\ Exists(req[r].target) =>
               req[r].was = account[req[r].target].active
        BY <1>0, <4>1 DEF Certain
      <4> QED
        BY <1>1, <4>2, <4>3, <4>4 DEF Certain, LoginSteps, Exists
    <3> QED
      BY <3>1, <3>2
  <2>3. CASE RetireRead(r) \/ ResetRead(r) \/ UnretireRead(r) \/ RemoveRead(r)
    <3>1. /\ req'[r].step \notin LoginSteps \cup {"update"}
          /\ (req'[r].step = "count" => req'[r].next # "update")
      BY <1>0, <2>3, UncertainAfter
    <3> QED
      BY <3>1 DEF Certain
  <2> QED
    BY <2>1, <2>2, <2>3
<1> QED
  BY <1>1, <1>2, CalmKeepsOut DEF IsRow

\* The writes of administrators.
LEMMA AdminWriteKeepsOut ==
    ASSUME OInv, IInv', NEW r \in Requests,
           \A q \in Requests \ {r} : req[q] = Idle /\ req'[q] = Idle,
           UpdateWrite(r) \/ RetireWrite(r) \/ ResetWrite(r) \/ UnretireWrite(r)
    PROVE  OInv'
<1> DEFINE u == req[r].target
<1>0. /\ req = [q \in Requests |-> req[q]] /\ req[r] \in Request /\ IInv /\ Certain(req[r])
      /\ \A v \in Users : account[v] \in Account
      /\ req[r].step \in {"update", "retire", "reset", "unretire"}
  BY TypeFacts, OutBefore DEF OInv, IInv, UpdateWrite, RetireWrite, ResetWrite, UnretireWrite
<1>1. Certain(req[r])' /\ req[r].step # "destroy"
  <2>1. /\ req'[r].step \notin LoginSteps \cup {"update"}
        /\ (req'[r].step = "count" => req'[r].next # "update")
    BY <1>0, UncertainAfter
  <2> QED
    BY <1>0, <2>1 DEF Certain
<1>2. ASSUME NEW row, WriteAccount(r, u, row, "destroy")
      PROVE  OInv'
  <2>1. Exists(u) => req'[r].step = "destroy" /\ req'[r].target = u
    BY <1>0, <1>2 DEF WriteAccount, Goto, Request
  <2>2. \A s \in Sids : ~(Exists(u) /\ ~(req'[r].step = "destroy" /\ req'[r].target = u))
    BY <2>1
  <2> HIDE DEF u
  <2> QED
    BY <1>1, <1>2, <2>2, WriteKeepsOut DEF SessionsFit
<1>3. ASSUME NEW row, WriteAccount(r, u, row, "idle"),
             Exists(u) => \A s \in Sids : Fits(account[u], session[s]) => Fits(row, session[s])
      PROVE  OInv'
  <2> HIDE DEF u
  <2> QED
    BY <1>1, <1>3, WriteKeepsOut DEF SessionsFit
<1>4. CASE UpdateWrite(r)
  <2> DEFINE row == [account[u] EXCEPT !.active = req[r].will]
  <2>1. CASE EndsSessions(r)
    <3>1. WriteAccount(r, u, row, "destroy")
      BY <1>4, <2>1 DEF UpdateWrite
    <3> QED
      BY <1>2, <3>1
  <2>2. CASE ~EndsSessions(r)
    <3>1. WriteAccount(r, u, row, "idle") /\ req[r].step = "update"
      BY <1>4, <2>2 DEF UpdateWrite
    <3>2. ASSUME Exists(u), NEW s \in Sids, Fits(account[u], session[s])
          PROVE  Fits(row, session[s])
      <4>1. account[u] \in Account /\ account[u].active /\ req[r].was = account[u].active
        BY <1>0, <3>1, <3>2 DEF Exists, Fits, Certain
      <4>2. req[r].will
        BY <2>2, <4>1 DEF EndsSessions
      <4>3. row.active = req[r].will /\ row.mustChange = account[u].mustChange
            /\ row.password = account[u].password
        BY <4>1 DEF Account
      <4> QED
        BY <3>2, <4>2, <4>3 DEF Fits
    <3> HIDE DEF u, row
    <3> QED
      BY <1>3, <3>1, <3>2
  <2> QED
    BY <2>1, <2>2
<1>5. CASE RetireWrite(r)
  BY <1>2, <1>5 DEF RetireWrite
<1>6. CASE ResetWrite(r)
  BY <1>2, <1>6 DEF ResetWrite, AfterReset
<1>7. CASE UnretireWrite(r)
  <2> DEFINE row == [account[u] EXCEPT !.active = TRUE, !.retired = FALSE]
  <2>1. WriteAccount(r, u, row, "idle")
    BY <1>7 DEF UnretireWrite
  <2>2. ASSUME Exists(u), NEW s \in Sids, Fits(account[u], session[s])
        PROVE  Fits(row, session[s])
    <3>1. account[u] \in Account
      BY <1>0, <2>2 DEF Exists
    <3>2. row.active /\ row.mustChange = account[u].mustChange
          /\ row.password = account[u].password
      BY <3>1 DEF Account
    <3> QED
      BY <2>2, <3>2 DEF Fits
  <2> HIDE DEF u, row
  <2> QED
    BY <1>3, <2>1, <2>2
<1> QED
  BY <1>4, <1>5, <1>6, <1>7

\* What ends sessions, and what creates and deletes accounts.
LEMMA AdminEndKeepsOut ==
    ASSUME OInv, IInv', NEW r \in Requests,
           \A q \in Requests \ {r} : req[q] = Idle /\ req'[q] = Idle,
           Destroy(r) \/ CreateUser(r) \/ RemoveCommit(r)
    PROVE  OInv'
<1>0. /\ req = [q \in Requests |-> req[q]] /\ req[r] \in Request /\ IInv
      /\ \A s \in Sids : session[s] \in Session
      /\ \A s \in Sids : IsRow(s) => Exists(session[s].user) /\ session[s].user \in Users
      /\ \A s \in Sids :
            IsRow(s) /\ ~(req[r].step = "destroy" /\ req[r].target = session[s].user)
            => Fits(account[session[s].user], session[s])
  BY TypeFacts, OutBefore DEF OInv, IInv, SessionsHaveOwners
<1>1. req'[r] = Idle
  BY <1>0 DEF Destroy, CreateUser, RemoveCommit, Done
<1>2. Certain(req[r])'
  BY <1>1, IdleFacts DEF Certain, LoginSteps
<1>3. ASSUME NEW u, session' = WithoutSessionsOf(u)
      PROVE  \A s \in Sids : session'[s].state \in {"live", "expired"} =>
                session'[s] = session[s] /\ IsRow(s) /\ session[s].user # u
  BY <1>0, <1>3 DEF WithoutSessionsOf, IsRow, Session
<1>4. CASE Destroy(r)
  <2>1. ASSUME NEW s \in Sids, session'[s].state \in {"live", "expired"}
        PROVE  Fits(account'[session'[s].user], session'[s])
    BY <1>0, <1>3, <1>4, <2>1 DEF Destroy
  <2> QED
    BY <1>2, <2>1, OutAfter
<1>5. CASE CreateUser(r)
  <2>1. PICK u \in Users, w \in Passwords :
           ~Exists(u) /\ account' = [account EXCEPT ![u] = NewAccount(w)]
    BY <1>5 DEF CreateUser
  <2>2. \A v \in Users \ {u} : account'[v] = account[v]
    BY <1>0, <2>1 DEF IInv
  <2>3. UNCHANGED session /\ req[r].step # "destroy"
    BY <1>5 DEF CreateUser, ServesAdmin, Serves
  <2>4. ASSUME NEW s \in Sids, session'[s].state \in {"live", "expired"}
        PROVE  Fits(account'[session'[s].user], session'[s])
    <3>1. IsRow(s) /\ session'[s] = session[s]
      BY <2>3, <2>4 DEF IsRow
    <3> QED
      BY <1>0, <2>1, <2>2, <2>3, <3>1
  <2> QED
    BY <1>2, <2>4, OutAfter
<1>6. CASE RemoveCommit(r)
  <2>1. CASE UNCHANGED <<account, session>>
    BY <1>2, <1>6, <2>1, CalmKeepsOut DEF IsRow, RemoveCommit
  <2>2. CASE /\ session' = WithoutSessionsOf(req[r].target)
             /\ \E row : account' = [account EXCEPT ![req[r].target] = row]
    <3> DEFINE u == req[r].target
    <3>1. \A v \in Users \ {u} : account'[v] = account[v]
      BY <1>0, <2>2 DEF IInv
    <3>2. req[r].step # "destroy"
      BY <1>6 DEF RemoveCommit
    <3>3. ASSUME NEW s \in Sids, session'[s].state \in {"live", "expired"}
          PROVE  Fits(account'[session'[s].user], session'[s])
      <4>1. session'[s] = session[s] /\ IsRow(s) /\ session[s].user # u
        BY <1>3, <2>2, <3>3
      <4> QED
        BY <1>0, <3>1, <3>2, <4>1
    <3> QED
      BY <1>2, <3>3, OutAfter
  <2> QED
    BY <1>6, <2>1, <2>2 DEF RemoveCommit
<1> QED
  BY <1>4, <1>5, <1>6

LEMMA ExpireKeepsOut == ASSUME OInv, IInv', Expire PROVE OInv'
<1>0. /\ UNCHANGED <<account, req>>
      /\ \A s \in Sids : /\ IsRow(s)' => IsRow(s)
                         /\ session'[s].user = session[s].user
                         /\ session'[s].with = session[s].with
  BY TypeFacts DEF Expire, OInv, IInv, Session, IsRow
<1>1. ASSUME NEW r \in Requests PROVE Certain(req[r])'
  <2>1. Certain(req[r])
    BY DEF OInv
  <2> QED
    BY <1>0, <2>1 DEF Certain, IsActive, Exists
<1> QED
  BY <1>0, <1>1 DEF OInv, InactiveIsOut, ResetIsOut, Settled

LEMMA OInvStarts == Init => OInv
<1> SUFFICES ASSUME Init PROVE OInv
  OBVIOUS
<1>1. \A s \in Sids : ~IsRow(s)
  BY DEF Init, IsRow, Unused
<1>2. \A r \in Requests : Certain(req[r])
  BY IdleIsCertain DEF Init
<1> QED
  BY <1>1, <1>2, InitHolds DEF OInv, InactiveIsOut, ResetIsOut

LEMMA RequestKeepsOut ==
    ASSUME OInv, IInv', OneAtATime, OneAtATime', NEW r \in Requests,
           Login(r) \/ Guard(r) \/ Own(r) \/ Administrate(r)
    PROVE  OInv'
<1>1. \A q \in Requests \ {r} : req[q] = Idle /\ req'[q] = Idle
  BY RestIsIdle DEF OInv
<1> QED
  BY <1>1, LoginKeepsOut, GuardKeepsOut, AdminReadKeepsOut, AdminWriteKeepsOut,
     AdminEndKeepsOut DEF Administrate

LEMMA OInvStutters == OInv /\ UNCHANGED vars => OInv'
<1> SUFFICES ASSUME OInv, UNCHANGED <<account, session, req>> PROVE OInv'
  BY DEF vars
<1>1. IInv'
  BY NextHolds DEF vars, OInv
<1>2. InactiveIsOut' /\ ResetIsOut'
  BY DEF OInv, InactiveIsOut, ResetIsOut, Settled, IsRow
<1>3. \A r \in Requests : Certain(req[r])'
  BY DEF OInv, Certain, IsActive, Exists
<1> QED
  BY <1>1, <1>2, <1>3 DEF OInv

LEMMA OInvNext ==
    ASSUME OInv, OneAtATime, OneAtATime', [Next]_vars, ~Restart, ~ResetAdmin
    PROVE  OInv'
<1>1. IInv'
  BY NextHolds DEF OInv
<1> QED
  BY <1>1, OInvStutters, RequestKeepsOut, ExpireKeepsOut DEF Next

(***************************************************************************)
(* As long as requests do not overlap, the server does not die and         *)
(* sp-reset-admin.exe is not used, whoever has been deactivated, retired   *)
(* or given another password has no session left (users.service.ts, 157,   *)
(* 207 and 351).                                                           *)
(***************************************************************************)
THEOREM ThrownOutStayOut ==
    ASSUME ~MayCrash, ~CliInUse
    PROVE  Spec /\ []OneAtATime => [](InactiveIsOut /\ ResetIsOut)
<1>1. OInv /\ OneAtATime /\ OneAtATime' /\ [Next]_vars => OInv'
  BY OInvNext DEF Restart, ResetAdmin
<1>2. OInv => InactiveIsOut /\ ResetIsOut
  BY DEF OInv
<1> QED
  BY <1>1, <1>2, OInvStarts, PTL DEF Spec

-------------------------------------------------------------------------------
(* One request at a time, as MCAccounts checks it                          *)

(***************************************************************************)
(* The part of MCAccounts in which one request runs at a time, the server  *)
(* stays up and sp-reset-admin.exe is not used: its steps are those the    *)
(* lemmas above are about.                                                 *)
(***************************************************************************)
AloneInv == part = "alone" => OneAtATime /\ CInv /\ RInv /\ OInv

LEMMA AloneStarts == MCInit => AloneInv
<1> SUFFICES ASSUME MCInit PROVE OneAtATime /\ CInv /\ RInv /\ OInv
  BY DEF AloneInv
<1>1. Init
  BY DEF MCInit
<1>2. OneAtATime
  BY <1>1 DEF Init, OneAtATime
<1> QED
  BY <1>1, <1>2, CInvStarts, RetiredStarts, OInvStarts

LEMMA AloneNext == AloneInv /\ [MCNext]_mcVars => AloneInv'
<1> SUFFICES ASSUME AloneInv, [MCNext]_mcVars, part' = "alone"
             PROVE  (OneAtATime /\ CInv /\ RInv /\ OInv)'
  BY DEF AloneInv
<1>1. part = "alone"
  BY DEF MCNext, mcVars
<1>2. OneAtATime /\ CInv /\ RInv /\ OInv
  BY <1>1 DEF AloneInv
<1>3. CASE UNCHANGED vars
  <2>1. OneAtATime'
    BY <1>2, <1>3 DEF vars, OneAtATime
  <2>2. CInv' /\ RInv'
    <3>1. CInv'
      BY <1>2, <1>3, <2>1, CInvNext
    <3>2. RInv'
      <4>1. IInv'
        BY <1>2, <1>3, NextHolds DEF RInv
      <4> QED
        BY <1>2, <1>3, <4>1 DEF vars, RInv, RetiredIsInactive, KnowsRetired, Exists
    <3> QED
      BY <3>1, <3>2
  <2> QED
    BY <1>2, <1>3, <2>1, <2>2, OInvStutters
<1>4. CASE AccountsNext
  <2>1. OneAtATime'
    BY <1>1, <1>4 DEF AccountsNext
  <2>2. CASE Expire
    <3>1. Next /\ IInv'
      BY <1>2, <2>2, NextHolds DEF Next, RInv
    <3>2. RInv'
      BY <1>2, <2>2, <3>1 DEF Expire, RInv, RetiredIsInactive, KnowsRetired, Exists
    <3> QED
      BY <1>2, <2>1, <2>2, <3>1, <3>2, CInvNext, ExpireKeepsOut
  <2>3. ASSUME NEW r \in Requests, Login(r) \/ Guard(r) \/ Own(r) \/ Administrate(r)
        PROVE  (CInv /\ RInv /\ OInv)'
    <3>1. Next
      BY <2>3 DEF Next
    <3>2. IInv'
      BY <1>2, <3>1, NextHolds DEF RInv
    <3>3. \A q \in Requests \ {r} : req'[q] = Idle
      BY <1>2, <2>1, <2>3, RestIsIdle DEF RInv
    <3>4. RInv'
      BY <1>2, <2>3, <3>2, <3>3, RetiredLogin, RetiredAdministrate
    <3>5. OInv'
      BY <1>2, <2>1, <2>3, <3>2, RequestKeepsOut
    <3> QED
      BY <1>2, <2>1, <3>1, <3>4, <3>5, CInvNext
  <2> QED
    BY <1>1, <1>4, <2>1, <2>2, <2>3 DEF AccountsNext
<1> QED
  BY <1>1, <1>3, <1>4 DEF MCNext, mcVars

(***************************************************************************)
(* One request at a time, for any users, sessions and passwords: somebody  *)
(* is in charge, and nobody who has retired is active (users.service.ts,   *)
(* 118-146 and 310-342).                                                   *)
(***************************************************************************)
THEOREM InChargeStays == MCSpec => []SomebodyIsInCharge
<1>1. AloneInv => SomebodyIsInCharge
  BY DEF AloneInv, CInv, RInv, SomebodyIsInCharge
<1> QED
  BY <1>1, AloneStarts, AloneNext, PTL DEF MCSpec

(***************************************************************************)
(* One request at a time, for any users, sessions and passwords: whoever   *)
(* has been thrown out is out (users.service.ts, 157, 207 and 351).        *)
(***************************************************************************)
THEOREM OutStaysOut == MCSpec => []ThrownOutIsOut
<1>1. AloneInv => ThrownOutIsOut
  BY DEF AloneInv, OInv, ThrownOutIsOut
<1> QED
  BY <1>1, AloneStarts, AloneNext, PTL DEF MCSpec

-------------------------------------------------------------------------------
(* Steps and numbers                                                       *)

\* Induction, for a set of numbers.
LEMMA AllNumbers ==
    ASSUME NEW S, 0 \in S, \A n \in Nat : n \in S => n + 1 \in S
    PROVE  Nat \subseteq S
<1> SUFFICES ASSUME Nat \ S # {} PROVE FALSE
  OBVIOUS
<1> DEFINE Rest == Nat \ S
<1>1. Rest \subseteq Nat /\ Rest # {}
  OBVIOUS
<1> HIDE DEF Rest
<1>2. PICK n \in Rest : \A m \in Rest : ~(<<m, n>> \in OpToRel(<, Nat))
  BY <1>1, NatLessThanWellFounded, WFMin
<1> USE DEF Rest
<1>3. \A m \in Rest : ~(m < n)
  BY <1>2 DEF OpToRel
<1>4. n # 0 /\ n \in Nat
  OBVIOUS
<1>5. n - 1 \in Nat /\ n - 1 < n /\ (n - 1) + 1 = n
  BY <1>4
<1>6. n - 1 \in S
  BY <1>3, <1>5
<1> QED
  BY <1>5, <1>6

\* A value that is made step by step is there.
IsMade(x, V, base, step) ==
    x \in [Nat -> V] /\ x[0] = base /\ \A n \in Nat : x[n + 1] = step[x[n]]

LEMMA StepByStep ==
    ASSUME NEW V, NEW base \in V, NEW step \in [V -> V]
    PROVE  \E x : IsMade(x, V, base, step)
<1> DEFINE Upto(n, g) == g \in [0..n -> V] /\ g[0] = base
                         /\ \A m \in 0..n : m # n => g[m + 1] = step[g[m]]
           Good == {n \in Nat : \E g : Upto(n, g)}
<1>1. Nat \subseteq Good
  <2>1. Upto(0, [m \in 0..0 |-> base])
    OBVIOUS
  <2>2. ASSUME NEW n \in Nat, NEW g, Upto(n, g) PROVE \E h : Upto(n + 1, h)
    <3> DEFINE h == [m \in 0..(n + 1) |-> IF m = n + 1 THEN step[g[n]] ELSE g[m]]
    <3>1. h \in [0..(n + 1) -> V] /\ h[0] = base
      BY <2>2
    <3>2. ASSUME NEW m \in 0..(n + 1), m # n + 1 PROVE h[m + 1] = step[h[m]]
      BY <2>2, <3>2
    <3> QED
      BY <3>1, <3>2
  <2>3. 0 \in Good
    BY <2>1
  <2>4. ASSUME NEW n \in Nat, n \in Good PROVE n + 1 \in Good
    <3>1. PICK g : Upto(n, g)
      BY <2>4
    <3> HIDE DEF Upto
    <3>2. \E h : Upto(n + 1, h)
      BY <2>2, <3>1
    <3> QED
      BY <3>2
  <2> HIDE DEF Good
  <2> QED
    BY <2>3, <2>4, AllNumbers
<1>2. \A n \in Nat : \E g : Upto(n, g)
  BY <1>1
<1> DEFINE F(n) == CHOOSE g : Upto(n, g)
<1>3. \A n \in Nat : Upto(n, F(n))
  BY <1>2
<1> HIDE DEF F
\* Any two agree.
<1>4. \A n \in Nat : F(n)[n] = F(n + 1)[n]
  <2> DEFINE Same == {k \in Nat : \A n \in Nat : k <= n => F(n)[k] = F(n + 1)[k]}
  <2>1. 0 \in Same
    BY <1>3
  <2>2. ASSUME NEW k \in Nat, \A n \in Nat : k <= n => F(n)[k] = F(n + 1)[k],
               NEW n \in Nat, k + 1 <= n
        PROVE  F(n)[k + 1] = F(n + 1)[k + 1]
    <3>1. k \in 0..n /\ k # n /\ k \in 0..(n + 1) /\ k # n + 1 /\ n + 1 \in Nat /\ k <= n
      BY <2>2
    <3>2. Upto(n, F(n)) /\ Upto(n + 1, F(n + 1))
      BY <1>3, <3>1
    <3>3. F(n)[k + 1] = step[F(n)[k]] /\ F(n + 1)[k + 1] = step[F(n + 1)[k]]
      BY <3>1, <3>2
    <3> QED
      BY <2>2, <3>1, <3>3
  <2>3. \A k \in Nat : k \in Same => k + 1 \in Same
    BY <2>2
  <2> HIDE DEF Same
  <2>4. Nat \subseteq Same
    BY <2>1, <2>3, AllNumbers
  <2> USE DEF Same
  <2> QED
    BY <2>4
<1> DEFINE G == [n \in Nat |-> F(n)[n]]
<1>5. \A n \in Nat : F(n)[n] \in V /\ n \in 0..n /\ n \in 0..(n + 1) /\ n + 1 \in Nat
  BY <1>3
<1>6. G \in [Nat -> V] /\ G[0] = base
  BY <1>3, <1>5
<1>7. ASSUME NEW n \in Nat PROVE G[n + 1] = step[G[n]]
  <2>1. F(n + 1)[n + 1] = step[F(n + 1)[n]]
    <3>1. Upto(n + 1, F(n + 1)) /\ n # n + 1 /\ n \in 0..(n + 1)
      BY <1>3, <1>5
    <3> QED
      BY <3>1
  <2> QED
    BY <1>4, <1>5, <2>1
<1> QED
  BY <1>6, <1>7 DEF IsMade

-------------------------------------------------------------------------------
(* Groups found from the top                                               *)

\* u[n]: the groups that are found from the top in n steps.
IsFromTop(u, tree) ==
    /\ u \in [Nat -> SUBSET (DOMAIN tree \cup {None})] /\ u[0] = {None}
    /\ \A n \in Nat : u[n + 1] = {None} \cup {g \in DOMAIN tree : tree[g] \in u[n]}

LEMMA FromTop ==
    ASSUME NEW tree
    PROVE  \E u : IsFromTop(u, tree) /\ (IsShallowForest(tree) <=> DOMAIN tree \subseteq u[MaxDepth])
<1> DEFINE V == SUBSET (DOMAIN tree \cup {None})
           below(S) == {None} \cup {g \in DOMAIN tree : tree[g] \in S}
           step == [S \in V |-> below(S)]
           IsRound(u) == u = [n \in Nat |-> IF n = 0 THEN {None} ELSE below(u[n - 1])]
           chosen == CHOOSE u : IsRound(u)
<1>1. \E u : IsMade(u, V, {None}, step)
  <2>1. {None} \in V /\ step \in [V -> V]
    OBVIOUS
  <2> HIDE DEF V, step
  <2> QED
    BY <2>1, StepByStep
<1>2. PICK u \in [Nat -> V] : u[0] = {None} /\ \A n \in Nat : u[n + 1] = below(u[n])
  BY <1>1 DEF IsMade
<1>3. ASSUME NEW n \in Nat, n # 0 PROVE u[n] = below(u[n - 1])
  <2>1. n - 1 \in Nat /\ (n - 1) + 1 = n
    BY <1>3
  <2> HIDE DEF below
  <2> QED
    BY <1>2, <2>1
<1>4. IsRound(u)
  <2> HIDE DEF below, V
  <2> QED
    BY <1>2, <1>3
<1> HIDE DEF IsRound
<1>5. IsRound(chosen)
  BY <1>4
<1> HIDE DEF chosen
<1> USE DEF IsRound
<1>6. /\ chosen = [n \in Nat |-> chosen[n]] /\ chosen[0] = {None}
      /\ \A n \in Nat : chosen[n + 1] = below(chosen[n])
  <2> HIDE DEF below
  <2>1. chosen = [n \in Nat |-> IF n = 0 THEN {None} ELSE below(chosen[n - 1])]
    BY <1>5
  <2>2. \A n \in Nat : n + 1 \in Nat /\ n + 1 # 0 /\ (n + 1) - 1 = n
    OBVIOUS
  <2> HIDE DEF IsRound
  <2> QED
    BY <2>1, <2>2
<1>7. ASSUME NEW n \in Nat PROVE chosen[n] \in V
  <2>1. CASE n = 0
    BY <1>6, <2>1
  <2>2. CASE n # 0
    <3>1. chosen[n] = below(chosen[n - 1])
      BY <1>5, <2>2
    <3> QED
      BY <3>1
  <2> QED
    BY <2>1, <2>2
<1>8. IsFromTop(chosen, tree)
  BY <1>6, <1>7 DEF IsFromTop
<1>9. IsShallowForest(tree) <=> DOMAIN tree \subseteq chosen[MaxDepth]
  BY DEF IsShallowForest, chosen
<1> QED
  BY <1>8, <1>9

\* More steps find more.
LEMMA FromTopGrows ==
    ASSUME NEW tree, NEW u, IsFromTop(u, tree), NEW m \in Nat, NEW n \in Nat, m <= n
    PROVE  u[m] \subseteq u[n]
<1> DEFINE Grows == {k \in Nat : u[k] \subseteq u[k + 1]}
<1>1. 0 \in Grows
  BY DEF IsFromTop
<1>2. ASSUME NEW k \in Nat, u[k] \subseteq u[k + 1] PROVE u[k + 1] \subseteq u[(k + 1) + 1]
  <2>1. u[k + 1] = {None} \cup {g \in DOMAIN tree : tree[g] \in u[k]}
        /\ u[(k + 1) + 1] = {None} \cup {g \in DOMAIN tree : tree[g] \in u[k + 1]}
    BY DEF IsFromTop
  <2> QED
    BY <1>2, <2>1
<1>3. \A k \in Nat : k \in Grows => k + 1 \in Grows
  BY <1>2
<1> HIDE DEF Grows
<1>4. Nat \subseteq Grows
  BY <1>1, <1>3, AllNumbers
<1> USE DEF Grows
<1>5. \A k \in Nat : u[k] \subseteq u[k + 1]
  BY <1>4
<1> DEFINE Reached == {k \in Nat : m <= k => u[m] \subseteq u[k]}
<1>6. 0 \in Reached
  OBVIOUS
<1>7. ASSUME NEW k \in Nat, k \in Reached PROVE k + 1 \in Reached
  <2>1. CASE m <= k
    BY <1>5, <1>7, <2>1
  <2>2. CASE k < m
    <3>1. m <= k + 1 => m = k + 1
      BY <2>2
    <3> QED
      BY <3>1
  <2> QED
    BY <2>1, <2>2
<1> HIDE DEF Reached
<1>8. Nat \subseteq Reached
  BY <1>6, <1>7, AllNumbers
<1> USE DEF Reached
<1> QED
  BY <1>8

-------------------------------------------------------------------------------
(* The groups below a group                                                *)

\* Whoever is below one of S is in S.
IsClosed(S, tree) == \A c \in DOMAIN tree : tree[c] \in S => c \in S

LEMMA Descendants ==
    ASSUME NEW tree, IsFiniteSet(DOMAIN tree), NEW g \in DOMAIN tree
    PROVE  LET D == collectDescendantGroupIds(tree, {g}) IN
           /\ D \subseteq DOMAIN tree /\ g \in D /\ IsClosed(D, tree)
           /\ \A S : g \in S /\ IsClosed(S, tree) => D \subseteq S
<1> DEFINE V == SUBSET DOMAIN tree
           more(S) == S \cup {c \in DOMAIN tree : tree[c] \in S}
           step == [S \in V |-> more(S)]
           first == {g} \cap DOMAIN tree
           IsRound(r) == r = [n \in Nat |-> IF n = 0 THEN first ELSE more(r[n - 1])]
           r == CHOOSE x : IsRound(x)
           N == Cardinality(DOMAIN tree)
<1>1. \E x : IsMade(x, V, first, step)
  <2>1. first \in V /\ step \in [V -> V]
    OBVIOUS
  <2> HIDE DEF V, step, first
  <2> QED
    BY <2>1, StepByStep
<1>2. PICK x \in [Nat -> V] : x[0] = first /\ \A n \in Nat : x[n + 1] = more(x[n])
  BY <1>1 DEF IsMade
<1>3. ASSUME NEW n \in Nat, n # 0 PROVE x[n] = more(x[n - 1])
  <2>1. n - 1 \in Nat /\ (n - 1) + 1 = n
    BY <1>3
  <2> HIDE DEF more
  <2> QED
    BY <1>2, <2>1
<1>4. IsRound(x)
  <2> HIDE DEF more, V, first
  <2> QED
    BY <1>2, <1>3
<1> HIDE DEF IsRound
<1>5. IsRound(r)
  BY <1>4
<1> HIDE DEF r
<1>6. r[0] = first /\ \A n \in Nat : r[n + 1] = more(r[n])
  <2> HIDE DEF more, first
  <2>1. r = [n \in Nat |-> IF n = 0 THEN first ELSE more(r[n - 1])]
    BY <1>5 DEF IsRound
  <2>2. \A n \in Nat : n + 1 \in Nat /\ n + 1 # 0 /\ (n + 1) - 1 = n
    OBVIOUS
  <2> QED
    BY <2>1, <2>2
<1>7. collectDescendantGroupIds(tree, {g}) = r[N]
  BY DEF collectDescendantGroupIds, r, IsRound
<1> HIDE DEF IsRound
<1>8. first = {g} /\ N \in Nat
  BY FS_CardinalityType
\* Each round is of groups, has g, and nothing that need not be there.
<1> DEFINE Fine == {n \in Nat : /\ r[n] \subseteq DOMAIN tree /\ g \in r[n]
                                /\ \A S : g \in S /\ IsClosed(S, tree) => r[n] \subseteq S}
<1>9. 0 \in Fine
  BY <1>6, <1>8
<1>10. ASSUME NEW n \in Nat, n \in Fine PROVE n + 1 \in Fine
  <2>1. r[n + 1] = r[n] \cup {c \in DOMAIN tree : tree[c] \in r[n]}
    BY <1>6
  <2> QED
    BY <1>10, <2>1 DEF IsClosed
<1>11. N \in Fine
  <2> HIDE DEF Fine, N
  <2> QED
    BY <1>8, <1>9, <1>10, AllNumbers
\* As long as the rounds go on, each brings a group.
<1> DEFINE Goes == {n \in Nat : r[n + 1] = r[n] \/ (IsFiniteSet(r[n]) /\ Cardinality(r[n]) > n)}
<1>12. 0 \in Goes
  <2>1. IsFiniteSet({g}) /\ Cardinality({g}) = 1
    BY FS_Singleton
  <2>2. r[0] = {g}
    BY <1>6, <1>8
  <2>3. IsFiniteSet(r[0]) /\ Cardinality(r[0]) > 0
    BY <2>1, <2>2
  <2> QED
    BY <2>3
<1>13. ASSUME NEW n \in Nat, n \in Goes PROVE n + 1 \in Goes
  <2>0. r[n + 1] = r[n] \cup {c \in DOMAIN tree : tree[c] \in r[n]}
        /\ r[(n + 1) + 1] = r[n + 1] \cup {c \in DOMAIN tree : tree[c] \in r[n + 1]}
    BY <1>6
  <2>1. CASE r[n + 1] = r[n]
    <3>1. r[(n + 1) + 1] = r[n + 1]
      BY <2>0, <2>1
    <3> QED
      BY <3>1
  <2>2. CASE r[n + 1] # r[n]
    <3>1. IsFiniteSet(r[n]) /\ Cardinality(r[n]) > n
      BY <1>13, <2>2
    <3> DEFINE new == {c \in DOMAIN tree : tree[c] \in r[n]}
    <3>2. IsFiniteSet(new) /\ r[n + 1] = r[n] \cup new
      BY <2>0, FS_Subset
    <3> HIDE DEF new
    <3>3. IsFiniteSet(r[n + 1])
      <4>1. IsFiniteSet(r[n] \cup new)
        BY <3>1, <3>2, FS_Union
      <4> QED
        BY <3>2, <4>1
    <3>4. r[n] \subseteq r[n + 1] /\ r[n] # r[n + 1]
      BY <2>0, <2>2
    <3>5. Cardinality(r[n]) < Cardinality(r[n + 1])
          /\ Cardinality(r[n]) \in Nat /\ Cardinality(r[n + 1]) \in Nat
      BY <3>1, <3>3, <3>4, FS_Subset, FS_CardinalityType
    <3>6. Cardinality(r[n + 1]) > n + 1
      BY <3>1, <3>5
    <3> QED
      BY <3>3, <3>6
  <2> QED
    BY <2>1, <2>2
<1>14. N \in Goes
  <2> HIDE DEF Goes, N
  <2> QED
    BY <1>8, <1>12, <1>13, AllNumbers
<1>15. r[N + 1] = r[N]
  <2>1. r[N] \subseteq DOMAIN tree
    BY <1>11
  <2>2. Cardinality(r[N]) <= N /\ Cardinality(r[N]) \in Nat
    BY <2>1, FS_Subset, FS_CardinalityType
  <2> QED
    BY <1>8, <1>14, <2>2
<1>16. IsClosed(r[N], tree)
  <2>1. r[N] = r[N] \cup {c \in DOMAIN tree : tree[c] \in r[N]}
    BY <1>6, <1>8, <1>15
  <2> QED
    BY <2>1 DEF IsClosed
<1> QED
  BY <1>7, <1>11, <1>16

-------------------------------------------------------------------------------
(* The depth of a group                                                    *)

\* The parent of a group is a group, or there is none.
IsHierarchy(tree) == tree \in [DOMAIN tree -> DOMAIN tree \cup {None}] /\ None \notin DOMAIN tree

LastStep == MaxDepth + 2

LEMMA LastStepFacts == LastStep \in Nat /\ LastStep >= 3 /\ MaxDepth \in Nat
  BY MaxDepthAssumption DEF LastStep

\* c[d][h]: what the climb from h comes to when it has made d steps.
ClimbAt(tree, d, f) ==
    [h \in DOMAIN tree |-> IF tree[h] = None THEN d
                           ELSE IF d > MaxDepth + 1 THEN Infinity
                           ELSE IF tree[h] \notin DOMAIN tree THEN d
                           ELSE f[tree[h]]]

IsClimb(c, tree) == \A d \in 1..LastStep : c[d] = ClimbAt(tree, d, c[d + 1])

LEMMA Climbs ==
    ASSUME NEW tree
    PROVE  \E c : IsClimb(c, tree)
                  /\ \A g \in DOMAIN tree : groupDepthOf(tree, g) = c[1][g]
<1> DEFINE V == Nat \X [DOMAIN tree -> Int]
           next(v) == <<v[1] + 1, ClimbAt(tree, LastStep - (v[1] + 1), v[2])>>
           step == [v \in V |-> next(v)]
           zero == [h \in DOMAIN tree |-> 0]
           first == <<0, ClimbAt(tree, LastStep, zero)>>
           Climb(c) == c = [d \in 1..(MaxDepth + 2) |->
                              [g \in DOMAIN tree |->
                                 IF tree[g] = None THEN d
                                 ELSE IF d > MaxDepth + 1 THEN Infinity
                                 ELSE IF tree[g] \notin DOMAIN tree THEN d
                                 ELSE c[d + 1][tree[g]]]]
<1>0. LastStep \in Nat /\ Infinity \in Int /\ MaxDepth \in Nat /\ LastStep = MaxDepth + 2
  BY LastStepFacts DEF Infinity, LastStep
<1>1. \A d \in Int, f \in [DOMAIN tree -> Int] : ClimbAt(tree, d, f) \in [DOMAIN tree -> Int]
  BY <1>0 DEF ClimbAt
<1>2. first \in V /\ step \in [V -> V]
  <2>1. zero \in [DOMAIN tree -> Int]
    OBVIOUS
  <2> HIDE DEF zero
  <2>2. first \in V
    BY <1>0, <1>1, <2>1
  <2>3. ASSUME NEW v \in V PROVE next(v) \in V
    <3>1. v[1] \in Nat /\ v[2] \in [DOMAIN tree -> Int]
      OBVIOUS
    <3>2. ClimbAt(tree, LastStep - (v[1] + 1), v[2]) \in [DOMAIN tree -> Int] /\ v[1] + 1 \in Nat
      BY <1>0, <1>1, <3>1
    <3> QED
      BY <3>2
  <2> QED
    BY <2>2, <2>3
<1>3. PICK x : IsMade(x, V, first, step)
  <2> HIDE DEF V, first, step
  <2> QED
    BY <1>2, StepByStep
<1>4. x[0] = first /\ \A n \in Nat : x[n] \in V /\ x[n + 1] = next(x[n])
  <2> HIDE DEF next, first
  <2> QED
    BY <1>3 DEF IsMade
<1>5. \A n \in Nat : x[n][1] = n
  <2> DEFINE Counted == {n \in Nat : x[n][1] = n}
  <2> HIDE DEF V, zero
  <2>1. 0 \in Counted /\ \A n \in Nat : n \in Counted => n + 1 \in Counted
    BY <1>4
  <2> HIDE DEF Counted
  <2>2. Nat \subseteq Counted
    BY <2>1, AllNumbers
  <2> QED
    BY <2>2 DEF Counted
<1> DEFINE C == [d \in 1..(MaxDepth + 2) |-> x[LastStep - d][2]]
\* At the last step nobody climbs on.
<1>6. ASSUME NEW d \in 1..LastStep PROVE C[d] = ClimbAt(tree, d, C[d + 1])
  <2>1. C[d] = x[LastStep - d][2]
    BY <1>0
  <2>2. CASE d = LastStep
    <3>1. LastStep - d = 0 /\ d > MaxDepth + 1
      BY <1>0, <2>2
    <3>2. x[LastStep - d][2] = ClimbAt(tree, d, zero)
      BY <1>4, <2>2, <3>1
    <3> HIDE DEF C
    <3>3. ClimbAt(tree, d, zero) = ClimbAt(tree, d, C[d + 1])
      BY <3>1 DEF ClimbAt
    <3> QED
      BY <2>1, <3>2, <3>3
  <2>3. CASE d # LastStep
    <3> DEFINE n == LastStep - (d + 1)
    <3>1. n \in Nat /\ LastStep - d = n + 1 /\ LastStep - (n + 1) = d /\ d + 1 \in 1..LastStep
          /\ LastStep - (d + 1) = n
      BY <1>0, <2>3
    <3> HIDE DEF n
    <3>2. x[n + 1] = next(x[n]) /\ x[n][1] = n
      BY <1>4, <1>5, <3>1
    <3>3. x[LastStep - d][2] = ClimbAt(tree, d, x[n][2])
      BY <3>1, <3>2
    <3>4. C[d + 1] = x[n][2]
      BY <1>0, <3>1
    <3> HIDE DEF C
    <3> QED
      BY <2>1, <3>3, <3>4
  <2> QED
    BY <2>2, <2>3
<1>7. Climb(C)
  <2>1. C = [d \in 1..(MaxDepth + 2) |-> C[d]]
    OBVIOUS
  <2> HIDE DEF C
  <2>2. C = [d \in 1..(MaxDepth + 2) |-> ClimbAt(tree, d, C[d + 1])]
    BY <1>0, <1>6, <2>1
  <2> QED
    BY <2>2 DEF ClimbAt
<1> DEFINE c == CHOOSE y : Climb(y)
<1> HIDE DEF Climb, C
<1>8. Climb(c)
  BY <1>7
<1>9. \A g \in DOMAIN tree : groupDepthOf(tree, g) = c[1][g]
  BY DEF groupDepthOf, Climb
<1> HIDE DEF c
<1>10. IsClimb(c, tree)
  BY <1>0, <1>8 DEF Climb, IsClimb, ClimbAt
<1> QED
  BY <1>9, <1>10

\* A group whose climb ends is found from the top in as many steps.
LEMMA DepthFromTop ==
    ASSUME NEW tree, IsHierarchy(tree), NEW u, IsFromTop(u, tree), NEW p \in DOMAIN tree,
           groupDepthOf(tree, p) # Infinity
    PROVE  groupDepthOf(tree, p) \in 1..LastStep /\ p \in u[groupDepthOf(tree, p)]
<1>0. LastStep \in Nat /\ LastStep >= 3 /\ MaxDepth \in Nat /\ LastStep = MaxDepth + 2
  BY LastStepFacts DEF LastStep
<1>1. PICK c : IsClimb(c, tree) /\ \A g \in DOMAIN tree : groupDepthOf(tree, g) = c[1][g]
  BY Climbs
<1> DEFINE Ends(d, h) == c[d][h] # Infinity => c[d][h] \in d..LastStep /\ h \in u[c[d][h] - d + 1]
           Good == {n \in Nat : n < LastStep => \A h \in DOMAIN tree : Ends(LastStep - n, h)}
<1>2. ASSUME NEW d \in 1..LastStep, NEW h \in DOMAIN tree
      PROVE  c[d][h] = IF tree[h] = None THEN d
                       ELSE IF d > MaxDepth + 1 THEN Infinity ELSE c[d + 1][tree[h]]
  <2>1. tree[h] # None => tree[h] \in DOMAIN tree
    BY DEF IsHierarchy
  <2>2. c[d] = ClimbAt(tree, d, c[d + 1])
    BY <1>1 DEF IsClimb
  <2> QED
    BY <2>1, <2>2 DEF ClimbAt
<1>3. ASSUME NEW h \in DOMAIN tree, tree[h] = None PROVE h \in u[1]
  <2>1. u[0 + 1] = {None} \cup {g \in DOMAIN tree : tree[g] \in u[0]} /\ u[0] = {None}
    BY DEF IsFromTop
  <2> QED
    BY <1>3, <2>1
<1>4. 0 \in Good
  <2> SUFFICES ASSUME NEW h \in DOMAIN tree PROVE Ends(LastStep, h)
    BY <1>0
  <2>1. c[LastStep][h] = IF tree[h] = None THEN LastStep ELSE Infinity
    BY <1>0, <1>2
  <2>2. CASE tree[h] = None
    BY <1>0, <1>3, <2>1, <2>2
  <2>3. CASE tree[h] # None
    BY <2>1, <2>3
  <2> QED
    BY <2>2, <2>3
<1>5. ASSUME NEW n \in Nat, n \in Good PROVE n + 1 \in Good
  <2> SUFFICES ASSUME n + 1 < LastStep, NEW h \in DOMAIN tree PROVE Ends(LastStep - (n + 1), h)
    OBVIOUS
  <2> DEFINE d == LastStep - (n + 1)
  <2>1. d \in 1..LastStep /\ d + 1 = LastStep - n /\ n < LastStep /\ d <= MaxDepth + 1
        /\ d + 1 \in 1..LastStep
    BY <1>0
  <2> HIDE DEF d
  <2>2. CASE tree[h] = None
    BY <1>2, <1>3, <2>1, <2>2 DEF d
  <2>3. CASE tree[h] # None
    <3>1. c[d][h] = c[d + 1][tree[h]] /\ tree[h] \in DOMAIN tree
      BY <1>0, <1>2, <2>1, <2>3 DEF IsHierarchy
    <3>2. Ends(d + 1, tree[h])
      BY <1>5, <2>1, <3>1
    <3>3. ASSUME c[d][h] # Infinity PROVE c[d][h] \in d..LastStep /\ h \in u[c[d][h] - d + 1]
      <4> DEFINE e == c[d][h]
                 k == e - (d + 1) + 1
      <4>1. e \in (d + 1)..LastStep /\ tree[h] \in u[k]
        BY <3>1, <3>2, <3>3
      <4> HIDE DEF e
      <4>2. k \in Nat /\ k + 1 = e - d + 1 /\ e \in d..LastStep
        BY <1>0, <2>1, <4>1
      <4> HIDE DEF k
      <4>3. u[k + 1] = {None} \cup {g \in DOMAIN tree : tree[g] \in u[k]}
        BY <4>2 DEF IsFromTop
      <4>4. h \in u[k + 1]
        BY <4>1, <4>3
      <4> QED
        BY <4>2, <4>4 DEF e
    <3> QED
      BY <3>3 DEF d
  <2> QED
    BY <2>2, <2>3
<1> HIDE DEF Good
<1>6. Nat \subseteq Good
  BY <1>4, <1>5, AllNumbers
<1> USE DEF Good
<1>7. Ends(1, p)
  <2>1. LastStep - 1 \in Nat /\ LastStep - 1 < LastStep /\ LastStep - (LastStep - 1) = 1
    BY <1>0
  <2>2. LastStep - 1 \in Good
    BY <1>6, <2>1
  <2> QED
    BY <2>1, <2>2
<1>8. groupDepthOf(tree, p) = c[1][p]
  BY <1>1
<1>9. c[1][p] \in 1..LastStep /\ p \in u[c[1][p] - 1 + 1]
  BY <1>7, <1>8
<1>10. c[1][p] - 1 + 1 = c[1][p]
  BY <1>0, <1>9
<1> QED
  BY <1>8, <1>9, <1>10

-------------------------------------------------------------------------------
(* The height of what a group takes along                                  *)

LEMMA LastExists ==
    ASSUME NEW S, S \subseteq Nat, IsFiniteSet(S), S # {}
    PROVE  \E x \in S : \A y \in S : y <= x
<1> DEFINE Up(x) == {y \in S : x < y}
           R == StrictSubsetOrdering(S)
<1>1. IsWellFoundedOn(R, SUBSET S)
  BY FS_StrictSubsetOrderingWellFounded, FS_FiniteSubsetsOfFinite
<1>2. \A T \in SUBSET S, U \in SUBSET S : <<T, U>> \in R <=> T \subseteq U /\ T # U
  BY DEF StrictSubsetOrdering
<1> HIDE DEF R
<1>3. {Up(x) : x \in S} \subseteq SUBSET S /\ {Up(x) : x \in S} # {}
  OBVIOUS
<1>4. PICK T \in {Up(x) : x \in S} : \A U \in {Up(x) : x \in S} : ~(<<U, T>> \in R)
  BY <1>1, <1>3, WFMin
<1>5. PICK x \in S : T = Up(x)
  BY <1>4
<1>6. ASSUME NEW y \in S, x < y PROVE FALSE
  <2>1. x \in Nat /\ y \in Nat /\ \A z \in S : z \in Nat
    OBVIOUS
  <2>2. Up(y) \subseteq Up(x)
    <3>1. ASSUME NEW z \in S, y < z PROVE x < z
      BY <1>6, <2>1, <3>1
    <3> QED
      BY <3>1
  <2>3. y \in Up(x) /\ y \notin Up(y)
    BY <1>6, <2>1
  <2>4. ~(<<Up(y), Up(x)>> \in R)
    BY <1>4, <1>5
  <2> QED
    BY <1>2, <2>2, <2>3, <2>4
<1> QED
  BY <1>6

\* w[n][h]: the height of h when n steps have been made down to it.
Tallest(tree, h, f) ==
    LET heights == {f[c] : c \in Children(tree, h)}
    IN  CHOOSE x \in heights : \A k \in heights : k <= x

WalkAt(tree, group, n, f) ==
    [h \in DOMAIN tree |->
       IF n > MaxDepth + 1 \/ (n > 1 /\ h = group) \/ Children(tree, h) = {} THEN 1
       ELSE 1 + Tallest(tree, h, f)]

IsWalk(w, tree, group) ==
    \A n \in 1..LastStep : /\ w[n] = WalkAt(tree, group, n, w[n + 1])
                           /\ w[n] \in [DOMAIN tree -> Nat]

LEMMA TallestFacts ==
    ASSUME NEW tree, IsFiniteSet(DOMAIN tree), NEW f \in [DOMAIN tree -> Nat],
           NEW h, Children(tree, h) # {}
    PROVE  /\ Tallest(tree, h, f) \in Nat
           /\ \A c \in Children(tree, h) : f[c] <= Tallest(tree, h, f)
           /\ \E c \in Children(tree, h) : f[c] = Tallest(tree, h, f)
<1> DEFINE below == Children(tree, h)
           heights == {f[c] : c \in below}
<1>1. below \subseteq DOMAIN tree /\ IsFiniteSet(below)
  BY FS_Subset DEF Children
<1> HIDE DEF below
<1>2. IsFiniteSet(heights)
  <2> DEFINE g == [c \in below |-> f[c]]
  <2>1. g \in Surjection(below, heights)
    BY DEF Surjection
  <2> QED
    BY <1>1, <2>1, FS_Surjection
<1>3. heights \subseteq Nat /\ heights # {}
  BY <1>1 DEF below
<1>4. Tallest(tree, h, f) = CHOOSE x \in heights : \A k \in heights : k <= x
  BY DEF Tallest, below
<1>5. /\ \A c \in Children(tree, h) : f[c] \in heights
      /\ \A x \in heights : \E c \in Children(tree, h) : f[c] = x
  BY DEF below
<1> HIDE DEF heights
<1>6. \E x \in heights : \A k \in heights : k <= x
  BY <1>2, <1>3, LastExists
<1>7. Tallest(tree, h, f) \in heights /\ \A k \in heights : k <= Tallest(tree, h, f)
  BY <1>4, <1>6
<1> QED
  BY <1>3, <1>5, <1>7

LEMMA Walks ==
    ASSUME NEW tree, IsFiniteSet(DOMAIN tree), NEW group
    PROVE  \E w : IsWalk(w, tree, group) /\ subtreeHeightOf(tree, group) = w[1][group]
<1> DEFINE V == Nat \X [DOMAIN tree -> Nat]
           next(v) == <<v[1] + 1, WalkAt(tree, group, LastStep - (v[1] + 1), v[2])>>
           step == [v \in V |-> next(v)]
           zero == [h \in DOMAIN tree |-> 0]
           first == <<0, WalkAt(tree, group, LastStep, zero)>>
           Walk(w) == w = [n \in 1..(MaxDepth + 2) |->
                             [g \in DOMAIN tree |->
                                IF n > MaxDepth + 1 \/ (n > 1 /\ g = group) \/ Children(tree, g) = {}
                                THEN 1
                                ELSE LET heights == {w[n + 1][c] : c \in Children(tree, g)}
                                     IN  1 + CHOOSE h \in heights : \A k \in heights : k <= h]]
<1>0. LastStep \in Nat /\ LastStep >= 3 /\ MaxDepth \in Nat /\ LastStep = MaxDepth + 2
  BY LastStepFacts DEF LastStep
<1>1. ASSUME NEW n, NEW f \in [DOMAIN tree -> Nat]
      PROVE  WalkAt(tree, group, n, f) \in [DOMAIN tree -> Nat]
  <2>1. \A h : Children(tree, h) # {} => Tallest(tree, h, f) \in Nat
    BY TallestFacts
  <2> QED
    BY <2>1 DEF WalkAt
<1>2. first \in V /\ step \in [V -> V]
  <2>1. zero \in [DOMAIN tree -> Nat]
    OBVIOUS
  <2> HIDE DEF zero
  <2>2. first \in V
    BY <1>1, <2>1
  <2>3. ASSUME NEW v \in V PROVE next(v) \in V
    <3>1. v[1] \in Nat /\ v[2] \in [DOMAIN tree -> Nat]
      OBVIOUS
    <3>2. WalkAt(tree, group, LastStep - (v[1] + 1), v[2]) \in [DOMAIN tree -> Nat] /\ v[1] + 1 \in Nat
      BY <1>1, <3>1
    <3> QED
      BY <3>2
  <2> QED
    BY <2>2, <2>3
<1>3. PICK x : IsMade(x, V, first, step)
  <2> HIDE DEF V, first, step
  <2> QED
    BY <1>2, StepByStep
<1>4. x[0] = first /\ \A n \in Nat : x[n] \in V /\ x[n + 1] = next(x[n])
  <2> HIDE DEF next, first
  <2> QED
    BY <1>3 DEF IsMade
<1>5. \A n \in Nat : x[n][1] = n
  <2> DEFINE Counted == {n \in Nat : x[n][1] = n}
  <2> HIDE DEF V, zero
  <2>1. 0 \in Counted /\ \A n \in Nat : n \in Counted => n + 1 \in Counted
    BY <1>4
  <2> HIDE DEF Counted
  <2>2. Nat \subseteq Counted
    BY <2>1, AllNumbers
  <2> QED
    BY <2>2 DEF Counted
<1> DEFINE W == [n \in 1..(MaxDepth + 2) |-> x[LastStep - n][2]]
\* At the last step nobody walks on.
<1>6. ASSUME NEW n \in 1..LastStep PROVE W[n] = WalkAt(tree, group, n, W[n + 1])
  <2>1. W[n] = x[LastStep - n][2]
    BY <1>0
  <2>2. CASE n = LastStep
    <3>1. LastStep - n = 0 /\ n > MaxDepth + 1
      BY <1>0, <2>2
    <3>2. x[LastStep - n][2] = WalkAt(tree, group, n, zero)
      BY <1>4, <2>2, <3>1
    <3> HIDE DEF W
    <3>3. WalkAt(tree, group, n, zero) = WalkAt(tree, group, n, W[n + 1])
      BY <3>1 DEF WalkAt
    <3> QED
      BY <2>1, <3>2, <3>3
  <2>3. CASE n # LastStep
    <3> DEFINE k == LastStep - (n + 1)
    <3>1. k \in Nat /\ LastStep - n = k + 1 /\ LastStep - (k + 1) = n /\ n + 1 \in 1..LastStep
          /\ LastStep - (n + 1) = k
      BY <1>0, <2>3
    <3> HIDE DEF k
    <3>2. x[k + 1] = next(x[k]) /\ x[k][1] = k
      BY <1>4, <1>5, <3>1
    <3>3. x[LastStep - n][2] = WalkAt(tree, group, n, x[k][2])
      BY <3>1, <3>2
    <3>4. W[n + 1] = x[k][2]
      BY <1>0, <3>1
    <3> HIDE DEF W
    <3> QED
      BY <2>1, <3>3, <3>4
  <2> QED
    BY <2>2, <2>3
<1>7. Walk(W)
  <2>1. W = [n \in 1..(MaxDepth + 2) |-> W[n]]
    OBVIOUS
  <2> HIDE DEF W
  <2>2. W = [n \in 1..(MaxDepth + 2) |-> WalkAt(tree, group, n, W[n + 1])]
    BY <1>0, <1>6, <2>1
  <2> QED
    BY <2>2 DEF WalkAt, Tallest
<1> DEFINE w == CHOOSE y : Walk(y)
<1> HIDE DEF Walk, W
<1>8. Walk(w)
  BY <1>7
<1>9. subtreeHeightOf(tree, group) = w[1][group]
  BY DEF subtreeHeightOf, Walk
<1> HIDE DEF w
<1>10. \A n \in 1..LastStep : w[n] = WalkAt(tree, group, n, w[n + 1])
  BY <1>0, <1>8 DEF Walk, WalkAt, Tallest
\* What the last step gives does not depend on the one after it.
<1> DEFINE Typed == {k \in Nat : k < LastStep => w[LastStep - k] \in [DOMAIN tree -> Nat]}
<1>11. 0 \in Typed
  <2>1. LastStep \in 1..LastStep /\ LastStep > MaxDepth + 1 /\ LastStep - 0 = LastStep
    BY <1>0
  <2>2. w[LastStep] = [h \in DOMAIN tree |-> 1]
    BY <1>10, <2>1 DEF WalkAt
  <2> QED
    BY <2>1, <2>2
<1>12. ASSUME NEW k \in Nat, k \in Typed PROVE k + 1 \in Typed
  <2> SUFFICES ASSUME k + 1 < LastStep PROVE w[LastStep - (k + 1)] \in [DOMAIN tree -> Nat]
    OBVIOUS
  <2> DEFINE n == LastStep - (k + 1)
  <2>1. n \in 1..LastStep /\ n + 1 = LastStep - k /\ k < LastStep
    BY <1>0
  <2> HIDE DEF n
  <2>2. w[n + 1] \in [DOMAIN tree -> Nat]
    BY <1>12, <2>1
  <2>3. w[n] = WalkAt(tree, group, n, w[n + 1])
    BY <1>10, <2>1
  <2> QED
    BY <1>1, <2>2, <2>3 DEF n
<1> HIDE DEF Typed
<1>13. Nat \subseteq Typed
  BY <1>11, <1>12, AllNumbers
<1> USE DEF Typed
<1>14. \A n \in 1..LastStep : w[n] \in [DOMAIN tree -> Nat]
  <2> SUFFICES ASSUME NEW n \in 1..LastStep PROVE w[n] \in [DOMAIN tree -> Nat]
    OBVIOUS
  <2>1. LastStep - n \in Nat /\ LastStep - n < LastStep /\ LastStep - (LastStep - n) = n
    BY <1>0
  <2>2. LastStep - n \in Typed
    BY <1>13, <2>1
  <2> QED
    BY <2>1, <2>2
<1>15. IsWalk(w, tree, group)
  BY <1>10, <1>14 DEF IsWalk
<1> QED
  BY <1>9, <1>15

\* Nobody is lower than one; whoever has somebody below is higher than that one.
LEMMA Heights ==
    ASSUME NEW tree, IsFiniteSet(DOMAIN tree), NEW group, NEW w, IsWalk(w, tree, group)
    PROVE  /\ \A n \in 1..LastStep, h \in DOMAIN tree : w[n][h] \in Nat /\ w[n][h] >= 1
           /\ \A n \in 1..(MaxDepth + 1), h \in DOMAIN tree : \A c \in Children(tree, h) :
                 n = 1 \/ h # group => w[n][h] >= 1 + w[n + 1][c]
<1>0. LastStep \in Nat /\ LastStep >= 3 /\ MaxDepth \in Nat /\ LastStep = MaxDepth + 2
  BY LastStepFacts DEF LastStep
<1>1. ASSUME NEW n \in 1..(MaxDepth + 1)
      PROVE  \A h \in DOMAIN tree : \A c \in Children(tree, h) :
                n = 1 \/ h # group => w[n][h] = 1 + Tallest(tree, h, w[n + 1])
  <2>1. w[n] = WalkAt(tree, group, n, w[n + 1]) /\ ~(n > MaxDepth + 1) /\ (n = 1 => ~(n > 1))
    BY <1>0 DEF IsWalk
  <2> QED
    BY <2>1 DEF WalkAt
<1>2. ASSUME NEW n \in 1..(MaxDepth + 1)
      PROVE  \A h \in DOMAIN tree : \A c \in Children(tree, h) :
                /\ Tallest(tree, h, w[n + 1]) \in Nat
                /\ w[n + 1][c] <= Tallest(tree, h, w[n + 1]) /\ w[n + 1][c] \in Nat
  <2>1. w[n + 1] \in [DOMAIN tree -> Nat]
    BY <1>0 DEF IsWalk
  <2> QED
    BY <2>1, TallestFacts DEF Children
<1>3. ASSUME NEW n \in 1..LastStep, NEW h \in DOMAIN tree PROVE w[n][h] \in Nat /\ w[n][h] >= 1
  <2>1. w[n][h] \in Nat
    BY DEF IsWalk
  <2>2. CASE n > MaxDepth + 1 \/ (n > 1 /\ h = group) \/ Children(tree, h) = {}
    <3>1. w[n] = WalkAt(tree, group, n, w[n + 1])
      BY DEF IsWalk
    <3>2. WalkAt(tree, group, n, w[n + 1])[h] = 1
      BY <2>2 DEF WalkAt
    <3> QED
      BY <2>1, <3>1, <3>2
  <2>3. CASE ~(n > MaxDepth + 1 \/ (n > 1 /\ h = group) \/ Children(tree, h) = {})
    <3>1. n \in 1..(MaxDepth + 1) /\ (n = 1 \/ h # group) /\ \E c : c \in Children(tree, h)
      BY <1>0, <2>3
    <3> QED
      BY <1>1, <1>2, <2>1, <3>1
  <2> QED
    BY <2>2, <2>3
<1>4. ASSUME NEW n \in 1..(MaxDepth + 1), NEW h \in DOMAIN tree, NEW c \in Children(tree, h),
             n = 1 \/ h # group
      PROVE  w[n][h] >= 1 + w[n + 1][c]
  BY <1>1, <1>2, <1>4
<1> QED
  BY <1>3, <1>4

-------------------------------------------------------------------------------
(* Trees that stay shallow                                                 *)

LEMMA NoneIsTop == ASSUME NEW tree, NEW u, IsFromTop(u, tree), NEW n \in Nat PROVE None \in u[n]
<1>1. u[0] \subseteq u[n]
  BY FromTopGrows
<1> QED
  BY <1>1 DEF IsFromTop

\* Whoever is of K keeps the place under one of K, or comes to the top.
KeepsPlaces(K, tree, new) ==
    \A h \in K \cap DOMAIN tree :
       /\ h \in DOMAIN new
       /\ new[h] = None \/ (new[h] = tree[h] /\ tree[h] \in K \cup {None})

\* Those are found from the top as before.
LEMMA Carries ==
    ASSUME NEW tree, NEW new, NEW u, IsFromTop(u, tree), NEW v, IsFromTop(v, new),
           NEW K, KeepsPlaces(K, tree, new)
    PROVE  \A n \in Nat : u[n] \cap K \subseteq v[n]
<1> DEFINE Kept == {n \in Nat : u[n] \cap K \subseteq v[n]}
<1>1. 0 \in Kept
  BY DEF IsFromTop
<1>2. ASSUME NEW n \in Nat, n \in Kept PROVE n + 1 \in Kept
  <2>1. /\ u[n + 1] = {None} \cup {g \in DOMAIN tree : tree[g] \in u[n]}
        /\ v[n + 1] = {None} \cup {g \in DOMAIN new : new[g] \in v[n]}
    BY DEF IsFromTop
  <2>2. None \in v[n]
    BY NoneIsTop
  <2> QED
    BY <1>2, <2>1, <2>2 DEF KeepsPlaces
<1> HIDE DEF Kept
<1>3. Nat \subseteq Kept
  BY <1>1, <1>2, AllNumbers
<1> QED
  BY <1>3 DEF Kept

\* A move that is allowed leaves a shallow forest shallow.
LEMMA MovesStayShallow ==
    ASSUME NEW tree, IsHierarchy(tree), IsFiniteSet(DOMAIN tree), IsShallowForest(tree),
           NEW g \in DOMAIN tree, NEW p \in DOMAIN tree \cup {None}, canReparentGroup(tree, g, p)
    PROVE  IsShallowForest([tree EXCEPT ![g] = p])
<1> DEFINE new == [tree EXCEPT ![g] = p]
           D == collectDescendantGroupIds(tree, {g})
           a == IF p = None THEN 0 ELSE groupDepthOf(tree, p)
           s == subtreeHeightOf(tree, g)
<1>0. DOMAIN new = DOMAIN tree /\ new[g] = p /\ \A h \in DOMAIN tree \ {g} : new[h] = tree[h]
  OBVIOUS
<1>1. p \notin D /\ a # Infinity /\ a + s <= MaxDepth
  BY DEF canReparentGroup
<1>2. /\ D \subseteq DOMAIN tree /\ g \in D /\ IsClosed(D, tree)
      /\ \A S : g \in S /\ IsClosed(S, tree) => D \subseteq S
  BY Descendants
<1> HIDE DEF D, new, s
<1>3. PICK u : IsFromTop(u, tree) /\ (IsShallowForest(tree) <=> DOMAIN tree \subseteq u[MaxDepth])
  BY FromTop
<1>4. PICK v : IsFromTop(v, new) /\ (IsShallowForest(new) <=> DOMAIN new \subseteq v[MaxDepth])
  BY FromTop
<1>5. PICK w : IsWalk(w, tree, g) /\ s = w[1][g]
  BY Walks DEF s
<1>6. LastStep = MaxDepth + 2 /\ MaxDepth \in Nat /\ MaxDepth >= 1
  BY LastStepFacts, MaxDepthAssumption DEF LastStep
<1>7. /\ \A n \in 1..LastStep, h \in DOMAIN tree : w[n][h] \in Nat /\ w[n][h] >= 1
      /\ \A n \in 1..(MaxDepth + 1), h \in DOMAIN tree : \A c \in Children(tree, h) :
            n = 1 \/ h # g => w[n][h] >= 1 + w[n + 1][c]
  BY <1>5, Heights
\* Who does not go along stays where it is.
<1>8. \A n \in Nat : u[n] \cap (DOMAIN tree \ D) \subseteq v[n]
  <2> DEFINE K == DOMAIN tree \ D
  <2>1. KeepsPlaces(K, tree, new)
    BY <1>0, <1>2 DEF IsClosed, IsHierarchy, KeepsPlaces
  <2> HIDE DEF K
  <2>2. \A n \in Nat : u[n] \cap K \subseteq v[n]
    BY <1>3, <1>4, <2>1, Carries
  <2> QED
    BY <2>2 DEF K
\* The group is under its new parent.
<1>9. a \in Nat /\ p \in v[a]
  <2>1. CASE p = None
    BY <1>4, <2>1 DEF IsFromTop
  <2>2. CASE p # None
    <3>1. p \in DOMAIN tree /\ a = groupDepthOf(tree, p)
      BY <2>2
    <3>2. a \in 1..LastStep /\ p \in u[a]
      BY <1>1, <1>3, <3>1, DepthFromTop
    <3> HIDE DEF a
    <3>3. a \in Nat
      BY <1>6, <3>2
    <3> QED
      BY <1>1, <1>8, <3>1, <3>2, <3>3
  <2> QED
    BY <2>1, <2>2
<1> HIDE DEF a
<1>10. ASSUME NEW n \in Nat, NEW c \in DOMAIN tree, new[c] \in v[n] PROVE c \in v[n + 1]
  <2>1. v[n + 1] = {None} \cup {h \in DOMAIN new : new[h] \in v[n]}
    BY <1>4 DEF IsFromTop
  <2> QED
    BY <1>0, <1>10, <2>1
\* Who goes along is found below it, with room for its own subtree.
<1> DEFINE FitsBelow(n, h) == h \in v[a + n] /\ n - 1 + w[n][h] <= s
           Good == {h \in DOMAIN tree : \E n \in 1..MaxDepth : FitsBelow(n, h)}
<1>11. s \in Nat
  BY <1>5, <1>6, <1>7
<1>12. FitsBelow(1, g)
  <2>1. g \in v[a + 1]
    BY <1>0, <1>9, <1>10
  <2> QED
    BY <1>5, <1>11, <2>1
<1>13. ASSUME NEW n \in 1..MaxDepth, NEW h \in DOMAIN tree, FitsBelow(n, h), n = 1 \/ h # g,
              NEW c \in DOMAIN tree, tree[c] = h, c # g
       PROVE  n + 1 \in 1..MaxDepth /\ FitsBelow(n + 1, c)
  <2>1. w[n][h] >= 1 + w[n + 1][c]
    BY <1>6, <1>7, <1>13 DEF Children
  <2>2. w[n][h] \in Nat /\ w[n + 1][c] \in Nat /\ w[n + 1][c] >= 1
    BY <1>6, <1>7
  <2>3. (n + 1) - 1 + w[n + 1][c] <= s
    BY <1>11, <1>13, <2>1, <2>2
  <2>4. n + 1 \in 1..MaxDepth
    BY <1>1, <1>6, <1>9, <1>11, <2>2, <2>3
  <2>5. new[c] \in v[a + n] /\ a + n \in Nat /\ a + n + 1 = a + (n + 1)
    BY <1>0, <1>9, <1>13
  <2>6. c \in v[a + (n + 1)]
    BY <1>10, <2>5
  <2> QED
    BY <2>3, <2>4, <2>6
<1> HIDE DEF FitsBelow
<1>14. g \in Good
  BY <1>6, <1>12
<1>15. IsClosed(Good, tree)
  <2> SUFFICES ASSUME NEW c \in DOMAIN tree, tree[c] \in Good PROVE c \in Good
    BY DEF IsClosed
  <2>1. CASE c = g
    BY <1>14, <2>1
  <2>2. CASE c # g /\ tree[c] = g
    <3>1. 1 \in 1..MaxDepth
      BY <1>6
    <3>2. 1 + 1 \in 1..MaxDepth /\ FitsBelow(1 + 1, c)
      BY <1>12, <1>13, <2>2, <3>1
    <3> QED
      BY <3>2
  <2>3. CASE c # g /\ tree[c] # g
    <3>1. PICK n \in 1..MaxDepth : FitsBelow(n, tree[c])
      OBVIOUS
    <3>2. n + 1 \in 1..MaxDepth /\ FitsBelow(n + 1, c)
      BY <1>13, <2>3, <3>1
    <3> QED
      BY <3>2
  <2> QED
    BY <2>1, <2>2, <2>3
<1>16. D \subseteq Good
  <2> HIDE DEF Good
  <2> QED
    BY <1>2, <1>14, <1>15
<1>17. ASSUME NEW h \in DOMAIN tree PROVE h \in v[MaxDepth]
  <2>1. CASE h \in D
    <3>1. PICK n \in 1..MaxDepth : FitsBelow(n, h)
      BY <1>16, <2>1
    <3>2. w[n][h] \in Nat /\ w[n][h] >= 1
      BY <1>6, <1>7
    <3>3. a + n \in Nat /\ a + n <= MaxDepth
      BY <1>1, <1>6, <1>9, <1>11, <3>1, <3>2 DEF FitsBelow
    <3>4. v[a + n] \subseteq v[MaxDepth]
      BY <1>4, <1>6, <3>3, FromTopGrows
    <3> QED
      BY <3>1, <3>4 DEF FitsBelow
  <2>2. CASE h \notin D
    BY <1>3, <1>6, <1>8, <2>2
  <2> QED
    BY <2>1, <2>2
<1> QED
  BY <1>0, <1>4, <1>17 DEF new

\* A new group goes below one that has room for another level.
LEMMA AddingStaysShallow ==
    ASSUME NEW tree, IsHierarchy(tree), IsShallowForest(tree), NEW g, g \notin DOMAIN tree, g # None,
           NEW p, p = None \/ (p \in DOMAIN tree /\ groupDepthOf(tree, p) \in 1..(MaxDepth - 1))
    PROVE  IsShallowForest([h \in DOMAIN tree \cup {g} |-> IF h = g THEN p ELSE tree[h]])
<1> DEFINE new == [h \in DOMAIN tree \cup {g} |-> IF h = g THEN p ELSE tree[h]]
<1>0. DOMAIN new = DOMAIN tree \cup {g} /\ new[g] = p /\ \A h \in DOMAIN tree : new[h] = tree[h]
  OBVIOUS
<1> HIDE DEF new
<1>1. PICK u : IsFromTop(u, tree) /\ (IsShallowForest(tree) <=> DOMAIN tree \subseteq u[MaxDepth])
  BY FromTop
<1>2. PICK v : IsFromTop(v, new) /\ (IsShallowForest(new) <=> DOMAIN new \subseteq v[MaxDepth])
  BY FromTop
<1>3. \A n \in Nat : u[n] \cap DOMAIN tree \subseteq v[n]
  <2> DEFINE K == DOMAIN tree
  <2>1. KeepsPlaces(K, tree, new)
    BY <1>0 DEF IsHierarchy, KeepsPlaces
  <2> HIDE DEF K
  <2>2. \A n \in Nat : u[n] \cap K \subseteq v[n]
    BY <1>1, <1>2, <2>1, Carries
  <2> QED
    BY <2>2 DEF K
<1>4. MaxDepth \in Nat /\ MaxDepth >= 1 /\ Infinity = MaxDepth + 3
  BY MaxDepthAssumption DEF Infinity
<1>5. \E n \in 0..(MaxDepth - 1) : p \in v[n]
  <2>1. CASE p = None
    <3>1. None \in v[0] /\ 0 \in 0..(MaxDepth - 1)
      BY <1>2, <1>4 DEF IsFromTop
    <3> QED
      BY <2>1, <3>1
  <2>2. CASE p # None
    <3> DEFINE n == groupDepthOf(tree, p)
    <3>1. p \in DOMAIN tree /\ n \in 1..(MaxDepth - 1)
      BY <2>2
    <3>2. n # Infinity
      BY <1>4, <3>1
    <3>3. p \in u[n]
      BY <1>1, <3>1, <3>2, DepthFromTop
    <3> HIDE DEF n
    <3>4. n \in Nat /\ n \in 0..(MaxDepth - 1)
      BY <1>4, <3>1
    <3> QED
      BY <1>3, <3>1, <3>3, <3>4
  <2> QED
    BY <2>1, <2>2
<1>6. PICK n \in 0..(MaxDepth - 1) : p \in v[n]
  BY <1>5
<1>7. n \in Nat /\ n + 1 \in Nat /\ n + 1 <= MaxDepth
  BY <1>4
<1>8. g \in v[n + 1]
  <2>1. v[n + 1] = {None} \cup {h \in DOMAIN new : new[h] \in v[n]}
    BY <1>2, <1>7 DEF IsFromTop
  <2> QED
    BY <1>0, <1>6, <2>1
<1>9. g \in v[MaxDepth]
  <2>1. v[n + 1] \subseteq v[MaxDepth]
    BY <1>2, <1>4, <1>7, FromTopGrows
  <2> QED
    BY <1>8, <2>1
<1>10. DOMAIN tree \subseteq v[MaxDepth]
  BY <1>1, <1>3, <1>4
<1> QED
  BY <1>0, <1>2, <1>9, <1>10 DEF new

\* When a group goes, those below it come to the top.
LEMMA RemovingStaysShallow ==
    ASSUME NEW tree, IsHierarchy(tree), IsShallowForest(tree), NEW g \in DOMAIN tree
    PROVE  IsShallowForest([h \in DOMAIN tree \ {g} |-> IF tree[h] = g THEN None ELSE tree[h]])
<1> DEFINE new == [h \in DOMAIN tree \ {g} |-> IF tree[h] = g THEN None ELSE tree[h]]
           K == DOMAIN tree \ {g}
<1>0. DOMAIN new = K /\ \A h \in K : new[h] = IF tree[h] = g THEN None ELSE tree[h]
  OBVIOUS
<1> HIDE DEF new
<1>1. PICK u : IsFromTop(u, tree) /\ (IsShallowForest(tree) <=> DOMAIN tree \subseteq u[MaxDepth])
  BY FromTop
<1>2. PICK v : IsFromTop(v, new) /\ (IsShallowForest(new) <=> DOMAIN new \subseteq v[MaxDepth])
  BY FromTop
<1>3. KeepsPlaces(K, tree, new)
  BY <1>0 DEF IsHierarchy, KeepsPlaces
<1>4. K \subseteq DOMAIN tree /\ MaxDepth \in Nat
  BY MaxDepthAssumption
<1> HIDE DEF K
<1>5. \A n \in Nat : u[n] \cap K \subseteq v[n]
  BY <1>1, <1>2, <1>3, Carries
<1> QED
  BY <1>0, <1>1, <1>2, <1>4, <1>5 DEF new

-------------------------------------------------------------------------------
(* No move is refused without a reason                                     *)

\* What is reached in every step from within is not found from the top.
LEMMA Unreached ==
    ASSUME NEW tree, NEW u, IsFromTop(u, tree), NEW S, None \notin S, S \subseteq DOMAIN tree,
           \A h \in S : tree[h] \in S
    PROVE  \A n \in Nat : u[n] \cap S = {}
<1> DEFINE Empty == {n \in Nat : u[n] \cap S = {}}
<1>1. 0 \in Empty
  BY DEF IsFromTop
<1>2. ASSUME NEW n \in Nat, n \in Empty PROVE n + 1 \in Empty
  <2>1. u[n + 1] = {None} \cup {g \in DOMAIN tree : tree[g] \in u[n]}
    BY DEF IsFromTop
  <2> QED
    BY <1>2, <2>1
<1> HIDE DEF Empty
<1>3. Nat \subseteq Empty
  BY <1>1, <1>2, AllNumbers
<1> QED
  BY <1>3 DEF Empty

\* The depth of a group is the number of steps in which it is found.
LEMMA DepthIsLeast ==
    ASSUME NEW tree, IsHierarchy(tree), NEW u, IsFromTop(u, tree), NEW p \in DOMAIN tree,
           NEW k \in Nat, k <= MaxDepth, p \in u[k]
    PROVE  groupDepthOf(tree, p) <= k
<1>0. LastStep \in Nat /\ LastStep >= 3 /\ MaxDepth \in Nat /\ LastStep = MaxDepth + 2
  BY LastStepFacts DEF LastStep
<1>1. PICK c : IsClimb(c, tree) /\ \A g \in DOMAIN tree : groupDepthOf(tree, g) = c[1][g]
  BY Climbs
<1>2. ASSUME NEW d \in 1..(MaxDepth + 1), NEW h \in DOMAIN tree
      PROVE  c[d][h] = IF tree[h] = None THEN d ELSE c[d + 1][tree[h]]
  <2>1. tree[h] # None => tree[h] \in DOMAIN tree
    BY DEF IsHierarchy
  <2>2. c[d] = ClimbAt(tree, d, c[d + 1]) /\ ~(d > MaxDepth + 1)
    BY <1>0, <1>1 DEF IsClimb
  <2> QED
    BY <2>1, <2>2 DEF ClimbAt
<1> DEFINE InTime(n, d) == \A h \in DOMAIN tree : h \in u[n] => c[d][h] <= d + n - 1
           Good == {n \in Nat : \A d \in 1..(MaxDepth + 1) : d + n - 1 <= MaxDepth + 1 => InTime(n, d)}
<1>3. 0 \in Good
  BY DEF IsFromTop, IsHierarchy
<1>4. ASSUME NEW n \in Nat, n \in Good PROVE n + 1 \in Good
  <2> SUFFICES ASSUME NEW d \in 1..(MaxDepth + 1), d + n <= MaxDepth + 1,
                      NEW h \in DOMAIN tree, h \in u[n + 1]
               PROVE  c[d][h] <= d + n
    BY <1>0
  <2>1. tree[h] \in u[n]
    <3>1. u[n + 1] = {None} \cup {g \in DOMAIN tree : tree[g] \in u[n]}
      BY DEF IsFromTop
    <3> QED
      BY <3>1 DEF IsHierarchy
  <2>2. CASE tree[h] = None
    <3>1. c[d][h] = d
      BY <1>2, <2>2
    <3> QED
      BY <1>0, <3>1
  <2>3. CASE tree[h] # None
    <3>1. tree[h] \in DOMAIN tree /\ c[d][h] = c[d + 1][tree[h]]
      BY <1>2, <2>3 DEF IsHierarchy
    <3>2. n # 0
      BY <2>1, <2>3 DEF IsFromTop
    <3>3. d + 1 \in 1..(MaxDepth + 1) /\ (d + 1) + n - 1 <= MaxDepth + 1 /\ (d + 1) + n - 1 = d + n
      BY <1>0, <3>2
    <3>4. InTime(n, d + 1)
      BY <1>4, <3>3
    <3> QED
      BY <2>1, <3>1, <3>3, <3>4
  <2> QED
    BY <2>2, <2>3
<1> HIDE DEF Good
<1>5. k \in Good
  BY <1>3, <1>4, AllNumbers
<1>6. InTime(k, 1)
  <2>1. 1 \in 1..(MaxDepth + 1) /\ 1 + k - 1 <= MaxDepth + 1
    BY <1>0
  <2> QED
    BY <1>5, <2>1 DEF Good
<1>7. groupDepthOf(tree, p) = c[1][p] /\ c[1][p] <= 1 + k - 1 /\ 1 + k - 1 = k
  BY <1>1, <1>6
<1> QED
  BY <1>7

\* Somebody below is as high as the height says.
LEMMA HeightsAreReached ==
    ASSUME NEW tree, IsFiniteSet(DOMAIN tree), NEW group, NEW w, IsWalk(w, tree, group),
           NEW n \in 1..LastStep, NEW h \in DOMAIN tree
    PROVE  \/ w[n][h] = 1
           \/ n # LastStep /\ \E c \in Children(tree, h) : w[n][h] = 1 + w[n + 1][c]
<1>0. LastStep \in Nat /\ LastStep >= 3 /\ MaxDepth \in Nat /\ LastStep = MaxDepth + 2
  BY LastStepFacts DEF LastStep
<1>1. w[n] = WalkAt(tree, group, n, w[n + 1])
  BY DEF IsWalk
<1>2. CASE n > MaxDepth + 1 \/ (n > 1 /\ h = group) \/ Children(tree, h) = {}
  <2>1. WalkAt(tree, group, n, w[n + 1])[h] = 1
    BY <1>2 DEF WalkAt
  <2> QED
    BY <1>1, <2>1
<1>3. CASE ~(n > MaxDepth + 1 \/ (n > 1 /\ h = group) \/ Children(tree, h) = {})
  <2>1. n + 1 \in 1..LastStep /\ n # LastStep /\ Children(tree, h) # {}
    BY <1>0, <1>3
  <2>2. w[n + 1] \in [DOMAIN tree -> Nat]
    BY <2>1 DEF IsWalk
  <2>3. PICK c \in Children(tree, h) : w[n + 1][c] = Tallest(tree, h, w[n + 1])
    BY <2>1, <2>2, TallestFacts
  <2>4. WalkAt(tree, group, n, w[n + 1])[h] = 1 + Tallest(tree, h, w[n + 1])
    BY <1>3 DEF WalkAt
  <2>5. w[n][h] = 1 + w[n + 1][c]
    BY <1>1, <2>3, <2>4
  <2> QED
    BY <2>1, <2>5
<1> QED
  BY <1>2, <1>3

\* A move that leaves the forest shallow is allowed.
LEMMA ShallowMovesAreAllowed ==
    ASSUME NEW tree, IsHierarchy(tree), IsFiniteSet(DOMAIN tree), IsShallowForest(tree),
           NEW g \in DOMAIN tree, NEW p \in DOMAIN tree \cup {None},
           IsShallowForest([tree EXCEPT ![g] = p])
    PROVE  canReparentGroup(tree, g, p)
<1> DEFINE new == [tree EXCEPT ![g] = p]
           D == collectDescendantGroupIds(tree, {g})
           a == IF p = None THEN 0 ELSE groupDepthOf(tree, p)
           s == subtreeHeightOf(tree, g)
<1>0. DOMAIN new = DOMAIN tree /\ new[g] = p /\ \A h \in DOMAIN tree \ {g} : new[h] = tree[h]
  OBVIOUS
<1>1. IsShallowForest(new)
  OBVIOUS
<1>2. /\ D \subseteq DOMAIN tree /\ g \in D /\ IsClosed(D, tree)
      /\ \A S : g \in S /\ IsClosed(S, tree) => D \subseteq S
  BY Descendants
<1>2a. canReparentGroup(tree, g, p) <=> p \notin D /\ a # Infinity /\ a + s <= MaxDepth
  BY DEF canReparentGroup
<1> HIDE DEF D, new, s
<1>3. PICK u : IsFromTop(u, tree) /\ (IsShallowForest(tree) <=> DOMAIN tree \subseteq u[MaxDepth])
  BY FromTop
<1>4. PICK v : IsFromTop(v, new) /\ (IsShallowForest(new) <=> DOMAIN new \subseteq v[MaxDepth])
  BY FromTop
<1>5. PICK w : IsWalk(w, tree, g) /\ s = w[1][g]
  BY Walks DEF s
<1>6. /\ LastStep = MaxDepth + 2 /\ MaxDepth \in Nat /\ MaxDepth >= 1 /\ LastStep \in Nat
      /\ Infinity = MaxDepth + 3
  BY LastStepFacts, MaxDepthAssumption DEF LastStep, Infinity
<1>7. None \notin D
  BY <1>2 DEF IsHierarchy
\* Only the group itself is below somebody who does not go along.
<1>8. \A h \in D \ {g} : tree[h] \in D
  <2> DEFINE S == {x \in D : x = g \/ tree[x] \in D}
  <2>1. g \in S /\ IsClosed(S, tree)
    BY <1>2 DEF IsClosed
  <2> HIDE DEF S
  <2>2. D \subseteq S
    BY <1>2, <2>1
  <2> QED
    BY <2>2 DEF S
<1>9. tree[g] \notin D
  <2> SUFFICES ASSUME tree[g] \in D PROVE FALSE
    OBVIOUS
  <2>1. \A h \in D : tree[h] \in D
    BY <1>8
  <2>2. u[MaxDepth] \cap D = {}
    BY <1>2, <1>3, <1>6, <1>7, <2>1, Unreached
  <2> QED
    BY <1>2, <1>3, <2>2
<1>10. p \notin D
  <2> SUFFICES ASSUME p \in D PROVE FALSE
    OBVIOUS
  <2>1. \A h \in D : new[h] \in D
    BY <1>0, <1>2, <1>8
  <2>2. v[MaxDepth] \cap D = {}
    BY <1>0, <1>2, <1>4, <1>6, <1>7, <2>1, Unreached
  <2> QED
    BY <1>0, <1>1, <1>2, <1>4, <2>2
\* Who does not go along was where it is.
<1>11. \A n \in Nat : v[n] \cap (DOMAIN tree \ D) \subseteq u[n]
  <2> DEFINE K == DOMAIN tree \ D
  <2>1. KeepsPlaces(K, new, tree)
    BY <1>0, <1>2 DEF IsClosed, IsHierarchy, KeepsPlaces
  <2> HIDE DEF K
  <2>2. \A n \in Nat : v[n] \cap K \subseteq u[n]
    BY <1>3, <1>4, <2>1, Carries
  <2> QED
    BY <2>2 DEF K
\* The new parent is not found in less than a steps.
<1>12. a \in Nat /\ a <= MaxDepth /\ \A k \in Nat : p \in v[k] => k >= a
  <2>1. CASE p = None
    BY <1>6, <2>1
  <2>2. CASE p # None
    <3>1. p \in DOMAIN tree /\ a = groupDepthOf(tree, p)
      BY <2>2
    <3>2. p \in u[MaxDepth]
      BY <1>3, <3>1
    <3>3. \A k \in Nat : k <= MaxDepth /\ p \in u[k] => groupDepthOf(tree, p) <= k
      BY <1>3, <3>1, DepthIsLeast
    <3> HIDE DEF a
    <3>4. a <= MaxDepth
      BY <1>6, <3>1, <3>2, <3>3
    <3>5. a \in Int
      <4>1. a # Infinity => a \in 1..LastStep
        BY <1>3, <3>1, DepthFromTop
      <4> QED
        BY <1>6, <4>1
    <3>6. a # Infinity
      BY <1>6, <3>4
    <3>7. a \in 1..LastStep
      BY <1>3, <3>1, <3>6, DepthFromTop
    <3>8. ASSUME NEW k \in Nat, p \in v[k] PROVE k >= a
      <4>1. p \in u[k]
        BY <1>10, <1>11, <3>1, <3>8
      <4>2. CASE k <= MaxDepth
        BY <3>1, <3>3, <3>7, <4>1, <4>2
      <4>3. CASE k > MaxDepth
        BY <1>6, <3>4, <3>7, <4>3
      <4> QED
        BY <1>6, <4>2, <4>3
    <3> QED
      BY <1>6, <3>4, <3>7, <3>8
  <2> QED
    BY <2>1, <2>2
<1> HIDE DEF a
\* Who goes along is not found in less steps than the walk counts.
<1> DEFINE Deep(h, m) == \A k \in Nat : h \in v[k] => k >= m
<1>13. ASSUME NEW c \in DOMAIN tree, NEW m \in Nat, Deep(new[c], m) PROVE Deep(c, m + 1)
  <2> SUFFICES ASSUME NEW k \in Nat, c \in v[k] PROVE k >= m + 1
    OBVIOUS
  <2>1. c # None
    BY DEF IsHierarchy
  <2>2. k # 0
    BY <1>4, <2>1 DEF IsFromTop
  <2>3. k - 1 \in Nat /\ (k - 1) + 1 = k
    BY <2>2
  <2>4. v[(k - 1) + 1] = {None} \cup {h \in DOMAIN new : new[h] \in v[k - 1]}
    BY <1>4, <2>3 DEF IsFromTop
  <2>5. new[c] \in v[k - 1]
    BY <2>1, <2>3, <2>4
  <2>6. k - 1 >= m
    BY <1>13, <2>3, <2>5
  <2> QED
    BY <2>6
<1>14. Deep(g, a + 1)
  BY <1>0, <1>12, <1>13
<1>15. ASSUME NEW h \in D, NEW m \in Nat, Deep(h, m), NEW c \in Children(tree, h)
       PROVE  c \in D /\ Deep(c, m + 1)
  <2>1. c \in DOMAIN tree /\ tree[c] = h
    BY DEF Children
  <2>2. c \in D /\ c # g
    BY <1>2, <1>9, <2>1 DEF IsClosed
  <2>3. new[c] = h
    BY <1>0, <2>1, <2>2
  <2> QED
    BY <1>13, <1>15, <2>1, <2>2, <2>3
<1> HIDE DEF Deep
<1> DEFINE Reaches(n, h) == \A m \in Nat : Deep(h, m) => \E x \in D : Deep(x, m + w[n][h] - 1)
           Good == {k \in Nat : k < LastStep => \A h \in D : Reaches(LastStep - k, h)}
<1>16. ASSUME NEW h \in D, NEW n \in 1..LastStep, w[n][h] = 1 PROVE Reaches(n, h)
  <2> SUFFICES ASSUME NEW m \in Nat, Deep(h, m) PROVE \E x \in D : Deep(x, m + w[n][h] - 1)
    OBVIOUS
  <2>1. m + w[n][h] - 1 = m
    BY <1>16
  <2> QED
    BY <2>1
<1>17. 0 \in Good
  <2>1. LastStep \in 1..LastStep /\ LastStep - 0 = LastStep
    BY <1>6
  <2>2. \A h \in D : w[LastStep][h] = 1
    BY <1>2, <1>5, <2>1, HeightsAreReached
  <2>3. \A h \in D : Reaches(LastStep, h)
    BY <1>16, <2>1, <2>2
  <2> HIDE DEF Reaches
  <2> QED
    BY <2>1, <2>3
<1>18. ASSUME NEW k \in Nat, k \in Good PROVE k + 1 \in Good
  <2> SUFFICES ASSUME k + 1 < LastStep, NEW h \in D PROVE Reaches(LastStep - (k + 1), h)
    OBVIOUS
  <2> DEFINE n == LastStep - (k + 1)
  <2>1. n \in 1..LastStep /\ n + 1 = LastStep - k /\ k < LastStep /\ n + 1 \in 1..LastStep
    BY <1>6
  <2> HIDE DEF n
  <2>2. CASE w[n][h] = 1
    BY <1>16, <2>1, <2>2 DEF n
  <2>3. CASE w[n][h] # 1
    <3>1. PICK c \in Children(tree, h) : w[n][h] = 1 + w[n + 1][c]
      BY <1>2, <1>5, <2>1, <2>3, HeightsAreReached
    <3>2. c \in D
      BY <1>2 DEF Children, IsClosed
    <3>3. Reaches(n + 1, c)
      BY <1>18, <2>1, <3>2
    <3>4. ASSUME NEW m \in Nat, Deep(h, m) PROVE \E x \in D : Deep(x, m + w[n][h] - 1)
      <4>1. Deep(c, m + 1)
        BY <1>15, <3>4
      <4>2. PICK x \in D : Deep(x, (m + 1) + w[n + 1][c] - 1)
        BY <3>3, <4>1
      <4>3. w[n + 1][c] \in Nat
        BY <1>2, <1>5, <2>1, <3>2 DEF IsWalk
      <4>4. (m + 1) + w[n + 1][c] - 1 = m + w[n][h] - 1
        BY <3>1, <4>3
      <4> QED
        BY <4>2, <4>4
    <3> QED
      BY <3>4 DEF n
  <2> QED
    BY <2>2, <2>3
<1> HIDE DEF Good
<1>19. Nat \subseteq Good
  BY <1>17, <1>18, AllNumbers
<1>20. Reaches(1, g)
  <2>1. LastStep - 1 \in Nat /\ LastStep - 1 < LastStep /\ LastStep - (LastStep - 1) = 1
    BY <1>6
  <2> HIDE DEF Reaches
  <2> QED
    BY <1>2, <1>19, <2>1 DEF Good
<1>21. PICK x \in D : Deep(x, (a + 1) + s - 1)
  BY <1>5, <1>12, <1>14, <1>20
<1>22. x \in v[MaxDepth] /\ s \in Nat
  <2>1. x \in v[MaxDepth]
    BY <1>0, <1>1, <1>2, <1>4
  <2>2. 1 \in 1..LastStep
    BY <1>6
  <2> QED
    BY <1>5, <2>1, <2>2 DEF IsWalk
<1>23. MaxDepth >= (a + 1) + s - 1
  BY <1>6, <1>21, <1>22 DEF Deep
<1>24. a # Infinity /\ a + s <= MaxDepth
  BY <1>6, <1>12, <1>22, <1>23
<1> QED
  BY <1>2a, <1>10, <1>24 DEF a

(***************************************************************************)
(* canReparentGroup (user-groups.ts 135-161) allows exactly the moves that *)
(* leave trees of at most MaxDepth levels: every tree of groups, and any   *)
(* depth.                                                                  *)
(***************************************************************************)
THEOREM ReparentingIsExact ==
    \A tree : IsHierarchy(tree) /\ IsFiniteSet(DOMAIN tree) => ReparentIsExact(tree)
<1> SUFFICES ASSUME NEW tree, IsHierarchy(tree), IsFiniteSet(DOMAIN tree), IsShallowForest(tree),
                    NEW g \in DOMAIN tree, NEW p \in DOMAIN tree \cup {None}
             PROVE  canReparentGroup(tree, g, p) <=> IsShallowForest([tree EXCEPT ![g] = p])
  BY DEF ReparentIsExact
<1>1. canReparentGroup(tree, g, p) => IsShallowForest([tree EXCEPT ![g] = p])
  BY MovesStayShallow
<1>2. IsShallowForest([tree EXCEPT ![g] = p]) => canReparentGroup(tree, g, p)
  BY ShallowMovesAreAllowed
<1> QED
  BY <1>1, <1>2

-------------------------------------------------------------------------------
(* Groups                                                                  *)

(***************************************************************************)
(* What a request knows of the tables as long as nobody has written to     *)
(* them since: where those who are to be added are now; that the name is   *)
(* free in the place (or stays what it was), and what an update writes;    *)
(* that what has been counted is not there; that there is room for the     *)
(* group, with what it takes along, where it is to go.                     *)
(***************************************************************************)
KnowsWhoLeaves(a) ==
    a.op = "add" /\ a.step = "write" => \A m \in member : m[2] \in a.users => m \in a.leaving

KnowsTheRow(a) ==
    a.op = "update" /\ a.step \in {"name", "write"} =>
       /\ "parent" \in a.sends \/ a.parent = parent[a.group]
       /\ "name" \in a.sends \/ a.name = name[a.group]

KnowsTheName(a) ==
    a.op \in {"create", "update"} /\ a.step = "write" =>
       \/ NameIsFree(a.group, a.parent, a.name)
       \/ /\ a.op = "update"
          /\ a.parent = parent[a.group] /\ a.name = name[a.group]

KnowsItsContents(a) ==
    a.op = "remove" =>
       /\ "members" \in a.counted => \A u \in GroupUsers : <<a.group, u>> \notin member
       /\ "children" \in a.counted => Children(parent, a.group) = {}

KnowsThePlace(a) ==
    a.step \in {"name", "write"} =>
       /\ a.op = "create" => a.group \notin Existing /\ MayPutUnder(a.parent)
       /\ a.op = "update" => MayMove(a.group, a.parent)

Knows(a) ==
    /\ KnowsWhoLeaves(a)
    /\ KnowsTheRow(a)
    /\ KnowsTheName(a)
    /\ KnowsItsContents(a)
    /\ KnowsThePlace(a)

(***************************************************************************)
(* A request that is going to write has what it writes.                    *)
(***************************************************************************)
GoodAsk ==
    {a \in Ask :
        /\ a.step = "write" => a.op # "none"
        /\ a.step = "name" => a.op \in {"create", "update"}
        /\ a.step = "assign" => a.op = "add"
        /\ a.step = "form" => a.op = "update"
        /\ a.step = "count" => a.op = "remove"
        /\ a.step # "idle" => a.group \in Groups
        /\ a.op \in {"create", "update"} /\ a.step \in {"name", "write"} => a.name \in Names
        /\ a.op = "remove" /\ a.step = "write" => a.counted = {"members", "children"}
        /\ a.op = "remove" /\ a.step = "count" => "members" \notin a.counted \/ "children" \notin a.counted}

TablesOK ==
    /\ Existing \subseteq Groups /\ IsFiniteSet(Existing)
    /\ parent \in [Existing -> Existing \cup {None}]
    /\ name \in [Existing -> Names]
    /\ member \subseteq Existing \X GroupUsers

GroupsInv ==
    /\ TablesOK
    /\ ask \in [GroupRequests -> GoodAsk]
    /\ \A q \in GroupRequests : ask[q].fresh => Knows(ask[q])

LEMMA NoAskIsGood == NoAsk \in GoodAsk /\ Knows(NoAsk)
  <1>1. NoAsk \in Ask
    BY DEF NoAsk, Ask, Ops, AskSteps
  <1>2. NoAsk.step = "idle" /\ NoAsk.op = "none"
    BY DEF NoAsk
  <1> QED
    BY <1>1, <1>2 DEF GoodAsk, Knows, KnowsWhoLeaves, KnowsTheRow, KnowsTheName, KnowsItsContents, KnowsThePlace

(***************************************************************************)
(* A step that only changes what a request knows keeps the invariant if    *)
(* what it knows then is right.                                            *)
(***************************************************************************)
LEMMA ReadingKeepsInv ==
    ASSUME GroupsInv, Unwritten, NEW r \in GroupRequests, NEW a \in GoodAsk,
           a.fresh => Knows(a), ask' = [ask EXCEPT ![r] = a]
    PROVE  GroupsInv'
  <1>1. TablesOK'
    BY DEF GroupsInv, TablesOK, Unwritten, Existing
  <1>2. ask' \in [GroupRequests -> GoodAsk]
    BY DEF GroupsInv
  <1>3. \A q \in GroupRequests : ask'[q] = IF q = r THEN a ELSE ask[q]
    BY DEF GroupsInv
  <1>4. \A q \in GroupRequests : ask'[q].fresh => Knows(ask'[q])
    BY <1>3 DEF GroupsInv
  <1>5. \A q \in GroupRequests : ask'[q].fresh => Knows(ask[q])'
    BY <1>4 DEF Knows, KnowsWhoLeaves, KnowsTheRow, KnowsTheName, KnowsItsContents, KnowsThePlace,
                NameIsFree, MayPutUnder, MayMove, Unwritten, Existing
  <1> QED
    BY <1>1, <1>2, <1>5 DEF GroupsInv

(***************************************************************************)
(* A write ends its request and makes the reads of all others old.         *)
(***************************************************************************)
LEMMA WritingKeepsInv ==
    ASSUME GroupsInv, NEW r \in GroupRequests, NEW gs, Commit(r, gs), TablesOK'
    PROVE  GroupsInv'
  <1>1. ASSUME NEW q \in GroupRequests
        PROVE  \/ ask'[q] = NoAsk
               \/ ask'[q] \in GoodAsk /\ ask'[q].fresh = FALSE
    <2> DEFINE a == [ask[q] EXCEPT !.fresh = FALSE, !.same = @ /\ ask[q].group \notin gs]
    <2>1. ask'[q] = NoAsk \/ ask'[q] = a
      BY DEF Commit
    <2>2. ask[q] \in Ask /\ ask[q] \in GoodAsk
      BY DEF GroupsInv, GoodAsk
    <2>3. a \in Ask /\ a.fresh = FALSE
      BY <2>2 DEF Ask
    <2>4. /\ a.step = ask[q].step /\ a.op = ask[q].op /\ a.group = ask[q].group
          /\ a.name = ask[q].name /\ a.counted = ask[q].counted
      BY <2>2 DEF Ask
    <2> HIDE DEF a
    <2> QED
      BY <2>1, <2>2, <2>3, <2>4 DEF GoodAsk
  <1>2. ask' \in [GroupRequests -> GoodAsk]
    BY <1>1, NoAskIsGood DEF Commit
  <1>3. ASSUME NEW q \in GroupRequests, ask'[q].fresh
        PROVE  Knows(ask[q])'
    <2>1. ask'[q] = NoAsk
      BY <1>1, <1>3
    <2>2. ask'[q].step = "idle" /\ ask'[q].op = "none"
      BY <2>1 DEF NoAsk
    <2> QED
      BY <2>2 DEF Knows, KnowsWhoLeaves, KnowsTheRow, KnowsTheName, KnowsItsContents, KnowsThePlace
  <1> QED
    BY <1>2, <1>3 DEF GroupsInv

LEMMA AskParts ==
    ASSUME GroupsInv, NEW r \in GroupRequests
    PROVE  /\ ask[r] \in GoodAsk /\ ask[r] \in Ask
           /\ ask[r].fresh => Knows(ask[r])
  BY DEF GroupsInv, GoodAsk

LEMMA BeginKeepsInv ==
    ASSUME GroupsInv, NEW r \in GroupRequests, NEW a \in GoodAsk, Begin(r, a), Unwritten,
           Knows(a)
    PROVE  GroupsInv'
  BY ReadingKeepsInv DEF Begin

LEMMA EditKeepsInv ==
    ASSUME GroupsInv, NEW r \in GroupRequests, Edit(r)
    PROVE  GroupsInv'
  <1> DEFINE old == ask[r]
  <1>0. old \in GoodAsk /\ old \in Ask /\ (old.fresh => Knows(old))
    BY AskParts
  <1>00. TablesOK
    BY DEF GroupsInv
  <1>1. CASE Create(r)
    <2>1. PICK g \in Groups, p \in Groups \cup {None}, n \in Names :
             /\ IsUnused(g) /\ MayPutUnder(p)
             /\ Begin(r, [NoAsk EXCEPT !.step = "name", !.op = "create",
                                      !.group = g, !.parent = p, !.name = n])
      BY <1>1 DEF Create
    <2> DEFINE a == [NoAsk EXCEPT !.step = "name", !.op = "create",
                                   !.group = g, !.parent = p, !.name = n]
    <2>2. /\ a \in Ask /\ a.step = "name" /\ a.op = "create" /\ a.group = g /\ a.parent = p
          /\ a.name = n /\ g \notin Existing
      BY <2>1 DEF NoAsk, Ask, Ops, AskSteps, IsUnused
    <2>3. Begin(r, a)
      BY <2>1
    <2> HIDE DEF a
    <2>4. a \in GoodAsk /\ Knows(a)
      BY <2>1, <2>2 DEF GoodAsk, Knows, KnowsWhoLeaves, KnowsTheRow, KnowsTheName, KnowsItsContents, KnowsThePlace
    <2> QED
      BY <2>3, <2>4, <1>1, BeginKeepsInv DEF Create
  <1>2. CASE OpenForm(r)
    <2>1. PICK g \in Existing :
             Begin(r, [NoAsk EXCEPT !.step = "form", !.op = "update", !.group = g])
      BY <1>2 DEF OpenForm
    <2> DEFINE a == [NoAsk EXCEPT !.step = "form", !.op = "update", !.group = g]
    <2>2. a \in Ask /\ a.step = "form" /\ a.op = "update" /\ a.group = g /\ g \in Groups
      BY <1>00 DEF NoAsk, Ask, Ops, AskSteps, TablesOK
    <2>3. Begin(r, a)
      BY <2>1
    <2> HIDE DEF a
    <2>4. a \in GoodAsk /\ Knows(a)
      BY <2>2 DEF GoodAsk, Knows, KnowsWhoLeaves, KnowsTheRow, KnowsTheName, KnowsItsContents, KnowsThePlace
    <2> QED
      BY <2>3, <2>4, <1>2, BeginKeepsInv DEF OpenForm
  <1>3. CASE Update(r)
    <2> DEFINE g == old.group
    <2>1. PICK p \in Groups \cup {None}, n \in Names, sends \in SUBSET {"parent", "name"} :
              /\ "parent" \notin sends => p = parent[g]
              /\ "name" \notin sends => n = name[g]
              /\ MayMove(g, p)
              /\ ask' = [ask EXCEPT ![r] =
                            [@ EXCEPT !.step = IF p # parent[g] \/ n # name[g] THEN "name" ELSE "write",
                                      !.parent = p, !.name = n, !.sends = sends, !.fresh = TRUE]]
      BY <1>3 DEF Update
    <2> DEFINE a == [old EXCEPT !.step = IF p # parent[g] \/ n # name[g] THEN "name" ELSE "write",
                                !.parent = p, !.name = n, !.sends = sends, !.fresh = TRUE]
    <2>2. old.step = "form"
      BY <1>3 DEF Update
    <2>3. old.op = "update" /\ g \in Groups
      BY <2>2, <1>0 DEF GoodAsk
    <2>4. ask' = [ask EXCEPT ![r] = a]
      BY <2>1 DEF GroupsInv
    <2>5. /\ a.step = IF p # parent[g] \/ n # name[g] THEN "name" ELSE "write"
          /\ a.op = "update" /\ a.group = g /\ a.parent = p /\ a.name = n /\ a.sends = sends
      BY <1>0, <2>3 DEF Ask
    <2>6. a \in Ask
      <3> DEFINE step == IF p # parent[g] \/ n # name[g] THEN "name" ELSE "write"
      <3>1. step \in AskSteps
        BY DEF AskSteps
      <3>2. p \in Groups \cup {None} /\ n \in Names \cup {None} /\ sends \in SUBSET {"parent", "name"}
        OBVIOUS
      <3>3. a = [old EXCEPT !.step = step, !.parent = p, !.name = n, !.sends = sends, !.fresh = TRUE]
        OBVIOUS
      <3> HIDE DEF step, a, g
      <3> QED
        BY <1>0, <3>1, <3>2, <3>3 DEF Ask
    <2> HIDE DEF a
    <2>7. a \in GoodAsk
      BY <2>5, <2>6, <2>3 DEF GoodAsk
    <2>8. Knows(a)
      <3>1. KnowsTheRow(a)
        BY <2>5, <2>1 DEF KnowsTheRow
      <3>2. KnowsTheName(a)
        BY <2>5 DEF KnowsTheName
      <3>3. KnowsThePlace(a)
        BY <2>1, <2>5 DEF KnowsThePlace
      <3> QED
        BY <3>1, <3>2, <3>3, <2>5 DEF Knows, KnowsWhoLeaves, KnowsItsContents
    <2> QED
      BY <2>4, <2>7, <2>8, <1>3, ReadingKeepsInv DEF Update
  <1>4. CASE AssertNameFree(r)
    <2> DEFINE a == [old EXCEPT !.step = "write"]
    <2>1. old.step = "name" /\ NameIsFree(old.group, old.parent, old.name)
      BY <1>4 DEF AssertNameFree
    <2>2. old.op \in {"create", "update"}
      BY <2>1, <1>0 DEF GoodAsk
    <2>3. ask' = [ask EXCEPT ![r] = a]
      BY <1>4 DEF AssertNameFree, Proceed
    <2>4. /\ a.step = "write" /\ a.op = old.op /\ a.group = old.group /\ a.parent = old.parent
          /\ a.name = old.name /\ a.sends = old.sends /\ a.fresh = old.fresh
      BY <1>0 DEF Ask
    <2>5. a \in Ask
      BY <1>0 DEF Ask, AskSteps
    <2> HIDE DEF a
    <2>6. a \in GoodAsk
      BY <2>1, <2>2, <2>4, <2>5, <1>0 DEF GoodAsk
    <2>7. a.fresh => Knows(a)
      <3> SUFFICES ASSUME a.fresh PROVE Knows(a)
        OBVIOUS
      <3>1. KnowsTheRow(old)
        BY <2>4, <1>0 DEF Knows
      <3>2. KnowsTheRow(a)
        BY <3>1, <2>4, <2>1 DEF KnowsTheRow
      <3>3. KnowsTheName(a)
        BY <2>1, <2>4 DEF KnowsTheName
      <3>4. KnowsThePlace(a)
        BY <2>1, <2>4, <1>0 DEF Knows, KnowsThePlace
      <3> QED
        BY <3>2, <3>3, <3>4, <2>2, <2>4 DEF Knows, KnowsWhoLeaves, KnowsItsContents
    <2> QED
      BY <2>3, <2>6, <2>7, <1>4, ReadingKeepsInv DEF AssertNameFree
  <1>5. ASSUME NEW g \in Groups, NEW p, NEW n \in Names, Put(r, g, p, n)
        PROVE  GroupsInv'
    <2>1. Existing' = Existing \cup {g}
      BY <1>5 DEF Put, Existing
    <2>2. IsFiniteSet(Existing')
      BY <1>00, <2>1, FS_AddElement DEF TablesOK
    <2>3. TablesOK'
      BY <1>00, <1>5, <2>2 DEF TablesOK, Put, MayWrite, Existing
    <2> QED
      BY <2>3, <1>5, WritingKeepsInv DEF Put
  <1>6. CASE Insert(r)
    <2>1. old.group \in Groups /\ old.name \in Names
      BY <1>6, <1>0 DEF Insert, GoodAsk
    <2> QED
      BY <2>1, <1>5, <1>6 DEF Insert
  <1>7. CASE Save(r)
    <2>1. old.group \in Groups /\ old.name \in Names /\ name[old.group] \in Names
      BY <1>7, <1>0, <1>00 DEF Save, GoodAsk, TablesOK
    <2> QED
      BY <2>1, <1>5, <1>7 DEF Save
  <1> QED
    BY <1>1, <1>2, <1>3, <1>4, <1>6, <1>7 DEF Edit

LEMMA EraseKeepsInv ==
    ASSUME GroupsInv, NEW r \in GroupRequests, Erase(r)
    PROVE  GroupsInv'
  <1> DEFINE old == ask[r]
  <1>0. old \in GoodAsk /\ old \in Ask /\ (old.fresh => Knows(old))
    BY AskParts
  <1>00. TablesOK
    BY DEF GroupsInv
  <1>1. CASE Remove(r)
    <2>1. PICK g \in Existing :
             Begin(r, [NoAsk EXCEPT !.step = "count", !.op = "remove", !.group = g])
      BY <1>1 DEF Remove
    <2> DEFINE a == [NoAsk EXCEPT !.step = "count", !.op = "remove", !.group = g]
    <2>2. /\ a \in Ask /\ a.step = "count" /\ a.op = "remove" /\ a.group = g /\ g \in Groups
          /\ a.counted = {}
      BY <1>00 DEF NoAsk, Ask, Ops, AskSteps, TablesOK
    <2>3. Begin(r, a)
      BY <2>1
    <2> HIDE DEF a
    <2>4. a \in GoodAsk /\ Knows(a)
      BY <2>2 DEF GoodAsk, Knows, KnowsWhoLeaves, KnowsTheRow, KnowsTheName, KnowsItsContents, KnowsThePlace
    <2> QED
      BY <2>3, <2>4, <1>1, BeginKeepsInv DEF Remove
  <1>2. CASE CountContents(r)
    <2>1. PICK what \in {"members", "children"} \ old.counted :
              /\ IsWithout(old.group, what)
              /\ ask' = [ask EXCEPT ![r].counted = @ \cup {what},
                                ![r].step = IF old.counted = {} THEN "count" ELSE "write"]
      BY <1>2 DEF CountContents
    <2> DEFINE a == [old EXCEPT !.counted = @ \cup {what},
                                !.step = IF old.counted = {} THEN "count" ELSE "write"]
    <2>2. old.step = "count"
      BY <1>2 DEF CountContents
    <2>3. old.op = "remove" /\ old.group \in Groups
      BY <2>2, <1>0 DEF GoodAsk
    <2>4. ask' = [ask EXCEPT ![r] = a]
      BY <2>1, <1>0 DEF GroupsInv, Ask
    <2>5. /\ a.step = IF old.counted = {} THEN "count" ELSE "write"
          /\ a.op = "remove" /\ a.group = old.group /\ a.fresh = old.fresh
          /\ a.counted = old.counted \cup {what}
      BY <1>0, <2>3 DEF Ask
    <2>6. a \in Ask
      BY <1>0, <2>1 DEF Ask, AskSteps
    <2>6a. old.counted \subseteq {"members", "children"}
      BY <1>0 DEF Ask
    <2> HIDE DEF a
    <2>7. a \in GoodAsk
      BY <2>1, <2>3, <2>5, <2>6, <2>6a DEF GoodAsk
    <2>8. a.fresh => Knows(a)
      BY <1>0, <2>1, <2>3, <2>5 DEF Knows, KnowsWhoLeaves, KnowsTheRow, KnowsTheName,
                                    KnowsItsContents, KnowsThePlace, IsWithout
    <2> QED
      BY <2>4, <2>7, <2>8, <1>2, ReadingKeepsInv DEF CountContents
  <1>3. CASE Delete(r)
    <2>1. TablesOK'
      <3> DEFINE g == old.group
      <3>1. /\ parent' = [h \in Existing \ {g} |-> IF parent[h] = g THEN None ELSE parent[h]]
            /\ name'   = [h \in Existing \ {g} |-> name[h]]
            /\ member' = {m \in member : m[1] # g}
        BY <1>3 DEF Delete
      <3>2. Existing' = Existing \ {g}
        BY <3>1 DEF Existing
      <3>3. parent' \in [Existing' -> Existing' \cup {None}]
        BY <3>1, <3>2, <1>00 DEF TablesOK
      <3>4. name' \in [Existing' -> Names]
        BY <3>1, <3>2, <1>00 DEF TablesOK
      <3>5. member' \subseteq Existing' \X GroupUsers
        BY <3>1, <3>2, <1>00 DEF TablesOK
      <3>6. IsFiniteSet(Existing')
        BY <3>2, <1>00, FS_RemoveElement DEF TablesOK
      <3> QED
        BY <3>2, <3>3, <3>4, <3>5, <3>6, <1>00 DEF TablesOK
    <2> QED
      BY <2>1, <1>3, WritingKeepsInv DEF Delete
  <1> QED
    BY <1>1, <1>2, <1>3 DEF Erase

LEMMA PeopleKeepInv ==
    ASSUME GroupsInv, NEW r \in GroupRequests, People(r)
    PROVE  GroupsInv'
  <1> DEFINE old == ask[r]
  <1>0. old \in GoodAsk /\ old \in Ask /\ (old.fresh => Knows(old))
    BY AskParts
  <1>00. TablesOK
    BY DEF GroupsInv
  <1>1. CASE AssertGroupExists(r)
    <2>1. PICK g \in Existing : Begin(r, [NoAsk EXCEPT !.step = "target", !.group = g])
      BY <1>1 DEF AssertGroupExists
    <2> DEFINE a == [NoAsk EXCEPT !.step = "target", !.group = g]
    <2>2. a \in Ask /\ a.step = "target" /\ a.op = "none" /\ a.group = g /\ g \in Groups
      BY <1>00 DEF NoAsk, Ask, Ops, AskSteps, TablesOK
    <2>3. Begin(r, a)
      BY <2>1
    <2> HIDE DEF a
    <2>4. a \in GoodAsk /\ Knows(a)
      BY <2>2 DEF GoodAsk, Knows, KnowsWhoLeaves, KnowsTheRow, KnowsTheName, KnowsItsContents, KnowsThePlace
    <2> QED
      BY <2>3, <2>4, <1>1, BeginKeepsInv DEF AssertGroupExists
  <1>2. CASE AddMembers(r)
    <2>1. PICK us \in (SUBSET GroupUsers) \ {{}} :
             ask' = [ask EXCEPT ![r].step = "assign", ![r].op = "add", ![r].users = us]
      BY <1>2 DEF AddMembers
    <2> DEFINE a == [old EXCEPT !.step = "assign", !.op = "add", !.users = us]
    <2>2. ask' = [ask EXCEPT ![r] = a]
      BY <2>1, <1>0 DEF GroupsInv, Ask
    <2>3. a \in Ask /\ a.step = "assign" /\ a.op = "add" /\ a.group = old.group
      BY <1>0 DEF Ask, Ops, AskSteps
    <2> HIDE DEF a
    <2>4. a.group \in Groups
      BY <2>3, <1>0, <1>2 DEF GoodAsk, AddMembers
    <2>5. a \in GoodAsk /\ Knows(a)
      BY <2>3, <2>4 DEF GoodAsk, Knows, KnowsWhoLeaves, KnowsTheRow, KnowsTheName, KnowsItsContents, KnowsThePlace
    <2> QED
      BY <2>2, <2>5, <1>2, ReadingKeepsInv DEF AddMembers
  <1>3. CASE ReadMemberships(r)
    <2> DEFINE stay == {u \in old.users : <<old.group, u>> \notin member}
               a == [old EXCEPT !.step = "write", !.leaving = Elsewhere(r), !.users = stay]
    <2>1. old.step = "assign"
      BY <1>3 DEF ReadMemberships
    <2>2. old.op = "add" /\ old.group \in Groups
      BY <2>1, <1>0 DEF GoodAsk
    <2>3. ask' = [ask EXCEPT ![r] = a]
      BY <1>3, <1>0 DEF ReadMemberships, ToLeave, GroupsInv, Ask
    <2>4. stay \in SUBSET GroupUsers
      BY <1>0 DEF Ask
    <2>5. Elsewhere(r) \in SUBSET (Groups \X GroupUsers)
      BY <1>00 DEF Elsewhere, TablesOK
    <2>6. a.step = "write" /\ a.op = "add" /\ a.users = stay /\ a.leaving = Elsewhere(r)
          /\ a.group = old.group
      BY <1>0, <2>2 DEF Ask
    <2>7. a \in Ask
      BY <1>0, <2>4, <2>5 DEF Ask, AskSteps
    <2> HIDE DEF a
    <2>8. a \in GoodAsk
      BY <2>2, <2>6, <2>7 DEF GoodAsk
    <2>9. ASSUME NEW m \in member, m[2] \in stay
          PROVE  m \in Elsewhere(r)
      <3>1. m = <<m[1], m[2]>>
        BY <1>00 DEF TablesOK
      <3>2. m[1] # old.group
        BY <3>1, <2>9
      <3> QED
        BY <3>2, <2>9 DEF Elsewhere
    <2>10. Knows(a)
      <3>1. KnowsWhoLeaves(a)
        BY <2>6, <2>9 DEF KnowsWhoLeaves
      <3> QED
        BY <3>1, <2>6 DEF Knows, KnowsTheRow, KnowsTheName, KnowsItsContents, KnowsThePlace
    <2> QED
      BY <2>3, <2>8, <2>10, <1>3, ReadingKeepsInv DEF ReadMemberships
  <1>4. CASE Assign(r)
    <2> DEFINE new == {old.group} \X old.users
    <2>1. /\ new # {} => old.group \in Existing
          /\ member' = (member \ old.leaving) \cup new
          /\ parent' = parent /\ name' = name
      BY <1>4 DEF Assign
    <2>2. old.users \subseteq GroupUsers
      BY <1>0 DEF Ask
    <2>3. new \subseteq Existing \X GroupUsers
      BY <2>1, <2>2
    <2> HIDE DEF new
    <2>4. TablesOK'
      BY <2>1, <2>3, <1>00 DEF TablesOK, Existing
    <2> QED
      BY <2>4, <1>4, WritingKeepsInv DEF Assign
  <1>5. CASE RemoveMember(r)
    <2>1. PICK u \in GroupUsers :
              ask' = [ask EXCEPT ![r].step = "write", ![r].op = "drop", ![r].users = {u}]
      BY <1>5 DEF RemoveMember
    <2> DEFINE a == [old EXCEPT !.step = "write", !.op = "drop", !.users = {u}]
    <2>2. ask' = [ask EXCEPT ![r] = a]
      BY <2>1, <1>0 DEF GroupsInv, Ask
    <2>3. a \in Ask /\ a.step = "write" /\ a.op = "drop" /\ a.group = old.group
      BY <1>0 DEF Ask, Ops, AskSteps
    <2> HIDE DEF a
    <2>4. a.group \in Groups
      BY <2>3, <1>0, <1>5 DEF GoodAsk, RemoveMember
    <2>5. a \in GoodAsk /\ Knows(a)
      BY <2>3, <2>4 DEF GoodAsk, Knows, KnowsWhoLeaves, KnowsTheRow, KnowsTheName, KnowsItsContents, KnowsThePlace
    <2> QED
      BY <2>2, <2>5, <1>5, ReadingKeepsInv DEF RemoveMember
  <1>6. CASE Drop(r)
    <2>1. TablesOK'
      BY <1>6, <1>00 DEF Drop, TablesOK, Existing
    <2> QED
      BY <2>1, <1>6, WritingKeepsInv DEF Drop
  <1> QED
    BY <1>1, <1>2, <1>3, <1>4, <1>5, <1>6 DEF People

LEMMA GroupsInvHolds == GroupsSpec => []GroupsInv
  <1>1. GroupsInit => GroupsInv
    <2> SUFFICES ASSUME GroupsInit PROVE GroupsInv
      OBVIOUS
    <2>1. TablesOK
      BY FS_EmptySet DEF GroupsInit, TablesOK, Existing
    <2>2. ask \in [GroupRequests -> GoodAsk]
      BY NoAskIsGood DEF GroupsInit
    <2>3. \A q \in GroupRequests : ask[q] = NoAsk
      BY DEF GroupsInit
    <2> QED
      BY <2>1, <2>2, <2>3, NoAskIsGood DEF GroupsInv
  <1>2. GroupsInv /\ [GroupsNext]_groupsVars => GroupsInv'
    <2> SUFFICES ASSUME GroupsInv, [GroupsNext]_groupsVars PROVE GroupsInv'
      OBVIOUS
    <2>1. ASSUME NEW r \in GroupRequests, Refuse(r) PROVE GroupsInv'
      BY <2>1, NoAskIsGood, ReadingKeepsInv DEF Refuse
    <2>2. CASE GroupsNext
      BY <2>1, <2>2, EditKeepsInv, EraseKeepsInv, PeopleKeepInv DEF GroupsNext
    <2>3. CASE UNCHANGED groupsVars
      BY <2>3 DEF groupsVars, GroupsInv, TablesOK, Existing, Knows, KnowsWhoLeaves,
                  KnowsTheRow, KnowsTheName, KnowsItsContents, KnowsThePlace, NameIsFree,
                  MayPutUnder, MayMove, Children
    <2> QED
      BY <2>2, <2>3
  <1> QED
    BY <1>1, <1>2, PTL DEF GroupsSpec

(***************************************************************************)
(* The tables of the groups are always well formed.                        *)
(***************************************************************************)
THEOREM GroupsTyped == GroupsSpec => []GroupsTypeOK
  <1>1. GroupsInv => GroupsTypeOK
    BY DEF GroupsInv, TablesOK, GroupsTypeOK, GoodAsk
  <1> QED
    BY <1>1, GroupsInvHolds, PTL

(***************************************************************************)
(* A request that writes and was not overtaken knows the tables.           *)
(***************************************************************************)
LEMMA WriterKnows ==
    ASSUME GroupsInv, NEW r \in GroupRequests, NEW gs, Commit(r, gs),
           ask[r].step = "write", ~StaleWrite
    PROVE  Knows(ask[r]) /\ ask[r] \in GoodAsk
  BY DEF Commit, StaleWrite, GroupsInv

(***************************************************************************)
(* A user who is in one group at most is in one group at most after a      *)
(* step in which nobody writes who was overtaken (addMembers,              *)
(* groups.service.ts 311-348).                                             *)
(***************************************************************************)
THEOREM OneGroupIsKept == GroupsSpec => OneGroupStays
  <1>1. ASSUME GroupsInv, GroupsNext, OneGroupEach, ~StaleWrite, member' # member
        PROVE  OneGroupEach'
    <2>1. PICK r \in GroupRequests : Edit(r) \/ Erase(r) \/ People(r) \/ Refuse(r)
      BY <1>1 DEF GroupsNext
    <2>2. CASE Assign(r)
      <3> DEFINE a == ask[r]
                 new == {a.group} \X a.users
      <3>1. KnowsWhoLeaves(a)
        BY <1>1, <2>2, WriterKnows DEF Assign, Knows
      <3>2. \A m \in member : m[2] \in a.users => m \in a.leaving
        BY <3>1, <2>2 DEF Assign, KnowsWhoLeaves
      <3>3. member' = (member \ a.leaving) \cup new
        BY <2>2 DEF Assign
      <3>4. \A m \in new : m[1] = a.group /\ m[2] \in a.users /\ m = <<m[1], m[2]>>
        OBVIOUS
      <3> HIDE DEF new
      <3>5. \A m \in member \ a.leaving : m \in member /\ m[2] \notin a.users
        BY <3>2
      <3>6. ASSUME NEW m \in member', NEW n \in member', m[2] = n[2]
            PROVE  m = n
        <4>1. CASE m \in new /\ n \in new
          BY <3>4, <3>6, <4>1
        <4>2. CASE m \in member \ a.leaving /\ n \in member \ a.leaving
          BY <1>1, <3>6, <4>2 DEF OneGroupEach
        <4>3. CASE m \in new /\ n \in member \ a.leaving
          BY <3>4, <3>5, <3>6, <4>3
        <4>4. CASE n \in new /\ m \in member \ a.leaving
          BY <3>4, <3>5, <3>6, <4>4
        <4> QED
          BY <3>3, <4>1, <4>2, <4>3, <4>4
      <3> QED
        BY <3>6 DEF OneGroupEach
    <2>3. CASE Delete(r) \/ Drop(r)
      <3>1. member' \subseteq member
        BY <2>3 DEF Delete, Drop
      <3> QED
        BY <1>1, <3>1 DEF OneGroupEach
    <2> QED
      BY <1>1, <2>1, <2>2, <2>3
      DEF Edit, Erase, People, Refuse, Unwritten, Create, OpenForm, Update, AssertNameFree,
          Insert, Save, Put, Remove, CountContents, AssertGroupExists, AddMembers,
          ReadMemberships, RemoveMember
  <1>2. GroupsInv /\ [GroupsNext]_groupsVars
           => [member' # member /\ OneGroupEach /\ ~OneGroupEach' => StaleWrite]_groupsVars
    BY <1>1
  <1> QED
    BY <1>2, GroupsInvHolds, PTL DEF GroupsSpec, OneGroupStays

(***************************************************************************)
(* A write whose names were found free leaves the names unique.            *)
(***************************************************************************)
LEMMA PutKeepsNames ==
    ASSUME TablesOK, NamesAreUnique, NEW r \in GroupRequests,
           NEW g \in Groups, NEW p, NEW n, Put(r, g, p, n),
           \/ NameIsFree(g, p, n)
           \/ g \in Existing /\ p = parent[g] /\ n = name[g]
    PROVE  NamesAreUnique'
  <1>1. /\ parent' = [h \in Existing \cup {g} |-> IF h = g THEN p ELSE parent[h]]
        /\ name'   = [h \in Existing \cup {g} |-> IF h = g THEN n ELSE name[h]]
    BY DEF Put
  <1>2. Existing' = Existing \cup {g}
    BY <1>1 DEF Existing
  <1>3. \A h \in Existing \ {g} : ~(parent[h] = p /\ name[h] = n)
    BY DEF NameIsFree, NamesAreUnique
  <1>4. \A h \in Existing' : /\ parent'[h] = IF h = g THEN p ELSE parent[h]
                             /\ name'[h] = IF h = g THEN n ELSE name[h]
    BY <1>1, <1>2
  <1> QED
    BY <1>2, <1>3, <1>4 DEF NamesAreUnique

LEMMA TablesHoldATree == ASSUME TablesOK PROVE IsHierarchy(parent) /\ IsFiniteSet(DOMAIN parent)
  BY GroupsAssumption DEF TablesOK, IsHierarchy, Existing

(***************************************************************************)
(* Unless a request was overtaken, the groups stay trees of at most        *)
(* MaxDepth levels, whatever is created below whom, moved with what it     *)
(* takes along (83-92, 139-151), or comes to the top when a group goes;    *)
(* names stay unique in each place (446-452); only an empty group goes     *)
(* (213-232): for any depth, groups, users and requests.                   *)
(***************************************************************************)
THEOREM GroupsKeepOrder == GroupsSpec => GroupsStayInOrder
  <1>1. ASSUME GroupsInv, GroupsNext, ~StaleWrite, ~UNCHANGED <<parent, name>>
        PROVE  TreesStay /\ NamesStay /\ OnlyEmptyOnesGo
    <2>0. TablesOK /\ IsHierarchy(parent) /\ IsFiniteSet(DOMAIN parent)
      BY <1>1, TablesHoldATree DEF GroupsInv
    <2>1. PICK r \in GroupRequests : Edit(r) \/ Erase(r) \/ People(r) \/ Refuse(r)
      BY <1>1 DEF GroupsNext
    <2> DEFINE a == ask[r]
    <2>2. CASE Insert(r)
      <3>1. Put(r, a.group, a.parent, a.name) /\ a.step = "write" /\ a.op = "create"
        BY <2>2 DEF Insert
      <3>2. Knows(a) /\ a \in GoodAsk
        BY <1>1, <3>1, WriterKnows DEF Put
      <3>3. NameIsFree(a.group, a.parent, a.name) /\ a.group \in Groups
        BY <3>1, <3>2 DEF Knows, KnowsTheName, GoodAsk
      <3>4. NamesStay
        BY <2>0, <3>1, <3>3, PutKeepsNames DEF NamesStay
      <3>5. Existing \ DOMAIN parent' = {}
        BY <3>1 DEF Put
      <3>6. a.group \notin DOMAIN parent /\ a.group # None /\ MayPutUnder(a.parent)
        BY <3>1, <3>2, <3>3, GroupsAssumption DEF Knows, KnowsThePlace, Existing
      <3>7. a.parent = None
            \/ (a.parent \in DOMAIN parent /\ groupDepthOf(parent, a.parent) \in 1..(MaxDepth - 1))
        BY <3>1, <3>6 DEF MayPutUnder, Put, MayWrite, Existing
      <3>8. parent' = [h \in DOMAIN parent \cup {a.group} |->
                          IF h = a.group THEN a.parent ELSE parent[h]]
        BY <3>1 DEF Put, Existing
      <3>9. TreesStay
        <4> DEFINE g == a.group
                   p == a.parent
                   new == [h \in DOMAIN parent \cup {g} |-> IF h = g THEN p ELSE parent[h]]
        <4>1. /\ g \notin DOMAIN parent /\ g # None
              /\ p = None \/ (p \in DOMAIN parent /\ groupDepthOf(parent, p) \in 1..(MaxDepth - 1))
          BY <3>6, <3>7
        <4> HIDE DEF g, p
        <4>2. IsShallowForest(parent) => IsShallowForest(new)
          BY <2>0, <4>1, AddingStaysShallow
        <4>3. parent' = new
          BY <3>8 DEF g, p
        <4> HIDE DEF new
        <4> QED
          BY <4>2, <4>3 DEF TreesStay
      <3> QED
        BY <3>4, <3>5, <3>9 DEF OnlyEmptyOnesGo
    <2>3. CASE Save(r)
      <3> DEFINE p == IF "parent" \in a.sends THEN a.parent ELSE parent[a.group]
                 n == IF "name" \in a.sends THEN a.name ELSE name[a.group]
      <3>1. /\ Put(r, a.group, p, n) /\ a.step = "write" /\ a.op = "update"
            /\ a.group \in Existing
        BY <2>3 DEF Save
      <3>2. Knows(a) /\ a \in GoodAsk
        BY <1>1, <3>1, WriterKnows DEF Put
      <3>3. a.group \in Groups /\ p = a.parent /\ n = a.name
        BY <3>1, <3>2 DEF Knows, KnowsTheRow, GoodAsk
      <3> HIDE DEF p, n
      <3>4. \/ NameIsFree(a.group, p, n)
            \/ a.group \in Existing /\ p = parent[a.group] /\ n = name[a.group]
        BY <3>1, <3>2, <3>3 DEF Knows, KnowsTheName
      <3>5. NamesStay
        BY <2>0, <3>1, <3>3, <3>4, PutKeepsNames DEF NamesStay
      <3>6. Existing \ DOMAIN parent' = {}
        BY <3>1 DEF Put
      <3>7. MayMove(a.group, p)
        BY <3>1, <3>2, <3>3 DEF Knows, KnowsThePlace
      <3>8. parent' = [parent EXCEPT ![a.group] = p]
        BY <2>0, <3>1 DEF Put, Existing, IsHierarchy
      <3>9. TreesStay
        <4>1. CASE p = parent[a.group]
          <5>1. parent' = parent
            BY <2>0, <3>8, <4>1 DEF IsHierarchy
          <5> QED
            BY <5>1 DEF TreesStay
        <4>2. CASE p # parent[a.group]
          <5>1. p \in DOMAIN parent \cup {None} /\ canReparentGroup(parent, a.group, p)
            BY <3>7, <4>2 DEF MayMove, Existing
          <5>2. a.group \in DOMAIN parent
            BY <3>1 DEF Existing
          <5> QED
            BY <2>0, <3>8, <5>1, <5>2, MovesStayShallow DEF TreesStay
        <4> QED
          BY <4>1, <4>2
      <3> QED
        BY <3>5, <3>6, <3>9 DEF OnlyEmptyOnesGo
    <2>4. CASE Delete(r)
      <3>1. Commit(r, {}) /\ a.step = "write" /\ a.op = "remove"
        BY <2>4 DEF Delete
      <3>2. Knows(a) /\ a \in GoodAsk
        BY <1>1, <3>1, WriterKnows
      <3>3. a.counted = {"members", "children"}
        BY <3>1, <3>2 DEF GoodAsk
      <3>4. /\ \A u \in GroupUsers : <<a.group, u>> \notin member
            /\ Children(parent, a.group) = {}
        BY <3>1, <3>2, <3>3 DEF Knows, KnowsItsContents
      <3>5. /\ parent' = [h \in Existing \ {a.group} |-> IF parent[h] = a.group THEN None ELSE parent[h]]
            /\ name'   = [h \in Existing \ {a.group} |-> name[h]]
        BY <2>4 DEF Delete
      <3>6. OnlyEmptyOnesGo
        BY <3>4, <3>5 DEF OnlyEmptyOnesGo, IsEmptyGroup
      <3>7. Existing' = Existing \ {a.group}
        BY <3>5 DEF Existing
      <3>8. \A h \in Existing' : parent'[h] = parent[h] /\ name'[h] = name[h]
        BY <3>4, <3>5, <3>7 DEF Children, Existing
      <3>9. NamesStay
        BY <3>7, <3>8 DEF NamesStay, NamesAreUnique
      <3>10. TreesStay
        <4>1. /\ a.group \in DOMAIN parent
              /\ parent' = [h \in DOMAIN parent \ {a.group} |->
                               IF parent[h] = a.group THEN None ELSE parent[h]]
          BY <2>4, <3>5 DEF Delete, Existing
        <4> QED
          BY <2>0, <4>1, RemovingStaysShallow DEF TreesStay
      <3> QED
        BY <3>6, <3>9, <3>10
    <2> QED
      BY <1>1, <2>1, <2>2, <2>3, <2>4
      DEF Edit, Erase, People, Refuse, Unwritten, Create, OpenForm, Update, AssertNameFree,
          Remove, CountContents, AssertGroupExists, AddMembers, ReadMemberships, Assign,
          RemoveMember, Drop
  <1>2. GroupsInv /\ [GroupsNext]_groupsVars
           => [\/ UNCHANGED <<parent, name>>
               \/ StaleWrite
               \/ TreesStay /\ NamesStay /\ OnlyEmptyOnesGo]_groupsVars
    BY <1>1
  <1> QED
    BY <1>2, GroupsInvHolds, PTL DEF GroupsSpec, GroupsStayInOrder
===============================================================================
