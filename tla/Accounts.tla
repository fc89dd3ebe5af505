------------------------------- MODULE Accounts -------------------------------
(***************************************************************************)
(* Accounts and sessions: UsersService (apps/api/src/users), AuthService   *)
(* and AuthGuard (auth), SessionsService (sessions), the account that is   *)
(* seeded when the server starts (bootstrap), and sp-reset-admin.exe       *)
(* (scripts/reset-admin-cli.ts), which works on the database of a running  *)
(* server.                                                                 *)
(*                                                                         *)
(* Every query is a step: between two queries of a request any other       *)
(* request may run, and the server may die.  What only the first query     *)
(* learns is kept in the request.  A user of Users is a username; requests *)
(* name users by id, and an account made again has another id: when a row  *)
(* is deleted, the requests that name it name NULL from then on.           *)
(*                                                                         *)
(* Left out: failedLoginCount, lockedUntil, lastSeenAt and lastLoginAt,    *)
(* which no step depends on (accounts are not locked any more), names and  *)
(* the audit rows; a login with a wrong password, which writes only        *)
(* these; peek, which is touch without its write.                          *)
(***************************************************************************)
EXTENDS Integers, FiniteSets

CONSTANTS
    Users,
    Admins,         \* the users with globalRole ADMIN: no operation changes it
    InitialAdmin,   \* INITIAL_ADMIN_USERNAME
    Sids,           \* the supply of session ids
    Passwords,
    Requests,       \* each is a request in flight, one at a time
    MayCrash,       \* whether the server may die
    CliInUse,       \* whether sp-reset-admin.exe is run
    NULL

ASSUME AdminsAssumption  == InitialAdmin \in Admins /\ Admins \subseteq Users
ASSUME NullAssumption    == NULL \notin Users \cup Sids \cup Passwords
ASSUME ChoicesAssumption == MayCrash \in BOOLEAN /\ CliInUse \in BOOLEAN

VARIABLES
    account,    \* user -> its row
    session,    \* session id -> its row
    req         \* request -> what it does and knows

vars == <<account, session, req>>

Account == [exists : BOOLEAN, active : BOOLEAN, retired : BOOLEAN,
            mustChange : BOOLEAN,           \* passwordMustChange
            legacy : BOOLEAN,               \* passwordHash is an argon2 hash
            password : Passwords \cup {NULL}]

Absent == [exists |-> FALSE, active |-> FALSE, retired |-> FALSE,
           mustChange |-> FALSE, legacy |-> FALSE, password |-> NULL]

\* The account somebody creates; it has to change its first password.
NewAccount(w) == [exists |-> TRUE, active |-> TRUE, retired |-> FALSE,
                  mustChange |-> TRUE, legacy |-> FALSE, password |-> w]

\* "unused": the id has not been drawn yet; with: the password of the login.
Session == [state : {"unused", "live", "expired", "gone"},
            user : Users \cup {NULL}, with : Passwords \cup {NULL}]

Unused == [state |-> "unused", user |-> NULL, with |-> NULL]

LoginSteps == {"login write", "login sweep", "login create"}
GuardSteps == {"touch write", "touch delete", "serve"}
OwnSteps   == {"extend", "change"}
AdminSteps == {"count", "update", "reset", "retire", "unretire", "remove", "destroy"}
Steps == {"idle"} \cup LoginSteps \cup GuardSteps \cup OwnSteps \cup AdminSteps

\* next is the write that follows a count; was is isActive as it was read,
\* will the isActive that is asked for.
Request == [step : Steps, next : {"none", "update", "retire"},
            sid : Sids \cup {NULL}, actor : Users \cup {NULL},
            target : Users \cup {NULL}, password : Passwords \cup {NULL},
            admin : BOOLEAN, legacy : BOOLEAN, mustChange : BOOLEAN,
            was : BOOLEAN, will : BOOLEAN]

Idle == [step |-> "idle", next |-> "none", sid |-> NULL, actor |-> NULL,
         target |-> NULL, password |-> NULL, admin |-> FALSE, legacy |-> FALSE,
         mustChange |-> FALSE, was |-> FALSE, will |-> FALSE]

-------------------------------------------------------------------------------
Exists(u) == u \in Users /\ account[u].exists
IsActive(u) == Exists(u) /\ account[u].active
IsRow(s) == session[s].state \in {"live", "expired"}

Goto(r, step) == req' = [req EXCEPT ![r].step = step]
Done(r) == req' = [req EXCEPT ![r] = Idle]

\* destroyAllForUser, and the cascade from the row of the user.
WithoutSessionsOf(u) ==
    [s \in Sids |-> IF IsRow(s) /\ session[s].user = u
                    THEN [session[s] EXCEPT !.state = "gone"] ELSE session[s]]

\* An update of a row that is gone is an error: the request ends.
WriteAccount(r, u, row, step) ==
    /\ UNCHANGED session
    /\ IF Exists(u)
       THEN /\ account' = [account EXCEPT ![u] = row]
            /\ IF step = "idle" THEN Done(r) ELSE Goto(r, step)
       ELSE UNCHANGED account /\ Done(r)

-------------------------------------------------------------------------------
(* login                                                                   *)

\* The password is verified against the row that was read.
LoginRead(r) ==
    /\ req[r] = Idle
    /\ \E u \in Users :
          /\ IsActive(u)
          /\ req' = [req EXCEPT ![r] = [Idle EXCEPT
                        !.step = "login write", !.target = u,
                        !.password = account[u].password, !.legacy = account[u].legacy]]
    /\ UNCHANGED <<account, session>>

\* A login with an argon2 hash writes a bcrypt hash of the same password.
Rehashed(r) ==
    LET u == req[r].target
    IN  IF req[r].legacy
        THEN [account[u] EXCEPT !.password = req[r].password, !.legacy = FALSE]
        ELSE account[u]

LoginWrite(r) ==
    /\ req[r].step = "login write"
    /\ WriteAccount(r, req[r].target, Rehashed(r), "login sweep")

LoginSweep(r) ==
    /\ req[r].step = "login sweep"
    /\ session' = [s \in Sids |->
                      IF session[s].state = "expired" /\ session[s].user = req[r].target
                      THEN [session[s] EXCEPT !.state = "gone"] ELSE session[s]]
    /\ Goto(r, "login create")
    /\ UNCHANGED account

\* A mistake the runs must catch: no foreign key.
MayOwnAlways(u) == TRUE

\* The foreign key wants the account to exist; nothing wants it to be active.
MayOwn(u) == Exists(u)

\* Sids is a bound: when all ids are used up, no login succeeds any more.
LoginCreate(r) ==
    /\ req[r].step = "login create"
    /\ \/ /\ MayOwn(req[r].target)
          /\ \E s \in Sids :
                /\ session[s] = Unused
                /\ session' = [session EXCEPT ![s] =
                                  [state |-> "live", user |-> req[r].target,
                                   with |-> req[r].password]]
       \/ /\ ~MayOwn(req[r].target) \/ \A s \in Sids : session[s] # Unused
          /\ UNCHANGED session
    /\ Done(r)
    /\ UNCHANGED account

-------------------------------------------------------------------------------
(* AuthGuard and SessionsService.touch                                     *)

TouchRead(r) ==
    /\ req[r] = Idle
    /\ \E s \in Sids :
          /\ IsRow(s)
          /\ LET ok == session[s].state = "live" /\ IsActive(session[s].user)
             IN  req' = [req EXCEPT ![r] = [Idle EXCEPT
                            !.step = IF ok THEN "touch write" ELSE "touch delete",
                            !.sid = s]]
    /\ UNCHANGED <<account, session>>

TouchDelete(r) ==
    /\ req[r].step = "touch delete"
    /\ session' = IF IsRow(req[r].sid)
                  THEN [session EXCEPT ![req[r].sid].state = "gone"] ELSE session
    /\ Done(r)
    /\ UNCHANGED account

\* The update of lastSeenAt fails if the row is gone; it reads the account
\* again, but not whether it is active.
TouchWrite(r) ==
    /\ req[r].step = "touch write"
    /\ LET u == session[req[r].sid].user
       IN  IF IsRow(req[r].sid)
           THEN req' = [req EXCEPT ![r].step = "serve", ![r].actor = u,
                                   ![r].admin = (u \in Admins),
                                   ![r].mustChange = account[u].mustChange]
           ELSE Done(r)
    /\ UNCHANGED <<account, session>>

\* What the guard lets through: PASSWORD_CHANGE_REQUIRED, ADMIN_REQUIRED.
Serves(r) == req[r].step = "serve"
ServesAdmin(r) == Serves(r) /\ ~req[r].mustChange /\ req[r].admin

\* A request for something that changes nothing here.
ServeOther(r) ==
    /\ Serves(r)
    /\ Done(r)
    /\ UNCHANGED <<account, session>>

-------------------------------------------------------------------------------
(* What users do themselves                                                *)

Logout(r) ==
    /\ Serves(r)
    /\ session' = IF IsRow(req[r].sid)
                  THEN [session EXCEPT ![req[r].sid].state = "gone"] ELSE session
    /\ Done(r)
    /\ UNCHANGED account

ExtendRead(r) ==
    /\ Serves(r)
    /\ IF session[req[r].sid].state = "live" THEN Goto(r, "extend") ELSE Done(r)
    /\ UNCHANGED <<account, session>>

\* A mistake the runs must catch: the row is written whether it exists or not.
ExtendUpsert(s) == [session EXCEPT ![s].state = "live"]

\* An update of a row that is gone fails.
Extended(s) == IF IsRow(s) THEN [session EXCEPT ![s].state = "live"] ELSE session

ExtendWrite(r) ==
    /\ req[r].step = "extend"
    /\ session' = Extended(req[r].sid)
    /\ Done(r)
    /\ UNCHANGED account

\* The current password is verified against the row that was read.
ChangeRead(r) ==
    /\ Serves(r)
    /\ Exists(req[r].actor)
    /\ \E w \in Passwords \ {account[req[r].actor].password} :
          req' = [req EXCEPT ![r].step = "change", ![r].password = w]
    /\ UNCHANGED <<account, session>>

ChangeWrite(r) ==
    /\ req[r].step = "change"
    /\ LET u == req[r].actor
       IN  WriteAccount(r, u, [account[u] EXCEPT !.password = req[r].password,
                                  !.legacy = FALSE, !.mustChange = FALSE], "idle")

-------------------------------------------------------------------------------
(* What administrators do: update, retire                                  *)

\* Mistakes the runs must catch: nobody asks whether the account is retired;
\* nobody counts the other administrators.
MaySetAlways(u, active) == Exists(u)
CountsNever(u) == FALSE

\* ALREADY_RETIRED: the way back is unretire.
MaySet(u, active) == Exists(u) /\ ~(account[u].retired /\ active)

\* LAST_ACTIVE_ADMIN is asked before an active administrator is turned off.
Counts(u) == u \in Admins /\ account[u].active

UpdateRead(r) ==
    /\ ServesAdmin(r)
    /\ \E u \in Users, active \in BOOLEAN :
          /\ MaySet(u, active)
          /\ req' = [req EXCEPT ![r].target = u, ![r].will = active,
                        ![r].was = account[u].active, ![r].next = "update",
                        ![r].step = IF ~active /\ Counts(u) THEN "count" ELSE "update"]
    /\ UNCHANGED <<account, session>>

RetireRead(r) ==
    /\ ServesAdmin(r)
    /\ \E u \in Users \ {req[r].actor} :
          /\ Exists(u) /\ ~account[u].retired
          /\ req' = [req EXCEPT ![r].target = u, ![r].next = "retire",
                        ![r].step = IF Counts(u) THEN "count" ELSE "retire"]
    /\ UNCHANGED <<account, session>>

Count(r) ==
    /\ req[r].step = "count"
    /\ IF \E u \in Admins \ {req[r].target} : IsActive(u)
       THEN Goto(r, req[r].next) ELSE Done(r)
    /\ UNCHANGED <<account, session>>

\* A mistake the runs must catch: the sessions are left alone.
EndsNever(r) == FALSE

\* Who is turned off loses the sessions.
EndsSessions(r) == ~req[r].will /\ req[r].was

UpdateWrite(r) ==
    /\ req[r].step = "update"
    /\ LET u == req[r].target
       IN  WriteAccount(r, u, [account[u] EXCEPT !.active = req[r].will],
                        IF EndsSessions(r) THEN "destroy" ELSE "idle")

RetireWrite(r) ==
    /\ req[r].step = "retire"
    /\ LET u == req[r].target
       IN  WriteAccount(r, u, [account[u] EXCEPT !.active = FALSE, !.retired = TRUE],
                        "destroy")

Destroy(r) ==
    /\ req[r].step = "destroy"
    /\ session' = WithoutSessionsOf(req[r].target)
    /\ Done(r)
    /\ UNCHANGED account

-------------------------------------------------------------------------------
(* What administrators do: create, resetPassword, unretire, remove         *)

CreateUser(r) ==
    /\ ServesAdmin(r)
    /\ \E u \in Users \ Admins, w \in Passwords :
          /\ ~Exists(u)
          /\ account' = [account EXCEPT ![u] = NewAccount(w)]
    /\ Done(r)
    /\ UNCHANGED session

ResetRead(r) ==
    /\ ServesAdmin(r)
    /\ \E u \in Users, w \in Passwords :
          /\ Exists(u) /\ w # account[u].password
          /\ req' = [req EXCEPT ![r].step = "reset", ![r].target = u, ![r].password = w]
    /\ UNCHANGED <<account, session>>

\* A mistake the runs must catch: the sessions are left alone.
AfterResetNothing == "idle"

\* What comes after the new password is written.
AfterReset == "destroy"

ResetWrite(r) ==
    /\ req[r].step = "reset"
    /\ LET u == req[r].target
       IN  WriteAccount(r, u, [account[u] EXCEPT !.password = req[r].password,
                                  !.legacy = FALSE, !.mustChange = TRUE], AfterReset)

UnretireRead(r) ==
    /\ ServesAdmin(r)
    /\ \E u \in Users :
          /\ Exists(u) /\ account[u].retired
          /\ req' = [req EXCEPT ![r].step = "unretire", ![r].target = u]
    /\ UNCHANGED <<account, session>>

UnretireWrite(r) ==
    /\ req[r].step = "unretire"
    /\ LET u == req[r].target
       IN  WriteAccount(r, u, [account[u] EXCEPT !.active = TRUE, !.retired = FALSE], "idle")

RemoveRead(r) ==
    /\ ServesAdmin(r)
    /\ \E u \in Users \ {req[r].actor} :
          /\ Exists(u)
          /\ req' = [req EXCEPT ![r].step = "remove", ![r].target = u]
    /\ UNCHANGED <<account, session>>

\* A mistake the runs must catch: a row that is only marked.
DeletedSoftly(row) == [row EXCEPT !.exists = FALSE]

Deleted(row) == Absent

\* What a request still knows when the id of u names nobody any more.
Forget(q, u) ==
    [q EXCEPT !.target = IF @ = u THEN NULL ELSE @, !.actor = IF @ = u THEN NULL ELSE @]

\* The activity of the account lies outside of this module: either there is
\* none, or the request ends here.
RemoveCommit(r) ==
    /\ req[r].step = "remove"
    /\ LET u == req[r].target
       IN  \/ UNCHANGED <<account, session>> /\ Done(r)
          \/ /\ Exists(u)
             /\ account' = [account EXCEPT ![u] = Deleted(@)]
             /\ session' = WithoutSessionsOf(u)
             /\ req' = [q \in Requests |-> IF q = r THEN Idle ELSE Forget(req[q], u)]

-------------------------------------------------------------------------------
(* The surroundings                                                        *)

\* The server dies and starts again: InitialAdminBootstrap.
Restart ==
    /\ MayCrash
    /\ req' = [r \in Requests |-> Idle]
    /\ \/ Exists(InitialAdmin) /\ UNCHANGED account
       \/ /\ ~Exists(InitialAdmin)
          /\ \E w \in Passwords :
                account' = [account EXCEPT ![InitialAdmin] = NewAccount(w)]
    /\ UNCHANGED session

\* The twelve hours of a session are over.
Expire ==
    /\ \E s \in Sids :
          /\ session[s].state = "live"
          /\ session' = [session EXCEPT ![s].state = "expired"]
    /\ UNCHANGED <<account, req>>

\* sp-reset-admin.exe
ResetAdmin ==
    /\ CliInUse
    /\ Exists(InitialAdmin)
    /\ \E w \in Passwords :
          account' = [account EXCEPT ![InitialAdmin] =
                         [@ EXCEPT !.password = w, !.legacy = FALSE,
                                   !.mustChange = FALSE, !.active = TRUE]]
    /\ UNCHANGED <<session, req>>

-------------------------------------------------------------------------------
\* A database of an earlier version: its hashes may be argon2.
Init ==
    /\ \E w \in Passwords :
          account \in [Users -> {Absent} \cup
                          {[NewAccount(w) EXCEPT !.mustChange = FALSE, !.legacy = l] :
                              l \in BOOLEAN}]
    /\ Exists(InitialAdmin)
    /\ session = [s \in Sids |-> Unused]
    /\ req = [r \in Requests |-> Idle]

Login(r) == LoginRead(r) \/ LoginWrite(r) \/ LoginSweep(r) \/ LoginCreate(r)

Guard(r) == TouchRead(r) \/ TouchDelete(r) \/ TouchWrite(r) \/ ServeOther(r)

Own(r) == Logout(r) \/ ExtendRead(r) \/ ExtendWrite(r) \/ ChangeRead(r) \/ ChangeWrite(r)

Administrate(r) ==
    \/ UpdateRead(r) \/ RetireRead(r) \/ Count(r) \/ UpdateWrite(r) \/ RetireWrite(r)
    \/ Destroy(r) \/ CreateUser(r) \/ ResetRead(r) \/ ResetWrite(r)
    \/ UnretireRead(r) \/ UnretireWrite(r) \/ RemoveRead(r) \/ RemoveCommit(r)

Next ==
    \/ \E r \in Requests : Login(r) \/ Guard(r) \/ Own(r) \/ Administrate(r)
    \/ Restart \/ Expire \/ ResetAdmin

Spec == Init /\ [][Next]_vars

-------------------------------------------------------------------------------
TypeOK ==
    /\ account \in [Users -> Account]
    /\ \A u \in Users : ~account[u].exists => account[u] = Absent
    /\ session \in [Sids -> Session]
    /\ req \in [Requests -> Request]

\* At most one request is in flight.
OneAtATime == \A q, r \in Requests : req[q] # Idle /\ req[r] # Idle => q = r

(***************************************************************************)
(* A retired account is not active: what keeps retired people out asks for *)
(* isActive alone (retire, 310-319; update, 118-125).                      *)
(***************************************************************************)
RetiredIsInactive == \A u \in Users : account[u].retired => ~account[u].active

(***************************************************************************)
(* There is always an administrator who can log in (LAST_ACTIVE_ADMIN,     *)
(* 130-146 and 330-342; remove asks only that the actor stays).            *)
(***************************************************************************)
SomeActiveAdmin == \E u \in Admins : IsActive(u)

\* Nobody is between writing an account and destroying its sessions.
Settled(u) == \A r \in Requests : ~(req[r].step = "destroy" /\ req[r].target = u)

(***************************************************************************)
(* Who is deactivated or retired has no session left that would work again *)
(* once the account is back (DESIGN.md, 271).                              *)
(***************************************************************************)
InactiveIsOut ==
    \A s \in Sids : IsRow(s) /\ Settled(session[s].user) => account[session[s].user].active

(***************************************************************************)
(* After a reset, until the owner changes the password, every session was  *)
(* opened with the temporary password (docs/user-guide.md, 419).           *)
(***************************************************************************)
ResetIsOut ==
    \A s \in Sids :
        LET u == session[s].user
        IN  IsRow(s) /\ account[u].mustChange /\ Settled(u) =>
                session[s].with = account[u].password

(***************************************************************************)
(* A session that was ended, by logout, by the guard or by an              *)
(* administrator, is never brought back by a request that has read it      *)
(* before (extend, 131-137).                                               *)
(***************************************************************************)
EndedForGood ==
    [][\A s \in Sids : session[s].state = "gone" => session'[s].state = "gone"]_vars

(***************************************************************************)
(* A session belongs to an account that exists: whoever is deleted while   *)
(* logging in gets none.                                                   *)
(***************************************************************************)
SessionsHaveOwners == \A s \in Sids : IsRow(s) => Exists(session[s].user)
===============================================================================
