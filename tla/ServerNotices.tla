---------------------------- MODULE ServerNotices ----------------------------
(***************************************************************************)
(* Restart notices: ServerNoticesService in                                *)
(* apps/api/src/server-notices/server-notices.service.ts, the hook that    *)
(* closes what is left open when the server starts                         *)
(* (close-notices.bootstrap.ts), AuditService.log, from whose rows the     *)
(* list of notices tells who closed one, and UsersService.remove, which    *)
(* takes a deleted administrator out of these rows.                        *)
(*                                                                         *)
(* The server listens only after the hooks of its start are done, so no    *)
(* request runs before.  It may die between any two steps: its requests    *)
(* and what the hook has read are gone, the database stays.  Two servers   *)
(* on one database are the subject of the process lock, not of this        *)
(* module.  Messages and the scheduled time are left out: no step of the   *)
(* server depends on them once create has seen that the time is to come.   *)
(***************************************************************************)
EXTENDS Integers, Sequences, FiniteSets

CONSTANTS
    NoticeIds,      \* the supply of randomUUID() values
    Admins,         \* each has at most one request in flight
    MaxStarts,      \* bound of the exploration: how often the server starts
    NULL

ASSUME NullAssumption   == NULL \notin Admins /\ NULL \notin NoticeIds
ASSUME StartsAssumption == MaxStarts \in Nat

VARIABLES
    accounts,   \* the administrators that have an account
    born,       \* notice -> the start of the server that created it; 0: no row
    creator,    \* notice -> createdBy
    closers,    \* notice -> who wrote canceledAt, in order; NULL is the server
    audits,     \* rows of audit_logs
    server,     \* "down", "reading" and "closing" (the hook), "up"
    starts,     \* how often the server has started
    targets,    \* the hook: the notices of `targets` still to be closed
    closing,    \* the hook: the notice that was closed and is not yet logged
    req         \* the request of each administrator

startVars == <<server, starts, targets, closing>>
vars == <<accounts, born, creator, closers, audits, startVars, req>>

AuditActions == {"SERVER_NOTICE_CREATE", "SERVER_NOTICE_CANCEL"}
AuditRow == [action : AuditActions, target : NoticeIds, actor : Admins \cup {NULL}]

Idle == [step |-> "idle", id |-> NULL]
Request == [step : {"idle", "cancel", "log create", "log cancel"},
            id : NoticeIds \cup {NULL}]

Exists(n) == born[n] > 0

\* canceledAt is null.
Open == {n \in NoticeIds : Exists(n) /\ closers[n] = << >>}

-------------------------------------------------------------------------------
(* AuditService.log: a row, or an error that is swallowed, as it is when   *)
(* the actor has no account any more                                       *)

\* A mistake the runs must catch: a restart gets an action of its own.
LogAsClose(action, n, actor) ==
    audits' = audits \cup
        {[action |-> IF actor = NULL THEN "SERVER_NOTICE_CLOSE" ELSE action,
          target |-> n, actor |-> actor]}

Log(action, n, actor) ==
    \/ /\ actor \in accounts \cup {NULL}
       /\ audits' = audits \cup {[action |-> action, target |-> n, actor |-> actor]}
    \/ UNCHANGED audits

-------------------------------------------------------------------------------
(* create                                                                  *)

\* A mistake the runs must catch: the check is left out.
NeverMind == TRUE

\* The check inside the transaction (NOTICE_ALREADY_ACTIVE).
NoneOpen == Open = {}

Create(a) ==
    /\ server = "up"
    /\ a \in accounts
    /\ req[a] = Idle
    /\ NoneOpen
    /\ \E n \in NoticeIds :
          /\ ~Exists(n)
          /\ born' = [born EXCEPT ![n] = starts]
          /\ creator' = [creator EXCEPT ![n] = a]
          /\ req' = [req EXCEPT ![a] = [step |-> "log create", id |-> n]]
    /\ UNCHANGED <<accounts, closers, audits, startVars>>

LogCreate(a) ==
    /\ req[a].step = "log create"
    /\ Log("SERVER_NOTICE_CREATE", req[a].id, a)
    /\ req' = [req EXCEPT ![a] = Idle]
    /\ UNCHANGED <<accounts, born, creator, closers, startVars>>

-------------------------------------------------------------------------------
(* cancel                                                                  *)

\* findUnique, then the checks on the row that was read.
CancelRead(a) ==
    /\ server = "up"
    /\ a \in accounts
    /\ req[a] = Idle
    /\ \E n \in Open : req' = [req EXCEPT ![a] = [step |-> "cancel", id |-> n]]
    /\ UNCHANGED <<accounts, born, creator, closers, audits, startVars>>

\* The update is not conditional on canceledAt.
CancelWrite(a) ==
    /\ req[a].step = "cancel"
    /\ closers' = [closers EXCEPT ![req[a].id] = Append(@, a)]
    /\ req' = [req EXCEPT ![a].step = "log cancel"]
    /\ UNCHANGED <<accounts, born, creator, audits, startVars>>

LogCancel(a) ==
    /\ req[a].step = "log cancel"
    /\ Log("SERVER_NOTICE_CANCEL", req[a].id, a)
    /\ req' = [req EXCEPT ![a] = Idle]
    /\ UNCHANGED <<accounts, born, creator, closers, startVars>>

\* A query fails before anything is written.
Fail(a) ==
    /\ req[a].step = "cancel"
    /\ req' = [req EXCEPT ![a] = Idle]
    /\ UNCHANGED <<accounts, born, creator, closers, audits, startVars>>

-------------------------------------------------------------------------------
(* UsersService.remove, called by another administrator: an account with   *)
(* activity stays, and a notice counts for its creator only                *)

Remove(a) ==
    /\ server = "up"
    /\ a \in accounts
    /\ accounts # {a}
    /\ a \notin {creator[n] : n \in NoticeIds}
    /\ accounts' = accounts \ {a}
    /\ audits' = {[row EXCEPT !.actor = IF @ = a THEN NULL ELSE @] : row \in audits}
    /\ UNCHANGED <<born, creator, closers, startVars, req>>

-------------------------------------------------------------------------------
(* The start of the server: closeOpenNotices                               *)

Start ==
    /\ server = "down"
    /\ starts < MaxStarts
    /\ server' = "reading"
    /\ starts' = starts + 1
    /\ UNCHANGED <<accounts, born, creator, closers, audits, targets, closing, req>>

\* A mistake the runs must catch: only a notice whose time has come is read,
\* and the restart came early.
NoneIsDue == {}

\* findMany of the open notices, whatever time they are scheduled for.
Leftovers == Open

HookRead ==
    /\ server = "reading"
    /\ server' = "closing"
    /\ targets' = Leftovers
    /\ UNCHANGED <<accounts, born, creator, closers, audits, starts, closing, req>>

HookClose ==
    /\ server = "closing"
    /\ closing = NULL
    /\ \E n \in targets :
          /\ closers' = [closers EXCEPT ![n] = Append(@, NULL)]
          /\ targets' = targets \ {n}
          /\ closing' = n
    /\ UNCHANGED <<accounts, born, creator, audits, server, starts, req>>

HookLog ==
    /\ closing # NULL
    /\ Log("SERVER_NOTICE_CANCEL", closing, NULL)
    /\ closing' = NULL
    /\ UNCHANGED <<accounts, born, creator, closers, server, starts, targets, req>>

\* The hook returns and the server listens.
Listen ==
    /\ server = "closing"
    /\ targets = {}
    /\ closing = NULL
    /\ server' = "up"
    /\ UNCHANGED <<accounts, born, creator, closers, audits, starts, targets, closing, req>>

\* The server stops, is killed, or a query of the hook throws.
Die ==
    /\ server # "down"
    /\ server' = "down"
    /\ targets' = {}
    /\ closing' = NULL
    /\ req' = [a \in Admins |-> Idle]
    /\ UNCHANGED <<accounts, born, creator, closers, audits, starts>>

-------------------------------------------------------------------------------
(* list: who closed a notice, as the administrators see it                 *)

\* A mistake the runs must catch: actorId is not looked at.
ClosedAtAll == {n \in NoticeIds :
    \E row \in audits : row.target = n /\ row.action = "SERVER_NOTICE_CANCEL"}

\* autoClosedIds: a cancel was logged without an actor.
AutoClosed == {n \in NoticeIds :
    [action |-> "SERVER_NOTICE_CANCEL", target |-> n, actor |-> NULL] \in audits}

Reason(n) == IF n \in AutoClosed THEN "SERVER_RESTART" ELSE "ADMIN"

-------------------------------------------------------------------------------
Init ==
    /\ accounts = Admins
    /\ born = [n \in NoticeIds |-> 0]
    /\ creator = [n \in NoticeIds |-> NULL]
    /\ closers = [n \in NoticeIds |-> << >>]
    /\ audits = {}
    /\ server = "down"
    /\ starts = 0
    /\ targets = {}
    /\ closing = NULL
    /\ req = [a \in Admins |-> Idle]

Handler(a) ==
    \/ Create(a) \/ LogCreate(a)
    \/ CancelRead(a) \/ CancelWrite(a) \/ LogCancel(a) \/ Fail(a)

Next ==
    \/ \E a \in Admins : Handler(a) \/ Remove(a)
    \/ Start \/ HookRead \/ HookClose \/ HookLog \/ Listen \/ Die

Spec == Init /\ [][Next]_vars

-------------------------------------------------------------------------------
TypeOK ==
    /\ accounts \subseteq Admins
    /\ born \in [NoticeIds -> Nat]
    /\ creator \in [NoticeIds -> Admins \cup {NULL}]
    /\ closers \in [NoticeIds -> Seq(Admins \cup {NULL})]
    /\ audits \subseteq AuditRow
    /\ server \in {"down", "reading", "closing", "up"}
    /\ starts \in Nat
    /\ targets \subseteq NoticeIds
    /\ closing \in NoticeIds \cup {NULL}
    /\ req \in [Admins -> Request]

(***************************************************************************)
(* At most one notice is open: active() shows the latest only, so a second *)
(* one could not be canceled by anyone (the comment of create, 109-114).   *)
(***************************************************************************)
AtMostOneOpen == \A m, n \in Open : m = n

(***************************************************************************)
(* A server that answers requests shows no notice from before its start,   *)
(* whatever happened to the servers before it (187-200: the restart that   *)
(* was announced is over).                                                 *)
(***************************************************************************)
NoNoticeOutlivesServer == server = "up" => \A n \in Open : born[n] = starts

ClosedBy(n) == {closers[n][i] : i \in DOMAIN closers[n]}

(***************************************************************************)
(* A notice that is listed as closed by a restart was closed by the        *)
(* starting server and by nobody else, before or after (the comment of     *)
(* autoClosedIds, 78-80), unless somebody who canceled it has been deleted *)
(* since: UsersService.remove takes the actor out of the rows.             *)
(***************************************************************************)
RestartReasonUnlessDeleted ==
    \A n \in NoticeIds :
        closers[n] # << >> /\ Reason(n) = "SERVER_RESTART" =>
            closers[n] = <<NULL>> \/ ~(ClosedBy(n) \subseteq accounts \cup {NULL})
===============================================================================
