-------------------------------- MODULE Client --------------------------------
(***************************************************************************)
(* What a browser believes about the server: whether the user is logged in *)
(* and for how long (auth.ts, session.ts, sessionCountdown.ts, api.ts,     *)
(* main.tsx, App.tsx, SessionExpiryDialog.tsx), and whether a restart has  *)
(* been announced (serverNotice.ts, noticeCountdown.ts,                    *)
(* ServerNoticeDialog.tsx, AdminServerPage.tsx).  The server crashes and   *)
(* comes back, answers are late or lost, and a session ends behind the     *)
(* browser's back.                                                         *)
(*                                                                         *)
(* Time passes in units of half a minute, the pace of the slower timer;    *)
(* what the code does at a certain time is done before time goes on, and   *)
(* an answer is there within the unit.  The clock of the browser runs as   *)
(* fast as the server's: its offset cancels out, since it is only used for *)
(* differences.  Left out: what a hidden window does to timers, and a      *)
(* second window with the same cookie.  Restarts are announced and called  *)
(* off by somebody else.                                                   *)
(***************************************************************************)
EXTENDS Integers

CONSTANTS
    Lifetime,           \* SESSION_TTL_MS
    SessionWarning,     \* SESSION_EXPIRY_WARNING_MS
    NoticeWarning,      \* SERVER_NOTICE_WARNING_MS
    IdlePoll, ActivePoll,   \* between two enquiries about notices
    UnitsPerMark,       \* units of time in a minute
    MaxUnits,            \* bound on the time
    MaxOutages,         \* bound on crashes, lost answers and revocations
    MaxVisits           \* bound on loads of the page, logins, announcements, and
                        \* visits to the page where they are managed, together

ASSUME LengthsAssumption == Lifetime \in Nat /\ SessionWarning \in Nat /\ NoticeWarning \in Nat
ASSUME PollsAssumption   == IdlePoll \in Nat /\ ActivePoll \in 0..IdlePoll
ASSUME MarksAssumption   == UnitsPerMark \in Nat \ {0}

VARIABLES
    now,
    host,       \* up, the time its session ends (0: none), its notice
    me,         \* the answer to /auth/me that is kept, and whether the last failed
    call,       \* the request /auth/me under way
    extension,  \* the request /auth/extend under way
    active,     \* the answer to /server-notices/active that is kept
    nextPoll,   \* when it is asked for again
    tick,       \* the time the countdown to a restart was drawn
    dismissed,  \* the notice and the minute in which it was closed
    managing,   \* an administrator is logged in, and the page is /admin/server
    bounds,     \* outages and visits so far
    calm        \* for the properties: the time since the last change (capped),
                \* and whether the answer to an extension was lost, or a logout
                \* failed, since the page was loaded or a login

clientVars == <<now, host, me, call, extension, active, nextPoll, tick,
                dismissed, managing, bounds, calm>>

\* data: not known, logged out (401), or what the server has said and when.
Unknown   == [state |-> "unknown", expires |-> 0, serverNow |-> 0, received |-> 0]
LoggedOut == [Unknown EXCEPT !.state = "out"]
In(expires, at) == [state |-> "in", expires |-> expires, serverNow |-> at, received |-> now]

NoNotice == [id |-> 0, at |-> 0]
NotDismissed == [id |-> 0, mark |-> 0]
NoActive == [notice |-> NoNotice, serverNow |-> 0, received |-> 0]
NoCall   == [step |-> "none", valid |-> FALSE, expires |-> 0, at |-> 0]

Valid == host.session > now

-------------------------------------------------------------------------------
(* sessionCountdown.ts                                                     *)

AtLeast0(n) == IF n > 0 THEN n ELSE 0

\* A mistake the runs must catch: a time of drawing before the answer counts.
Unclamped(target, serverNow, received, drawn) == (target - serverNow) - (drawn - received)

signedRemainingMsFrom(target, serverNow, received, drawn) ==
    (target - serverNow) - AtLeast0(drawn - received)

\* Drawn in every unit, and when an answer arrives.
SessionLeft ==
    AtLeast0(signedRemainingMsFrom(me.data.expires, me.data.serverNow, me.data.received, now))

NoticeLeft ==
    signedRemainingMsFrom(active.notice.at, active.serverNow, active.received, tick)

\* Nothing is counted down unless the user is logged in.
HasNotice == me.data.state = "in" /\ active.notice # NoNotice

-------------------------------------------------------------------------------
(* The screens                                                             *)

\* RequireAuth
CannotConnect == me.failed /\ me.data.state # "in"
ShowsLogin    == ~CannotConnect /\ me.data.state = "out"
ShowsApp      == me.data.state = "in"

ShowsExpiry == ShowsApp /\ SessionLeft \in 1..SessionWarning

\* noticeCountdown.ts: the minute, rounded up.
minuteMark(left) == -((-left) \div UnitsPerMark)

\* AdminServerPage: the notice and the time that is left, without a dialog.
ShowsCard == HasNotice /\ managing

shouldShowNotice ==
    /\ NoticeLeft <= NoticeWarning
    /\ dismissed # [id |-> active.notice.id, mark |-> minuteMark(NoticeLeft)]

\* The dialog never covers the page on which the notice can be called off.
ShowsNotice == HasNotice /\ ~managing /\ shouldShowNotice

-------------------------------------------------------------------------------
(* /auth/me                                                                *)

Sent == [NoCall EXCEPT !.step = "sent"]

\* Notices are asked for as soon as somebody is known to be logged in; who is
\* logged out is sent to /login.  (A page that was loaded at /admin/server is
\* there once the user is known: Manage.)
Know(data, failed) ==
    /\ me' = [data |-> data, failed |-> failed]
    /\ managing' = (managing /\ data.state = "in")
    /\ nextPoll' = IF data.state = "in" /\ me.data.state # "in" THEN now ELSE nextPoll
    /\ calm' = [calm EXCEPT !.quiet = IF data.state = me.data.state THEN @ ELSE 0]

Visit == bounds.visits < MaxVisits /\ bounds' = [bounds EXCEPT !.visits = @ + 1]

Load ==
    /\ Visit
    /\ me' = [data |-> Unknown, failed |-> FALSE]
    /\ call' = Sent /\ extension' = NoCall
    /\ active' = NoActive /\ dismissed' = NotDismissed
    /\ tick' = now
    /\ managing' = FALSE
    /\ calm' = [quiet |-> 0, parted |-> FALSE]
    /\ UNCHANGED <<now, host, nextPoll>>

\* A mistake the runs must catch: only a first answer that fails is asked for again.
OnlyAtFirst == me.failed /\ me.data = Unknown

\* refetchInterval while the last answer was an error, or by the button.
AsksAgain == me.failed

Retry ==
    /\ AsksAgain /\ call = NoCall
    /\ call' = Sent
    /\ UNCHANGED <<now, host, me, extension, active, nextPoll, tick, dismissed,
                   managing, bounds, calm>>

Handle(request) == [request EXCEPT !.step = "answered", !.valid = Valid,
                                   !.expires = host.session, !.at = now]

ServerAnswers ==
    /\ call.step = "sent" /\ host.up
    /\ call' = Handle(call)
    /\ UNCHANGED <<now, host, me, extension, active, nextPoll, tick, dismissed,
                   managing, bounds, calm>>

\* 502, or no connection; what is known stays.
NoAnswer ==
    /\ call.step = "sent" /\ ~host.up
    /\ call' = NoCall
    /\ Know(me.data, TRUE)
    /\ UNCHANGED <<now, host, extension, active, tick, dismissed, bounds>>

AnswerArrives ==
    /\ call.step = "answered"
    /\ call' = NoCall
    /\ Know(IF call.valid THEN In(call.expires, call.at) ELSE LoggedOut, FALSE)
    /\ UNCHANGED <<now, host, extension, active, tick, dismissed, bounds>>

\* Any request but /auth/me gets 401 (onUnauthorized).
Unauthorized ==
    /\ ShowsApp /\ host.up /\ ~Valid
    /\ Know(LoggedOut, FALSE)
    /\ UNCHANGED <<now, host, call, extension, active, tick, dismissed,
                   bounds>>

\* The countdown is at its end (SessionExpiryDialog).
Expire ==
    /\ ShowsApp /\ SessionLeft = 0
    /\ Know(LoggedOut, FALSE)
    /\ UNCHANGED <<now, host, call, extension, active, tick, dismissed,
                   bounds>>

\* A login, or a logout, asks again, and its button waits for the answer.  Who
\* types a password is slower than an answer to an extension.
Login ==
    /\ ShowsLogin /\ host.up /\ call = NoCall /\ extension = NoCall
    /\ Visit
    /\ host' = [host EXCEPT !.session = now + Lifetime]
    /\ call' = Sent
    /\ calm' = [calm EXCEPT !.parted = FALSE]
    /\ UNCHANGED <<now, me, extension, active, nextPoll, tick, dismissed,
                   managing>>

Logout ==
    /\ ShowsApp /\ host.up
    /\ host' = [host EXCEPT !.session = 0]
    /\ call' = Sent
    /\ UNCHANGED <<now, me, extension, active, nextPoll, tick, dismissed,
                   managing, bounds, calm>>

\* The dialog takes every failure for a session that is gone.
LogoutFails ==
    /\ ShowsExpiry /\ ~host.up
    /\ me' = [data |-> LoggedOut, failed |-> FALSE]
    /\ managing' = FALSE
    /\ calm' = [quiet |-> 0, parted |-> TRUE]
    /\ UNCHANGED <<now, host, call, extension, active, nextPoll, tick, dismissed,
                   bounds>>

-------------------------------------------------------------------------------
(* /auth/extend                                                            *)

Extend ==
    /\ ShowsExpiry /\ extension = NoCall
    /\ extension' = Sent
    /\ UNCHANGED <<now, host, me, call, active, nextPoll, tick, dismissed,
                   managing, bounds, calm>>

ServerExtends ==
    /\ extension.step = "sent" /\ host.up
    /\ host' = IF Valid THEN [host EXCEPT !.session = now + Lifetime] ELSE host
    /\ extension' = [extension EXCEPT !.step = "answered", !.valid = Valid,
                                      !.expires = now + Lifetime, !.at = now]
    /\ UNCHANGED <<now, me, call, active, nextPoll, tick, dismissed, managing,
                   bounds, calm>>

\* The new end is put into the kept answer, and /auth/me is asked again.
ExtensionArrives ==
    /\ extension.step = "answered"
    /\ extension' = NoCall
    /\ IF extension.valid
       THEN /\ Know(IF ShowsApp THEN [me.data EXCEPT !.expires = extension.expires,
                                                     !.serverNow = extension.at,
                                                     !.received = now]
                    ELSE me.data, me.failed)
            /\ call' = Sent
       ELSE Know(LoggedOut, FALSE) /\ UNCHANGED call
    /\ UNCHANGED <<now, host, active, tick, dismissed, bounds>>

\* A toast, and nothing is asked again.
ExtensionFails ==
    /\ \/ extension.step = "sent" /\ ~host.up /\ UNCHANGED <<bounds, calm>>
       \/ /\ extension.step = "answered" /\ bounds.outages < MaxOutages
          /\ bounds' = [bounds EXCEPT !.outages = @ + 1]
          /\ calm' = [calm EXCEPT !.parted = TRUE]
    /\ extension' = NoCall
    /\ UNCHANGED <<now, host, me, call, active, nextPoll, tick, dismissed,
                   managing>>

-------------------------------------------------------------------------------
(* Notices                                                                 *)

\* A failed enquiry keeps the last answer; the next one comes all the same.  One
\* that gets 401 is Unauthorized.
Poll ==
    /\ ShowsApp /\ nextPoll <= now
    /\ host.up => Valid
    /\ active' = IF host.up THEN [notice |-> host.notice, serverNow |-> now,
                                    received |-> now]
                 ELSE active
    /\ nextPoll' = now + IF active'.notice # NoNotice THEN ActivePoll ELSE IdlePoll
    /\ dismissed' = IF active'.notice.id = dismissed.id THEN dismissed
                    ELSE NotDismissed
    /\ UNCHANGED <<now, host, me, call, extension, tick, managing, bounds,
                   calm>>

Dismiss ==
    /\ ShowsNotice
    /\ dismissed' = [id |-> active.notice.id, mark |-> minuteMark(NoticeLeft)]
    /\ UNCHANGED <<now, host, me, call, extension, active, nextPoll, tick,
                   managing, bounds, calm>>

\* An administrator opens the page on which notices are managed, which asks for
\* the notice at once.
Manage ==
    /\ ShowsApp /\ ~managing
    /\ Visit
    /\ managing' = TRUE
    /\ nextPoll' = now
    /\ UNCHANGED <<now, host, me, call, extension, active, tick, dismissed, calm>>

LeavePage ==
    /\ managing
    /\ managing' = FALSE
    /\ UNCHANGED <<now, host, me, call, extension, active, nextPoll, tick,
                   dismissed, bounds, calm>>

-------------------------------------------------------------------------------
(* The server and the time                                                 *)

Changes == calm' = [calm EXCEPT !.quiet = 0]

Announce ==
    /\ host.up /\ host.notice = NoNotice
    /\ \E at \in {now + NoticeWarning, now + NoticeWarning + 1} :
          host' = [host EXCEPT !.notice = [id |-> now + 1, at |-> at]]
    /\ Visit /\ Changes
    /\ UNCHANGED <<now, me, call, extension, active, nextPoll, tick, dismissed,
                   managing>>

CancelNotice ==
    /\ host.up /\ host.notice # NoNotice
    /\ host' = [host EXCEPT !.notice = NoNotice]
    /\ Changes
    /\ UNCHANGED <<now, me, call, extension, active, nextPoll, tick, dismissed,
                   managing, bounds>>

Crash ==
    /\ host.up /\ bounds.outages < MaxOutages
    /\ bounds' = [bounds EXCEPT !.outages = @ + 1]
    /\ host' = [host EXCEPT !.up = FALSE]
    /\ Changes
    /\ UNCHANGED <<now, me, call, extension, active, nextPoll, tick, dismissed,
                   managing>>

\* Sessions are in the database; the notice is closed by the start.
Restart ==
    /\ ~host.up
    /\ host' = [host EXCEPT !.up = TRUE, !.notice = NoNotice]
    /\ Changes
    /\ UNCHANGED <<now, me, call, extension, active, nextPoll, tick, dismissed,
                   managing, bounds>>

Revoke ==
    /\ host.up /\ Valid /\ bounds.outages < MaxOutages
    /\ bounds' = [bounds EXCEPT !.outages = @ + 1]
    /\ host' = [host EXCEPT !.session = 0]
    /\ UNCHANGED <<now, me, call, extension, active, nextPoll, tick, dismissed,
                   managing, calm>>

\* What is due goes first, answers too; a countdown draws itself again, unless there
\* is nothing to count down.
TimeTicks ==
    /\ now < MaxUnits
    /\ call = NoCall /\ extension = NoCall
    /\ ~(ShowsApp /\ nextPoll <= now) /\ ~(ShowsApp /\ SessionLeft = 0)
    /\ now' = now + 1
    /\ tick' = IF HasNotice THEN now + 1 ELSE tick
    /\ calm' = [calm EXCEPT !.quiet = IF @ > IdlePoll THEN @ ELSE @ + 1]
    /\ UNCHANGED <<host, me, call, extension, active, nextPoll, dismissed,
                   managing, bounds>>

-------------------------------------------------------------------------------
ClientInit ==
    /\ now = 1
    /\ host \in [up : BOOLEAN, session : {0, Lifetime + 1}, notice : {NoNotice}]
    /\ me = [data |-> Unknown, failed |-> FALSE]
    /\ call = Sent /\ extension = NoCall
    /\ active = NoActive /\ nextPoll = 0 /\ dismissed = NotDismissed
    /\ tick = now /\ managing = FALSE
    /\ bounds = [outages |-> 0, visits |-> 0]
    /\ calm = [quiet |-> 0, parted |-> FALSE]

Answers == Retry \/ ServerAnswers \/ NoAnswer \/ AnswerArrives
           \/ ServerExtends \/ ExtensionArrives \/ ExtensionFails

ClientNext ==
    \/ Load \/ Answers \/ Unauthorized \/ Expire \/ Login \/ Logout
    \/ LogoutFails \/ Extend
    \/ Poll \/ Dismiss \/ Manage \/ LeavePage \/ Announce \/ CancelNotice
    \/ Crash \/ Restart \/ Revoke \/ TimeTicks

ClientFairness == WF_clientVars(Answers) /\ WF_clientVars(Restart)

-------------------------------------------------------------------------------
(***************************************************************************)
(* Nobody who is logged in is sent to the login screen, but while a        *)
(* request is under way that will undo it (or when the answer to an        *)
(* extension was lost, and the countdown goes on to the old end, or when a *)
(* logout failed, which leaves the session alive).  The countdown to a     *)
(* restart is right to one drawing of it, and no notice is there for       *)
(* somebody who is not logged in.  A notice that has been there for as     *)
(* long as the slower enquiry takes is known, and in its last minutes it   *)
(* is on the screen, in the dialog or on the page where it is managed,     *)
(* unless it was closed in this very minute; a notice that is gone for     *)
(* that long is not.                                                       *)
(***************************************************************************)
ScreenIsHonest ==
    /\ ShowsLogin /\ Valid /\ ~calm.parted =>
          call # NoCall \/ extension # NoCall
    /\ HasNotice /\ calm.quiet > 0 =>
          NoticeLeft - (active.notice.at - now) \in 0..1
    /\ ShowsNotice => ShowsApp
    /\ ShowsApp /\ host.up /\ calm.quiet > IdlePoll =>
          /\ active.notice = host.notice
          /\ host.notice # NoNotice /\ host.notice.at - now < NoticeWarning =>
                \/ ShowsNotice \/ ShowsCard
                \/ dismissed = [id   |-> host.notice.id,
                                mark |-> minuteMark(host.notice.at - now)]

(***************************************************************************)
(* Whoever has a session is back in the application sooner or later,       *)
(* without doing anything, once the server answers again (auth.ts, 15-19). *)
(***************************************************************************)
ComesBack ==
    <>[](Valid /\ ~calm.parted) => <>[]ShowsApp
================================================================================
