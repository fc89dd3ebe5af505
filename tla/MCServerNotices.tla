--------------------------- MODULE MCServerNotices ---------------------------
(***************************************************************************)
(* The notices of restarts on the server, or what a browser makes of them  *)
(* and of its session: part says which of the two a behaviour is about.    *)
(***************************************************************************)
EXTENDS ServerNotices, Client, TLC

VARIABLE part

\* Only the server's part has model values: ComesBack is not about it.
AllSymmetry == Permutations(NoticeIds) \cup Permutations(Admins)

noticeAndClientVars == <<vars, clientVars, part>>

\* No page is open, so nothing is owed to it.
NoClient ==
    /\ now = 1 /\ tick = 1 /\ nextPoll = 0
    /\ host = [up |-> TRUE, session |-> 0, notice |-> NoNotice]
    /\ me = [data |-> LoggedOut, failed |-> FALSE]
    /\ call = NoCall /\ extension = NoCall
    /\ active = NoActive /\ dismissed = NotDismissed /\ managing = FALSE
    /\ bounds = [outages |-> 0, visits |-> 0]
    /\ calm = [quiet |-> 0, parted |-> FALSE]

MCInit ==
    /\ Init
    /\ \/ part = "server" /\ NoClient
       \/ part = "client" /\ ClientInit

MCNext ==
    \/ part = "server" /\ Next /\ UNCHANGED <<clientVars, part>>
    \/ part = "client" /\ ClientNext /\ UNCHANGED <<vars, part>>

MCSpec == MCInit /\ [][MCNext]_noticeAndClientVars /\ ClientFairness
==============================================================================
