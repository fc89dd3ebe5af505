-------------------------- MODULE ServerNoticesProofs --------------------------
(***************************************************************************)
(* Theorems about ServerNotices, for any number of administrators, notices *)
(* and starts of the server; and about Client, for any lengths of sessions *)
(* and warnings.                                                           *)
(***************************************************************************)
EXTENDS MCServerNotices, TLAPS

(***************************************************************************)
(* What holds while the server starts: nobody sends requests, and the hook *)
(* has in hand every notice that is still open.                            *)
(***************************************************************************)
StartIsQuiet ==
    /\ server # "up" => \A a \in Admins : req[a] = Idle
    /\ server # "closing" => targets = {} /\ closing = NULL
    /\ server = "closing" => targets = Open

Births ==
    /\ \A n \in NoticeIds : born[n] <= starts
    /\ server # "down" => starts > 0
    /\ NoNoticeOutlivesServer

(***************************************************************************)
(* The server closes a notice as the first and only one: no cancel that is *)
(* in flight has read it.                                                  *)
(***************************************************************************)
ClosedByServerAlone ==
    /\ closing # NULL => closers[closing] = <<NULL>>
    /\ \A a \in Admins : req[a].step = "cancel" =>
          req[a].id \in NoticeIds /\ closers[req[a].id] # <<NULL>>
    /\ \A a \in Admins : req[a].step \in {"log create", "log cancel"} =>
          req[a].id \in NoticeIds

\* Somebody who canceled the notice has no account any more.
CancelerGone(n) == ~(ClosedBy(n) \subseteq accounts \cup {NULL})

(***************************************************************************)
(* Whoever is named as the actor of a cancel has written canceledAt, and a *)
(* cancel without an actor is the trace of the server, alone, or of an     *)
(* account that is gone.                                                   *)
(***************************************************************************)
CancelRow(n, actor) ==
    [action |-> "SERVER_NOTICE_CANCEL", target |-> n, actor |-> actor]

RowsTellTruth ==
    \A n \in NoticeIds :
        /\ \A a \in Admins : CancelRow(n, a) \in audits => a \in ClosedBy(n)
        /\ \A a \in Admins :
              req[a].step = "log cancel" /\ req[a].id = n => a \in ClosedBy(n)
        /\ CancelRow(n, NULL) \in audits => closers[n] = <<NULL>> \/ CancelerGone(n)

IInv == /\ TypeOK /\ AtMostOneOpen /\ StartIsQuiet
        /\ Births /\ ClosedByServerAlone /\ RowsTellTruth

-------------------------------------------------------------------------------
Elements(s) == {s[i] : i \in DOMAIN s}

\* Writing canceledAt never makes a notice open again, and an administrator
\* who writes it does not leave the trace of the server.
LEMMA AppendFacts ==
    ASSUME NEW S, NEW s \in Seq(S), NEW e \in S
    PROVE  /\ Append(s, e) \in Seq(S)
           /\ Append(s, e) # << >>
           /\ \A x : x # e => Append(s, e) # <<x>>
           /\ Elements(Append(s, e)) = Elements(s) \cup {e}
<1>1. Append(s, e) \in Seq(S) /\ Len(Append(s, e)) = Len(s) + 1
      /\ Append(s, e)[Len(s) + 1] = e /\ Len(s) \in Nat
  OBVIOUS
<1>2. Append(s, e) # << >>
  <2>1. Len(<< >>) = 0
    OBVIOUS
  <2> QED
    BY <1>1, <2>1
<1>3. ASSUME NEW x, Append(s, e) = <<x>>
      PROVE  x = e
  <2>1. Len(<<x>>) = 1 /\ <<x>>[1] = x
    OBVIOUS
  <2>2. Len(s) = 0
    BY <1>1, <1>3, <2>1
  <2> QED
    BY <1>1, <1>3, <2>1, <2>2
<1>4. Elements(Append(s, e)) = Elements(s) \cup {e}
  <2>1. /\ DOMAIN s = 1..Len(s) /\ DOMAIN Append(s, e) = 1..(Len(s) + 1)
        /\ \A i \in 1..Len(s) : Append(s, e)[i] = s[i]
    OBVIOUS
  <2> QED
    BY <1>1, <2>1 DEF Elements
<1> QED
  BY <1>1, <1>2, <1>3, <1>4

\* An idle request is typed and at no step of a handler.
LEMMA IdleFacts == Idle \in Request /\ Idle.step = "idle"
  BY DEF Idle, Request

\* Initially no notice exists and the server is down.
LEMMA InitHolds == Init => IInv
<1> SUFFICES ASSUME Init PROVE IInv
  OBVIOUS
<1> USE DEF Init
<1>1. Open = {}
  BY DEF Open, Exists
<1>2. TypeOK
  BY NullAssumption DEF TypeOK, Request, Idle
<1>3. AtMostOneOpen /\ StartIsQuiet
  BY <1>1 DEF AtMostOneOpen, StartIsQuiet
<1>4. Births
  BY <1>1 DEF Births, NoNoticeOutlivesServer
<1>5. ClosedByServerAlone
  BY <1>1 DEF ClosedByServerAlone, Idle
<1>6. RowsTellTruth
  BY <1>1 DEF RowsTellTruth, Idle
<1> QED
  BY <1>2, <1>3, <1>4, <1>5, <1>6 DEF IInv

-------------------------------------------------------------------------------
\* Requests of the running server.

LEMMA CreateStep == ASSUME IInv, NEW a \in Admins, Create(a) PROVE IInv'
<1>0. PICK n \in NoticeIds :
         /\ ~Exists(n)
         /\ born' = [born EXCEPT ![n] = starts]
         /\ creator' = [creator EXCEPT ![n] = a]
         /\ req' = [req EXCEPT ![a] = [step |-> "log create", id |-> n]]
  BY DEF Create
<1> USE DEF IInv
<1>1. /\ server = "up" /\ Open = {}
      /\ UNCHANGED <<accounts, closers, audits, server, starts, targets, closing>>
  BY DEF Create, NoneOpen, startVars
<1>2. Open' \subseteq {n}
  BY <1>0, <1>1 DEF Open, Exists, TypeOK
<1>3. TypeOK'
  BY <1>0, <1>1 DEF TypeOK, Request
<1>4. AtMostOneOpen'
  BY <1>2 DEF AtMostOneOpen
<1>5. StartIsQuiet'
  BY <1>0, <1>1 DEF StartIsQuiet
<1>6. Births'
  <2>1. starts \in Nat /\ starts > 0 /\ \A m \in NoticeIds : born[m] <= starts
    BY <1>1 DEF Births, TypeOK
  <2>2. born'[n] = starts /\ \A m \in NoticeIds \ {n} : born'[m] = born[m]
    BY <1>0 DEF TypeOK
  <2>3. ASSUME NEW m \in NoticeIds
        PROVE  born'[m] <= starts
    BY <2>1, <2>2
  <2>4. NoNoticeOutlivesServer'
    <3>1. \A m \in Open' : born'[m] = starts'
      BY <1>1, <1>2, <2>2
    <3> QED
      BY <3>1 DEF NoNoticeOutlivesServer
  <2> QED
    BY <1>1, <2>1, <2>3, <2>4 DEF Births
<1>7. ClosedByServerAlone'
  BY <1>0, <1>1 DEF ClosedByServerAlone, TypeOK
<1>8. RowsTellTruth'
  <2>1. \A m : ClosedBy(m)' = ClosedBy(m) /\ CancelerGone(m)' = CancelerGone(m)
    BY <1>1 DEF ClosedBy, CancelerGone
  <2>2. \A b \in Admins : req'[b].step = "log cancel" => req'[b] = req[b]
    BY <1>0 DEF TypeOK
  <2> QED
    BY <1>1, <2>1, <2>2 DEF RowsTellTruth
<1> QED
  BY <1>3, <1>4, <1>5, <1>6, <1>7, <1>8

LEMMA CancelWriteStep == ASSUME IInv, NEW a \in Admins, CancelWrite(a) PROVE IInv'
<1> USE DEF IInv
<1> DEFINE n == req[a].id
           s == Append(closers[n], a)
<1>1. /\ n \in NoticeIds /\ closers[n] # <<NULL>>
      /\ closers' = [closers EXCEPT ![n] = s]
      /\ req' = [req EXCEPT ![a].step = "log cancel"]
      /\ UNCHANGED <<accounts, born, creator, audits, server, starts, targets, closing>>
      /\ server = "up" /\ closing = NULL
  BY IdleFacts DEF CancelWrite, startVars, ClosedByServerAlone, StartIsQuiet
<1>2. s \in Seq(Admins \cup {NULL}) /\ s # << >> /\ s # <<NULL>>
  <2>1. closers[n] \in Seq(Admins \cup {NULL}) /\ a \in Admins \cup {NULL} /\ NULL # a
    BY <1>1, NullAssumption DEF TypeOK
  <2> HIDE DEF n
  <2> QED
    BY <2>1, AppendFacts
<1> HIDE DEF s
<1>3. Open' \subseteq Open
  BY <1>1, <1>2 DEF Open, Exists, TypeOK
<1>4. TypeOK'
  BY <1>1, <1>2 DEF TypeOK, Request
<1>5. AtMostOneOpen'
  BY <1>3 DEF AtMostOneOpen
<1>6. StartIsQuiet'
  BY <1>1 DEF StartIsQuiet
<1>7. Births'
  BY <1>1, <1>3 DEF Births, NoNoticeOutlivesServer
<1>8. ClosedByServerAlone'
  BY <1>1, <1>2 DEF ClosedByServerAlone, TypeOK, Request
<1>9. RowsTellTruth'
  <2>1. \A m \in NoticeIds :
           /\ ClosedBy(m)' = IF m = n THEN ClosedBy(m) \cup {a} ELSE ClosedBy(m)
           /\ closers'[m] = IF m = n THEN s ELSE closers[m]
    <3>1. closers[n] \in Seq(Admins \cup {NULL}) /\ a \in Admins \cup {NULL}
      BY <1>1 DEF TypeOK
    <3>2. Elements(s) = Elements(closers[n]) \cup {a}
      <4> HIDE DEF n
      <4> QED
        BY <3>1, AppendFacts DEF s
    <3>3. \A m \in NoticeIds : closers'[m] = IF m = n THEN s ELSE closers[m]
      BY <1>1 DEF TypeOK
    <3> QED
      BY <3>2, <3>3 DEF ClosedBy, Elements
  <2>2. \A m \in NoticeIds : CancelerGone(m) => CancelerGone(m)'
    BY <1>1, <2>1 DEF CancelerGone
  <2>3. \A m \in NoticeIds : ClosedBy(m) \subseteq ClosedBy(m)'
    BY <2>1
  <2>4. ASSUME NEW m \in NoticeIds, NEW b \in Admins,
               req'[b].step = "log cancel", req'[b].id = m
        PROVE  b \in ClosedBy(m)'
    <3>1. req'[b].id = req[b].id /\ (b # a => req'[b] = req[b])
      BY <1>1 DEF TypeOK, Request
    <3>2. CASE b = a
      BY <1>1, <2>1, <2>4, <3>1, <3>2
    <3>3. CASE b # a
      <4>1. b \in ClosedBy(m)
        BY <2>4, <3>1, <3>3 DEF RowsTellTruth
      <4> QED
        BY <2>3, <4>1
    <3> QED
      BY <3>2, <3>3
  <2>5. ASSUME NEW m \in NoticeIds, NEW b \in Admins, CancelRow(m, b) \in audits'
        PROVE  b \in ClosedBy(m)'
    BY <1>1, <2>3, <2>5 DEF RowsTellTruth
  <2>6. ASSUME NEW m \in NoticeIds, CancelRow(m, NULL) \in audits'
        PROVE  closers'[m] = <<NULL>> \/ CancelerGone(m)'
    <3>1. closers[m] = <<NULL>> \/ CancelerGone(m)
      BY <1>1, <2>6 DEF RowsTellTruth
    <3>2. closers[m] = <<NULL>> => m # n
      BY <1>1
    <3> QED
      BY <2>1, <2>2, <3>1, <3>2
  <2> QED
    BY <2>4, <2>5, <2>6 DEF RowsTellTruth
<1> QED
  BY <1>4, <1>5, <1>6, <1>7, <1>8, <1>9

\* The steps of a request that leave the notices alone.
LEMMA QuietRequestStep ==
    ASSUME IInv, NEW a \in Admins,
           LogCreate(a) \/ CancelRead(a) \/ LogCancel(a) \/ Fail(a)
    PROVE  IInv'
<1> USE DEF IInv
<1>1. UNCHANGED <<accounts, born, creator, closers, server, starts, targets, closing>>
  BY DEF LogCreate, CancelRead, LogCancel, Fail, startVars
<1>2. server = "up"
  BY IdleFacts DEF LogCreate, CancelRead, LogCancel, Fail, StartIsQuiet
<1>3. Open' = Open
  BY <1>1 DEF Open, Exists
<1>4. /\ audits' \subseteq AuditRow
      /\ \A row \in audits' \ audits :
            /\ row.actor = a
            /\ row.action = "SERVER_NOTICE_CANCEL" =>
                  req[a].step = "log cancel" /\ row.target = req[a].id
  <2>1. LogCreate(a) \/ LogCancel(a) => req[a].id \in NoticeIds
    BY DEF LogCreate, LogCancel, ClosedByServerAlone
  <2>2. ASSUME NEW action \in AuditActions, NEW n \in NoticeIds, Log(action, n, a)
        PROVE  /\ audits' \subseteq AuditRow
               /\ \A row \in audits' \ audits :
                     row.action = action /\ row.target = n /\ row.actor = a
    BY <2>2 DEF Log, TypeOK, AuditRow
  <2>3. CASE LogCreate(a)
    BY <2>1, <2>2, <2>3 DEF LogCreate, AuditActions
  <2>4. CASE LogCancel(a)
    BY <2>1, <2>2, <2>4 DEF LogCancel, AuditActions
  <2>5. CASE CancelRead(a) \/ Fail(a)
    BY <2>5 DEF CancelRead, Fail, TypeOK
  <2> QED
    BY <2>3, <2>4, <2>5
<1>6. \/ req' = [req EXCEPT ![a] = Idle]
      \/ \E n \in Open : req' = [req EXCEPT ![a] = [step |-> "cancel", id |-> n]]
  BY DEF LogCreate, CancelRead, LogCancel, Fail
<1>7. TypeOK'
  <2>1. \A n \in Open : [step |-> "cancel", id |-> n] \in Request
    BY DEF Request, Open
  <2>2. req' \in [Admins -> Request]
    <3>1. req \in [Admins -> Request] /\ Idle \in Request
      BY IdleFacts DEF TypeOK
    <3> QED
      BY <1>6, <2>1, <3>1
  <2> QED
    BY <1>1, <1>4, <2>2 DEF TypeOK
<1>8. AtMostOneOpen' /\ StartIsQuiet'
  BY <1>1, <1>2, <1>3 DEF AtMostOneOpen, StartIsQuiet
<1>9. Births'
  BY <1>1, <1>3 DEF Births, NoNoticeOutlivesServer
<1>10. ClosedByServerAlone'
  <2>1. \A n \in Open : closers[n] # <<NULL>>
    <3>1. <<NULL>> # << >>
      OBVIOUS
    <3> QED
      BY <3>1 DEF Open
  <2>2. \A b \in Admins \ {a} : req'[b] = req[b]
    BY <1>6 DEF TypeOK
  <2>3. \/ req'[a] = Idle
        \/ /\ req'[a].step = "cancel"
           /\ req'[a].id \in Open
    BY <1>6 DEF TypeOK
  <2>4. /\ \A b \in Admins : req'[b].step = "cancel" =>
              req'[b].id \in NoticeIds /\ closers[req'[b].id] # <<NULL>>
        /\ \A b \in Admins : req'[b].step \in {"log create", "log cancel"} =>
              req'[b].id \in NoticeIds
    BY <2>1, <2>2, <2>3, IdleFacts DEF ClosedByServerAlone, Open
  <2> QED
    BY <1>1, <2>4 DEF ClosedByServerAlone
<1>11. RowsTellTruth'
  <2>1. \A n : ClosedBy(n)' = ClosedBy(n) /\ CancelerGone(n)' = CancelerGone(n)
    BY <1>1 DEF ClosedBy, CancelerGone
  <2>2. ASSUME NEW n \in NoticeIds, NEW b \in Admins, CancelRow(n, b) \in audits'
        PROVE  b \in ClosedBy(n)
    <3>1. CASE CancelRow(n, b) \in audits
      BY <3>1 DEF RowsTellTruth
    <3>2. CASE CancelRow(n, b) \notin audits
      <4>1. LET row == CancelRow(n, b)
            IN  row.actor = b /\ row.action = "SERVER_NOTICE_CANCEL" /\ row.target = n
        BY DEF CancelRow
      <4>2. b = a /\ req[a].step = "log cancel" /\ req[a].id = n
        BY <1>4, <2>2, <3>2, <4>1
      <4> QED
        BY <4>2 DEF RowsTellTruth
    <3> QED
      BY <3>1, <3>2
  <2>3. \A b \in Admins : req'[b].step = "log cancel" => req'[b] = req[b]
    <3>1. \A b \in Admins : b # a => req'[b] = req[b]
      BY <1>6 DEF TypeOK
    <3>2. req'[a] = Idle \/ req'[a].step = "cancel"
      BY <1>6 DEF TypeOK
    <3> QED
      BY <3>1, <3>2, IdleFacts
  <2>4. \A n \in NoticeIds : CancelRow(n, NULL) \in audits' => CancelRow(n, NULL) \in audits
    <3>1. \A n : CancelRow(n, NULL).actor = NULL
      BY DEF CancelRow
    <3> QED
      BY <1>4, <3>1, NullAssumption
  <2> QED
    BY <1>1, <2>1, <2>2, <2>3, <2>4 DEF RowsTellTruth
<1> QED
  BY <1>7, <1>8, <1>9, <1>10, <1>11

\* A deleted account takes no notice with it.
LEMMA RemoveStep == ASSUME IInv, NEW a \in Admins, Remove(a) PROVE IInv'
<1> USE DEF IInv
<1>1. /\ a \in accounts /\ accounts' = accounts \ {a}
      /\ audits' = {[row EXCEPT !.actor = IF @ = a THEN NULL ELSE @] : row \in audits}
      /\ UNCHANGED <<born, creator, closers, server, starts, targets, closing, req>>
  BY DEF Remove, startVars
<1>2. Open' = Open
  BY <1>1 DEF Open, Exists
<1>3. TypeOK'
  <2>1. \A row \in AuditRow :
           [row EXCEPT !.actor = IF @ = a THEN NULL ELSE @] \in AuditRow
    BY DEF AuditRow
  <2>2. audits' \subseteq AuditRow
    BY <1>1, <2>1 DEF TypeOK
  <2> QED
    BY <1>1, <2>2 DEF TypeOK
<1>4. AtMostOneOpen' /\ StartIsQuiet'
  BY <1>1, <1>2 DEF AtMostOneOpen, StartIsQuiet
<1>5. Births'
  BY <1>1, <1>2 DEF Births, NoNoticeOutlivesServer
<1>6. ClosedByServerAlone'
  BY <1>1 DEF ClosedByServerAlone
<1>7. RowsTellTruth'
  <2>1. \A n : ClosedBy(n)' = ClosedBy(n)
    BY <1>1 DEF ClosedBy
  <2>2. \A n : CancelerGone(n) => CancelerGone(n)'
    BY <1>1, <2>1 DEF CancelerGone
  <2>3. \A n : a \in ClosedBy(n) => CancelerGone(n)'
    BY <1>1, <2>1, NullAssumption DEF CancelerGone
  <2>4. ASSUME NEW n \in NoticeIds, NEW b \in Admins \cup {NULL},
               CancelRow(n, b) \in audits'
        PROVE  CancelRow(n, b) \in audits \/ (b = NULL /\ CancelRow(n, a) \in audits)
    <3>1. PICK row \in audits :
             CancelRow(n, b) = [row EXCEPT !.actor = IF @ = a THEN NULL ELSE @]
      BY <1>1, <2>4
    <3>2. row = [action |-> row.action, target |-> row.target, actor |-> row.actor]
      BY DEF TypeOK, AuditRow
    <3>3. /\ row.action = "SERVER_NOTICE_CANCEL" /\ row.target = n
          /\ b = IF row.actor = a THEN NULL ELSE row.actor
      BY <3>1, <3>2 DEF CancelRow
    <3>4. row = CancelRow(n, row.actor)
      BY <3>2, <3>3 DEF CancelRow
    <3>5. CASE row.actor = a
      BY <3>3, <3>4, <3>5
    <3>6. CASE row.actor # a
      <4>1. b = row.actor
        BY <3>3, <3>6
      <4> QED
        BY <3>4, <4>1
    <3> QED
      BY <3>5, <3>6
  <2>5. \A n \in NoticeIds, b \in Admins : CancelRow(n, b) \in audits' => b \in ClosedBy(n)
    BY <2>4, NullAssumption DEF RowsTellTruth
  <2>6. ASSUME NEW n \in NoticeIds, CancelRow(n, NULL) \in audits'
        PROVE  closers[n] = <<NULL>> \/ CancelerGone(n)'
    <3>1. CASE CancelRow(n, a) \in audits
      BY <2>3, <3>1 DEF RowsTellTruth
    <3>2. CASE CancelRow(n, NULL) \in audits
      BY <2>2, <3>2 DEF RowsTellTruth
    <3> QED
      BY <2>4, <2>6, <3>1, <3>2
  <2> QED
    BY <1>1, <2>1, <2>5, <2>6 DEF RowsTellTruth
<1> QED
  BY <1>3, <1>4, <1>5, <1>6, <1>7

-------------------------------------------------------------------------------
\* The start of the server.

LEMMA HookCloseStep == ASSUME IInv, HookClose PROVE IInv'
<1> USE DEF IInv
<1> PICK n \in targets :
         /\ closers' = [closers EXCEPT ![n] = Append(@, NULL)]
         /\ targets' = targets \ {n}
         /\ closing' = n
  BY DEF HookClose
<1>1. /\ server = "closing" /\ closing = NULL /\ n \in NoticeIds
      /\ n \in Open /\ targets = Open
      /\ UNCHANGED <<accounts, born, creator, audits, server, starts, req>>
  BY DEF HookClose, TypeOK, StartIsQuiet
<1>2. closers' = [closers EXCEPT ![n] = <<NULL>>]
  BY <1>1 DEF Open, TypeOK
<1>3. Open' = Open \ {n}
  BY <1>1, <1>2 DEF Open, Exists, TypeOK
<1>4. TypeOK'
  BY <1>1, <1>2 DEF TypeOK
<1>5. AtMostOneOpen' /\ StartIsQuiet'
  BY <1>1, <1>3 DEF AtMostOneOpen, StartIsQuiet
<1>6. Births'
  BY <1>1, <1>3 DEF Births, NoNoticeOutlivesServer
<1>7. ClosedByServerAlone'
  <2>1. \A a \in Admins : req'[a].step = "idle"
    BY <1>1, IdleFacts DEF StartIsQuiet
  <2>2. closers'[n] = <<NULL>>
    BY <1>1, <1>2 DEF TypeOK
  <2> QED
    BY <2>1, <2>2 DEF ClosedByServerAlone
<1>8. RowsTellTruth'
  <2>1. /\ ClosedBy(n) = {}
        /\ \A m \in NoticeIds \ {n} : closers'[m] = closers[m] /\ ClosedBy(m)' = ClosedBy(m)
        /\ closers'[n] = <<NULL>>
    BY <1>1, <1>2 DEF ClosedBy, Open, TypeOK
  <2>2. \A b \in Admins : req'[b].step # "log cancel"
    BY <1>1, IdleFacts DEF StartIsQuiet
  <2>3. \A m \in NoticeIds \ {n} : CancelerGone(m)' = CancelerGone(m)
    BY <1>1, <2>1 DEF CancelerGone
  <2>4. \A m \in NoticeIds, b \in Admins :
           CancelRow(m, b) \in audits' => b \in ClosedBy(m)'
    BY <1>1, <2>1 DEF RowsTellTruth
  <2>5. \A m \in NoticeIds : CancelRow(m, NULL) \in audits' =>
           closers'[m] = <<NULL>> \/ CancelerGone(m)'
    BY <1>1, <2>1, <2>3 DEF RowsTellTruth
  <2> QED
    BY <2>2, <2>4, <2>5 DEF RowsTellTruth
<1> QED
  BY <1>4, <1>5, <1>6, <1>7, <1>8

LEMMA HookLogStep == ASSUME IInv, HookLog PROVE IInv'
<1> USE DEF IInv
<1>1. /\ closing \in NoticeIds /\ server = "closing"
      /\ closers[closing] = <<NULL>> /\ closing' = NULL
      /\ UNCHANGED <<accounts, born, creator, closers, server, starts, targets, req>>
  BY DEF HookLog, TypeOK, StartIsQuiet, ClosedByServerAlone
<1>2. audits' \subseteq AuditRow
  BY <1>1 DEF HookLog, Log, TypeOK, AuditRow, AuditActions
<1>3. Open' = Open
  BY <1>1 DEF Open, Exists
<1>4. TypeOK'
  BY <1>1, <1>2 DEF TypeOK
<1>5. AtMostOneOpen' /\ StartIsQuiet'
  BY <1>1, <1>3 DEF AtMostOneOpen, StartIsQuiet
<1>6. Births'
  BY <1>1, <1>3 DEF Births, NoNoticeOutlivesServer
<1>7. ClosedByServerAlone'
  BY <1>1, <1>2 DEF ClosedByServerAlone
<1>8. RowsTellTruth'
  <2>1. \A n : ClosedBy(n)' = ClosedBy(n) /\ CancelerGone(n)' = CancelerGone(n)
    BY <1>1 DEF ClosedBy, CancelerGone
  <2>2. audits' = audits \/ audits' = audits \cup {CancelRow(closing, NULL)}
    BY DEF HookLog, Log, CancelRow
  <2>3. \A n \in NoticeIds, a \in Admins : CancelRow(n, a) # CancelRow(closing, NULL)
    BY NullAssumption DEF CancelRow
  <2>4. \A n \in NoticeIds :
           CancelRow(n, NULL) = CancelRow(closing, NULL) => n = closing
    BY DEF CancelRow
  <2>5. \A n \in NoticeIds, a \in Admins :
           CancelRow(n, a) \in audits' => CancelRow(n, a) \in audits
    BY <2>2, <2>3
  <2>6. \A n \in NoticeIds :
           CancelRow(n, NULL) \in audits' => CancelRow(n, NULL) \in audits \/ n = closing
    BY <2>2, <2>4
  <2> QED
    BY <1>1, <2>1, <2>5, <2>6 DEF RowsTellTruth
<1> QED
  BY <1>4, <1>5, <1>6, <1>7, <1>8

\* The steps of the server that write nothing to the database.
LEMMA ServerStep ==
    ASSUME IInv, Start \/ HookRead \/ Listen \/ Die
    PROVE  IInv'
<1> USE DEF IInv
<1>1. UNCHANGED <<accounts, born, creator, closers, audits>>
  BY DEF Start, HookRead, Listen, Die
<1>2. Open' = Open
  BY <1>1 DEF Open, Exists
<1>3. TypeOK'
  <2>1. server' \in {"down", "reading", "closing", "up"} /\ starts' \in Nat
    BY DEF Start, HookRead, Listen, Die, TypeOK
  <2>2. targets' \subseteq NoticeIds /\ closing' \in NoticeIds \cup {NULL}
    BY DEF Start, HookRead, Listen, Die, TypeOK, Leftovers, Open
  <2>3. req' \in [Admins -> Request]
    BY IdleFacts DEF Start, HookRead, Listen, Die, TypeOK
  <2> QED
    BY <1>1, <2>1, <2>2, <2>3 DEF TypeOK
<1>4. AtMostOneOpen' /\ StartIsQuiet'
  BY <1>1, <1>2 DEF AtMostOneOpen, StartIsQuiet, Start, HookRead, Listen, Die, Leftovers
<1>5. Births'
  BY <1>1, <1>2 DEF Births, NoNoticeOutlivesServer, StartIsQuiet, TypeOK,
     Start, HookRead, Listen, Die
<1>6. ClosedByServerAlone'
  <2>1. closing' = NULL
    BY DEF StartIsQuiet, Start, HookRead, Listen, Die
  <2>2. \A a \in Admins : req'[a] = req[a] \/ req'[a] = Idle
    BY DEF Start, HookRead, Listen, Die
  <2> QED
    BY <1>1, <1>2, <2>1, <2>2, IdleFacts DEF ClosedByServerAlone
<1>7. RowsTellTruth'
  <2>1. \A n : ClosedBy(n)' = ClosedBy(n) /\ CancelerGone(n)' = CancelerGone(n)
    BY <1>1 DEF ClosedBy, CancelerGone
  <2>2. \A a \in Admins : req'[a].step = "log cancel" => req'[a] = req[a]
    BY IdleFacts DEF Start, HookRead, Listen, Die
  <2> QED
    BY <1>1, <1>2, <2>1, <2>2 DEF RowsTellTruth
<1> QED
  BY <1>3, <1>4, <1>5, <1>6, <1>7

\* Every step preserves the invariant.
LEMMA NextHolds == IInv /\ [Next]_vars => IInv'
<1> SUFFICES ASSUME IInv, [Next]_vars PROVE IInv'
  OBVIOUS
<1>1. ASSUME NEW a \in Admins, Handler(a) PROVE IInv'
  BY <1>1, CreateStep, CancelWriteStep, QuietRequestStep DEF Handler
<1>2. CASE Start \/ HookRead \/ Listen \/ Die
  BY <1>2, ServerStep
<1>3. CASE HookClose
  BY <1>3, HookCloseStep
<1>4. CASE HookLog
  BY <1>4, HookLogStep
<1>5. CASE UNCHANGED vars
  <2>1. \A n : ClosedBy(n)' = ClosedBy(n) /\ CancelerGone(n)' = CancelerGone(n)
    BY <1>5 DEF vars, ClosedBy, CancelerGone
  <2>2. RowsTellTruth'
    BY <1>5, <2>1 DEF vars, IInv, RowsTellTruth
  <2>3. TypeOK' /\ AtMostOneOpen' /\ StartIsQuiet' /\ Births' /\ ClosedByServerAlone'
    BY <1>5 DEF vars, startVars, IInv, TypeOK, AtMostOneOpen, StartIsQuiet, Births,
       NoNoticeOutlivesServer, ClosedByServerAlone, Open, Exists
  <2> QED
    BY <2>2, <2>3 DEF IInv
<1>6. ASSUME NEW a \in Admins, Remove(a) PROVE IInv'
  BY <1>6, RemoveStep
<1> QED
  BY <1>1, <1>2, <1>3, <1>4, <1>5, <1>6 DEF Next

-------------------------------------------------------------------------------
\* IInv holds in every reachable state.
LEMMA IInvHolds == Spec => []IInv
<1> QED
  BY InitHolds, NextHolds, PTL DEF Spec

(***************************************************************************)
(* Rows and requests keep their types.                                     *)
(***************************************************************************)
THEOREM NoticeTypes == Spec => []TypeOK
<1>1. IInv => TypeOK
  BY DEF IInv
<1> QED
  BY <1>1, IInvHolds, PTL

(***************************************************************************)
(* However many administrators press the button at once, at most one       *)
(* notice is open.                                                         *)
(***************************************************************************)
THEOREM OneNoticeAtATime == Spec => []AtMostOneOpen
<1>1. IInv => AtMostOneOpen
  BY DEF IInv
<1> QED
  BY <1>1, IInvHolds, PTL

(***************************************************************************)
(* However often the server dies while it closes what it finds open, a     *)
(* server that answers requests shows only a notice made since its start.  *)
(***************************************************************************)
THEOREM NoticesDieWithServer == Spec => []NoNoticeOutlivesServer
<1>1. IInv => NoNoticeOutlivesServer
  BY DEF IInv, Births
<1> QED
  BY <1>1, IInvHolds, PTL

(***************************************************************************)
(* A notice listed as closed by a restart was closed by the server alone,  *)
(* unless somebody who canceled it has lost the account.                   *)
(***************************************************************************)
THEOREM RestartReasonHolds == Spec => []RestartReasonUnlessDeleted
<1>1. IInv => RestartReasonUnlessDeleted
  BY DEF IInv, RowsTellTruth, CancelerGone, RestartReasonUnlessDeleted, Reason,
     AutoClosed, CancelRow
<1> QED
  BY <1>1, IInvHolds, PTL

-------------------------------------------------------------------------------
(* What a browser believes (Client)                                        *)

Notice == [id : Nat, at : Nat]
Answer == [step : {"none", "sent", "answered"}, valid : BOOLEAN, expires : Nat, at : Nat]

ClientTyped ==
    /\ now \in Nat /\ tick \in Nat /\ nextPoll \in Nat
    /\ host \in [up : BOOLEAN, session : Nat, notice : Notice]
    /\ me \in [data : [state : {"unknown", "out", "in"}, expires : Nat, serverNow : Nat,
                       received : Nat],
               failed : BOOLEAN]
    /\ call \in Answer /\ extension \in Answer
    /\ active \in [notice : Notice, serverNow : Nat, received : Nat]
    /\ calm \in [quiet : Nat, parted : BOOLEAN]

\* What is known of the notices: an answer that is older than the last change is
\* about to be replaced, and the countdown has been drawn since the time went on.
NoticesKnown ==
    /\ nextPoll <= now + IdlePoll /\ (ShowsApp => nextPoll >= now)
    /\ tick <= now /\ active.received <= now /\ active.serverNow = active.received
    /\ HasNotice /\ calm.quiet > 0 => tick = now \/ active.received = now
    /\ ShowsApp /\ host.up =>
          active.notice = host.notice \/ nextPoll + calm.quiet <= now + IdlePoll

\* An extension that the browser is about to learn of, or never will.
Extending == extension.step = "answered" /\ extension.valid

\* What is known of the session: an answer is as old as the time, and a session
\* that goes on for longer than is known, or is not known, is being asked for.
SessionKnown ==
    /\ call.step = "answered" =>
          /\ call.at = now
          /\ ~call.valid => ~Valid
          /\ call.valid => call.expires >= host.session \/ Extending \/ calm.parted
    /\ extension.step = "answered" =>
          /\ extension.at = now
          /\ ~extension.valid => ~Valid
          /\ extension.valid => extension.expires >= host.session
    /\ me.data.state = "in" =>
          /\ me.data.serverNow = me.data.received /\ me.data.received <= now
          /\ me.data.expires >= host.session \/ Extending \/ calm.parted
    /\ me.data.state = "out" =>
          ~Valid \/ me.failed \/ call.step # "none" \/ Extending \/ calm.parted

CInv == ClientTyped /\ NoticesKnown /\ SessionKnown

USE LengthsAssumption, PollsAssumption

\* The requests of the browser.
LEMMA CallFacts ==
    /\ NoCall \in Answer /\ NoCall.step = "none"
    /\ Sent \in Answer /\ Sent.step = "sent"
BY DEF NoCall, Sent, Answer

\* What it knows before it has asked.
LEMMA KnowFacts ==
    /\ Unknown.state = "unknown" /\ LoggedOut.state = "out"
    /\ NoNotice \in Notice /\ NoActive.notice = NoNotice
    /\ NoActive.serverNow = 0 /\ NoActive.received = 0
    /\ NoActive \in [notice : Notice, serverNow : Nat, received : Nat]
    /\ {Unknown, LoggedOut} \subseteq
          [state : {"unknown", "out", "in"}, expires : Nat, serverNow : Nat, received : Nat]
BY DEF Unknown, LoggedOut, NoNotice, NoActive, Notice

\* A page that is being loaded, or no page at all.
LEMMA ClientBegins == ClientInit \/ NoClient => CInv
<1> SUFFICES ASSUME ClientInit \/ NoClient PROVE CInv
  OBVIOUS
<1>1. ClientTyped
  <2>1. CASE ClientInit
    BY <2>1, CallFacts, KnowFacts DEF ClientInit, ClientTyped
  <2>2. CASE NoClient
    BY <2>2, CallFacts, KnowFacts DEF NoClient, ClientTyped
  <2> QED
    BY <2>1, <2>2
<1>2. NoticesKnown
  BY CallFacts, KnowFacts DEF ClientInit, NoClient, NoticesKnown, ShowsApp, HasNotice
<1>3. SessionKnown
  BY CallFacts, KnowFacts DEF ClientInit, NoClient, SessionKnown, Extending, Valid
<1> QED
  BY <1>1, <1>2, <1>3 DEF CInv

\* What may be known of the user.
Data == [state : {"unknown", "out", "in"}, expires : Nat, serverNow : Nat, received : Nat]

\* A new answer: notices are asked for when somebody is newly logged in.
LEMMA KnowTyped ==
    ASSUME ClientTyped, NEW data \in Data, NEW failed \in BOOLEAN, Know(data, failed)
    PROVE  /\ me' \in [data : Data, failed : BOOLEAN] /\ nextPoll' \in {now, nextPoll}
           /\ me'.data = data /\ me'.failed = failed
           /\ calm' \in [quiet : Nat, parted : BOOLEAN]
           /\ calm'.quiet \in {0, calm.quiet} /\ calm'.parted = calm.parted
           /\ data.state # me.data.state => calm'.quiet = 0
           /\ data.state = me.data.state => nextPoll' = nextPoll
           /\ data.state = "in" /\ me.data.state # "in" => nextPoll' = now
           /\ data.state # "in" => nextPoll' = nextPoll
  BY DEF ClientTyped, Know

\* An answer of the server that names the user.
LEMMA InFacts ==
    ASSUME ClientTyped, NEW expires \in Nat, NEW at \in Nat
    PROVE  /\ In(expires, at) \in Data /\ In(expires, at).state = "in"
           /\ In(expires, at).expires = expires /\ In(expires, at).serverNow = at
           /\ In(expires, at).received = now
  BY DEF ClientTyped, In, Data

\* An answer changes nothing but what is known of the user.
LEMMA NoticesAfterKnow ==
    ASSUME CInv, NEW data \in Data, NEW failed \in BOOLEAN, Know(data, failed),
           UNCHANGED <<now, host, active, tick>>
    PROVE  NoticesKnown'
<1>1. /\ now \in Nat /\ nextPoll \in Nat /\ calm.quiet \in Nat /\ me'.data = data
      /\ tick \in Nat /\ active.received \in Nat
      /\ ClientTyped /\ NoticesKnown
  BY KnowTyped DEF CInv, ClientTyped
<1>2. nextPoll' <= now + IdlePoll /\ (ShowsApp' => nextPoll' >= now)
  BY <1>1, KnowTyped DEF NoticesKnown, ShowsApp
<1>3. HasNotice' /\ calm'.quiet > 0 => tick = now \/ active.received = now
  BY <1>1, KnowTyped DEF NoticesKnown, HasNotice
<1>4. ShowsApp' /\ host.up =>
          active.notice = host.notice \/ nextPoll' + calm'.quiet <= now + IdlePoll
  BY <1>1, <1>2, KnowTyped DEF NoticesKnown, ShowsApp
<1> QED
  BY <1>1, <1>2, <1>3, <1>4 DEF NoticesKnown

\* The steps that change what is known of the user.
LEMMA KnowKeeps ==
    ASSUME CInv, NoAnswer \/ AnswerArrives \/ Unauthorized \/ Expire \/ ExtensionArrives
    PROVE  CInv'
<1>0. /\ ClientTyped /\ NoticesKnown /\ SessionKnown
      /\ me.data \in Data /\ LoggedOut \in Data /\ me.failed \in BOOLEAN
      /\ call \in Answer /\ extension \in Answer
      /\ now \in Nat /\ host.session \in Nat
      /\ me.data.expires \in Nat /\ me.data.received \in Nat /\ me.data.serverNow \in Nat
  BY KnowFacts DEF CInv, ClientTyped, Data
<1>1. ASSUME NEW data \in Data, NEW failed \in BOOLEAN, Know(data, failed),
             UNCHANGED <<now, host, active, tick>>, call' \in Answer, extension' \in Answer,
             SessionKnown'
      PROVE  CInv'
  <2>1. NoticesKnown'
    BY <1>1, NoticesAfterKnow
  <2>2. ClientTyped'
    BY <1>0, <1>1, KnowTyped DEF ClientTyped, Data
  <2> QED
    BY <1>1, <2>1, <2>2 DEF CInv
<1>2. CASE NoAnswer
  <2>1. /\ Know(me.data, TRUE) /\ call' = NoCall
        /\ UNCHANGED <<now, host, active, tick, extension>>
    BY <1>2 DEF NoAnswer
  <2>2. me'.data = me.data /\ me'.failed /\ calm'.parted = calm.parted
    BY <1>0, <2>1, KnowTyped
  <2>3. SessionKnown'
    BY <1>0, <2>1, <2>2, CallFacts DEF SessionKnown, Valid, Extending
  <2> QED
    BY <1>0, <1>1, <2>1, <2>3, CallFacts
<1>3. CASE AnswerArrives
  <2> DEFINE data == IF call.valid THEN In(call.expires, call.at) ELSE LoggedOut
  <2>1. /\ Know(data, FALSE) /\ call' = NoCall /\ call.step = "answered"
        /\ UNCHANGED <<now, host, active, tick, extension>>
    BY <1>3 DEF AnswerArrives
  <2>2. /\ data \in Data
        /\ call.valid => data.state = "in" /\ data.expires = call.expires
                          /\ data.serverNow = call.at /\ data.received = now
        /\ ~call.valid => data.state = "out"
    BY <1>0, InFacts, KnowFacts DEF Answer
  <2> HIDE DEF data
  <2>3. me'.data = data /\ calm'.parted = calm.parted
    BY <1>0, <2>1, <2>2, KnowTyped
  <2>4. call.valid \in BOOLEAN
    BY <1>0 DEF Answer
  <2>5. SessionKnown'
    BY <1>0, <2>1, <2>2, <2>3, <2>4, CallFacts DEF SessionKnown, Valid, Extending
  <2> QED
    BY <1>0, <1>1, <2>1, <2>2, <2>5, CallFacts
<1>4. CASE Unauthorized \/ Expire
  <2>1. /\ Know(LoggedOut, FALSE)
        /\ UNCHANGED <<now, host, active, tick, extension, call>>
        /\ me.data.state = "in"
    BY <1>4 DEF Unauthorized, Expire, ShowsApp
  <2>2. ~Valid \/ Extending \/ calm.parted
    <3>1. CASE Unauthorized
      BY <3>1 DEF Unauthorized
    <3>2. CASE Expire
      <4>1. me.data.expires <= now
        BY <1>0, <2>1, <3>2 DEF Expire, SessionLeft, signedRemainingMsFrom, AtLeast0, SessionKnown
      <4> QED
        BY <1>0, <2>1, <4>1 DEF SessionKnown, Valid
    <3> QED
      BY <1>4, <3>1, <3>2
  <2>3. me'.data = LoggedOut /\ calm'.parted = calm.parted
    BY <1>0, <2>1, KnowTyped
  <2>4. SessionKnown'
    BY <1>0, <2>1, <2>2, <2>3, KnowFacts DEF SessionKnown, Valid, Extending
  <2> QED
    BY <1>0, <1>1, <2>1, <2>4
<1>5. CASE ExtensionArrives
  <2>1. /\ extension' = NoCall /\ extension.step = "answered"
        /\ UNCHANGED <<now, host, active, tick>>
    BY <1>5 DEF ExtensionArrives
  <2>2. extension.valid \in BOOLEAN /\ extension.expires \in Nat /\ extension.at \in Nat
    BY <1>0 DEF Answer
  <2>3. CASE extension.valid
    <3>1. PICK data \in Data :
             /\ Know(data, me.failed)
             /\ data.state = me.data.state
             /\ data.state = "in" => data.expires = extension.expires
                                      /\ data.serverNow = extension.at /\ data.received = now
      <4> DEFINE later == [me.data EXCEPT !.expires = extension.expires,
                                          !.serverNow = extension.at, !.received = now]
      <4>1. Know(IF ShowsApp THEN later ELSE me.data, me.failed)
        BY <1>5, <2>3 DEF ExtensionArrives
      <4>2. /\ later \in Data /\ later.state = me.data.state /\ later.expires = extension.expires
            /\ later.serverNow = extension.at /\ later.received = now
        BY <1>0, <2>2 DEF Data
      <4> HIDE DEF later
      <4> QED
        BY <1>0, <4>1, <4>2 DEF ShowsApp
    <3>2. call' = Sent
      BY <1>5, <2>3 DEF ExtensionArrives
    <3>3. me'.data = data /\ calm'.parted = calm.parted
      BY <1>0, <3>1, KnowTyped
    <3>4. SessionKnown'
      BY <1>0, <2>1, <2>2, <2>3, <3>1, <3>2, <3>3, CallFacts DEF SessionKnown, Valid, Extending
    <3> QED
      BY <1>0, <1>1, <2>1, <3>1, <3>2, <3>4, CallFacts
  <2>4. CASE ~extension.valid
    <3>1. Know(LoggedOut, FALSE) /\ call' = call
      BY <1>5, <2>4 DEF ExtensionArrives
    <3>2. me'.data = LoggedOut /\ calm'.parted = calm.parted
      BY <1>0, <3>1, KnowTyped
    <3>3. ~Valid /\ ~Extending
      BY <1>0, <2>1, <2>4 DEF SessionKnown, Extending
    <3>4. SessionKnown'
      BY <1>0, <2>1, <2>4, <3>1, <3>2, <3>3, CallFacts, KnowFacts DEF SessionKnown, Valid, Extending
    <3> QED
      BY <1>0, <1>1, <2>1, <3>1, <3>4, CallFacts
  <2> QED
    BY <2>2, <2>3, <2>4
<1> QED
  BY <1>2, <1>3, <1>4, <1>5

\* Requests are sent and handled.
LEMMA CallsKeep ==
    ASSUME CInv, Load \/ Retry \/ ServerAnswers \/ Login \/ Logout \/ LogoutFails
    PROVE  CInv'
<1>0. /\ ClientTyped /\ NoticesKnown /\ SessionKnown
      /\ call \in Answer /\ extension \in Answer
      /\ now \in Nat /\ host.session \in Nat /\ me.data.state \in {"unknown", "out", "in"}
  BY DEF CInv, ClientTyped
<1>1. CASE Load
  <2>1. /\ me'.data = Unknown /\ call' = Sent /\ extension' = NoCall /\ active' = NoActive
        /\ tick' = now /\ calm'.quiet = 0 /\ UNCHANGED <<now, host, nextPoll>>
    BY <1>0, <1>1 DEF Load, ClientTyped
  <2>2. ClientTyped'
    BY <1>0, <1>1, CallFacts, KnowFacts DEF Load, ClientTyped
  <2>3. NoticesKnown'
    BY <1>0, <2>1, KnowFacts DEF ClientTyped, NoticesKnown, ShowsApp, HasNotice
  <2>4. SessionKnown'
    BY <2>1, CallFacts, KnowFacts DEF SessionKnown
  <2> QED
    BY <2>2, <2>3, <2>4 DEF CInv
<1>2. CASE Retry
  <2>1. /\ call' = Sent
        /\ UNCHANGED <<now, host, me, extension, active, nextPoll, tick, calm>>
    BY <1>2 DEF Retry
  <2>2. ClientTyped' /\ NoticesKnown'
    BY <1>0, <2>1, CallFacts DEF ClientTyped, NoticesKnown, ShowsApp, HasNotice
  <2>3. SessionKnown'
    BY <1>0, <2>1, CallFacts DEF SessionKnown, Valid, Extending
  <2> QED
    BY <2>2, <2>3 DEF CInv
<1>3. CASE ServerAnswers
  <2>1. UNCHANGED <<now, host, me, extension, active, nextPoll, tick, calm>>
    BY <1>3 DEF ServerAnswers
  <2> DEFINE v == Valid
             end == host.session
  <2>5. v \in BOOLEAN
    BY DEF Valid
  <2>6. call' = [call EXCEPT !.step = "answered", !.valid = v, !.expires = end, !.at = now]
    BY <1>3 DEF ServerAnswers, Handle
  <2>7. end \in Nat
    BY <1>0
  <2> HIDE DEF v, end
  <2>2. /\ call' \in Answer /\ call'.step = "answered" /\ call'.at = now
        /\ call'.valid = v /\ call'.expires = end
    BY <1>0, <2>5, <2>6, <2>7 DEF Answer
  <2>3. ClientTyped' /\ NoticesKnown'
    BY <1>0, <2>1, <2>2 DEF ClientTyped, NoticesKnown, ShowsApp, HasNotice
  <2>4. SessionKnown'
    <3>1. ~Valid' <=> ~Valid
      BY <2>1 DEF Valid
    <3>2. call'.valid <=> Valid
      BY <2>2 DEF v
    <3>3. call'.expires = host.session
      BY <2>2 DEF end
    <3>4. Extending' <=> Extending
      BY <2>1 DEF Extending
    <3> QED
      BY <1>0, <2>1, <2>2, <3>1, <3>2, <3>3, <3>4 DEF SessionKnown
  <2> QED
    BY <2>3, <2>4 DEF CInv
<1>4. CASE Login \/ Logout
  <2>1. /\ call' = Sent /\ UNCHANGED <<now, me, extension, active, nextPoll, tick>>
        /\ \E end \in Nat : host' = [host EXCEPT !.session = end]
    BY <1>0, <1>4 DEF Login, Logout
  <2>2. /\ host'.up = host.up /\ host'.notice = host.notice /\ host'.session \in Nat
        /\ host' \in [up : BOOLEAN, session : Nat, notice : Notice]
    BY <1>0, <2>1 DEF ClientTyped
  <2>3. calm' \in [quiet : Nat, parted : BOOLEAN] /\ calm'.quiet = calm.quiet
    BY <1>0, <1>4 DEF Login, Logout, ClientTyped
  <2>4. ClientTyped' /\ NoticesKnown'
    BY <1>0, <2>1, <2>2, <2>3, CallFacts DEF ClientTyped, NoticesKnown, ShowsApp, HasNotice
  <2>5. SessionKnown'
    <3>1. CASE Login
      <4>1. me.data.state = "out" /\ extension.step = "none"
        BY <3>1, CallFacts DEF Login, ShowsLogin
      <4> QED
        BY <2>1, <4>1, CallFacts DEF SessionKnown
    <3>2. CASE Logout
      <4>1. host'.session = 0 /\ calm' = calm /\ me.data.state = "in"
        BY <1>0, <3>2 DEF Logout, ShowsApp, ClientTyped
      <4>2. extension.step = "answered" => extension.expires >= 0
        BY <1>0 DEF Answer
      <4>3. ~Valid' /\ me.data.expires >= 0
        BY <1>0, <2>1, <4>1 DEF Valid, ClientTyped
      <4> QED
        BY <1>0, <2>1, <4>1, <4>2, <4>3, CallFacts DEF SessionKnown
    <3> QED
      BY <1>4, <3>1, <3>2
  <2> QED
    BY <2>4, <2>5 DEF CInv
<1>5. CASE LogoutFails
  <2>1. /\ me'.data = LoggedOut /\ calm'.quiet = 0 /\ calm'.parted
        /\ UNCHANGED <<now, host, call, extension, active, nextPoll, tick>>
    BY <1>5 DEF LogoutFails
  <2>2. ClientTyped'
    BY <1>0, <1>5, <2>1, KnowFacts DEF LogoutFails, ClientTyped
  <2>3. NoticesKnown'
    BY <1>0, <2>1, KnowFacts DEF NoticesKnown, ShowsApp, HasNotice
  <2>4. SessionKnown'
    BY <1>0, <2>1, KnowFacts DEF SessionKnown, Valid, Extending
  <2> QED
    BY <2>2, <2>3, <2>4 DEF CInv
<1> QED
  BY <1>1, <1>2, <1>3, <1>4, <1>5

\* The session is extended.
LEMMA ExtensionsKeep ==
    ASSUME CInv, Extend \/ ServerExtends \/ ExtensionFails
    PROVE  CInv'
<1>0. /\ ClientTyped /\ NoticesKnown /\ SessionKnown
      /\ call \in Answer /\ extension \in Answer
      /\ now \in Nat /\ host.session \in Nat
  BY DEF CInv, ClientTyped
<1>1. /\ UNCHANGED <<now, me, call, active, nextPoll, tick>>
      /\ calm'.quiet = calm.quiet /\ host'.up = host.up /\ host'.notice = host.notice
  BY <1>0 DEF Extend, ServerExtends, ExtensionFails, ClientTyped
<1>2. ClientTyped'
  <2>1. extension' \in Answer
    <3>1. ASSUME NEW v \in BOOLEAN, NEW end \in Nat
          PROVE  [extension EXCEPT !.step = "answered", !.valid = v, !.expires = end,
                                   !.at = now] \in Answer
      BY <1>0 DEF Answer
    <3>2. Valid \in BOOLEAN /\ now + Lifetime \in Nat
      BY <1>0 DEF Valid
    <3>3. ServerExtends => extension' \in Answer
      BY <3>1, <3>2 DEF ServerExtends
    <3> QED
      BY <3>3, CallFacts DEF Extend, ExtensionFails
  <2>2. host' \in [up : BOOLEAN, session : Nat, notice : Notice]
    BY <1>0 DEF Extend, ServerExtends, ExtensionFails, ClientTyped
  <2>3. calm' \in [quiet : Nat, parted : BOOLEAN]
    BY <1>0 DEF Extend, ServerExtends, ExtensionFails, ClientTyped
  <2> QED
    BY <1>0, <1>1, <2>1, <2>2, <2>3 DEF ClientTyped
<1>3. NoticesKnown'
  BY <1>0, <1>1 DEF NoticesKnown, ShowsApp, HasNotice
<1>4. SessionKnown'
  <2>1. CASE Extend
    <3>1. extension.step = "none" /\ extension'.step = "sent" /\ UNCHANGED <<host, calm>>
      BY <2>1, CallFacts DEF Extend
    <3> QED
      BY <1>0, <1>1, <3>1 DEF SessionKnown, Extending, Valid
  <2>2. CASE ServerExtends
    <3>1. /\ extension'.step = "answered" /\ extension'.valid = Valid
          /\ extension'.expires = now + Lifetime /\ extension'.at = now
          /\ calm' = calm
      BY <1>0, <2>2 DEF ServerExtends, Answer
    <3>2. /\ Valid => host'.session = now + Lifetime
          /\ ~Valid => host' = host
      BY <1>0, <2>2 DEF ServerExtends, ClientTyped
    <3>3. extension.step = "sent"
      BY <2>2 DEF ServerExtends
    <3>4. CASE Valid
      <4>1. Extending' /\ host'.session = now + Lifetime
        BY <3>1, <3>2, <3>4 DEF Extending
      <4> QED
        BY <1>0, <1>1, <3>1, <3>4, <4>1 DEF SessionKnown
    <3>5. CASE ~Valid
      <4>1. ~Valid' /\ ~Extending
        BY <1>0, <1>1, <3>2, <3>3, <3>5 DEF Valid, Extending
      <4> QED
        BY <1>0, <1>1, <3>1, <3>2, <3>5, <4>1 DEF SessionKnown
    <3> QED
      BY <3>4, <3>5
  <2>3. CASE ExtensionFails
    <3>1. extension'.step = "none" /\ host' = host
      BY <2>3, CallFacts DEF ExtensionFails
    <3>2. extension.step = "answered" => calm'.parted
      BY <1>0, <2>3 DEF ExtensionFails, ClientTyped
    <3>3. calm.parted => calm'.parted
      BY <1>0, <2>3 DEF ExtensionFails, ClientTyped
    <3>4. Extending => calm'.parted
      BY <3>2 DEF Extending
    <3> QED
      BY <1>0, <1>1, <3>1, <3>3, <3>4 DEF SessionKnown, Valid
  <2> QED
    BY <2>1, <2>2, <2>3
<1> QED
  BY <1>2, <1>3, <1>4 DEF CInv

\* Notices come, go, are asked for and closed.
LEMMA NoticeStepsKeep ==
    ASSUME CInv, Poll \/ Dismiss \/ Manage \/ LeavePage \/ Announce \/ CancelNotice
    PROVE  CInv'
<1>0. /\ ClientTyped /\ NoticesKnown /\ SessionKnown
      /\ now \in Nat /\ host.session \in Nat /\ nextPoll \in Nat /\ tick \in Nat
      /\ active.received \in Nat
  BY DEF CInv, ClientTyped
<1>1. /\ UNCHANGED <<now, me, call, extension, tick>>
      /\ host'.up = host.up /\ host'.session = host.session
      /\ calm' \in [quiet : Nat, parted : BOOLEAN]
      /\ calm'.parted = calm.parted /\ calm'.quiet \in {0, calm.quiet}
  BY <1>0 DEF Poll, Dismiss, Manage, LeavePage, Announce, CancelNotice, Changes, ClientTyped
<1>2. SessionKnown'
  BY <1>0, <1>1 DEF SessionKnown, Valid, Extending
<1>3. CASE Poll
  <2>1. /\ nextPoll' \in now..(now + IdlePoll) /\ UNCHANGED <<host, calm>> /\ ShowsApp
    BY <1>0, <1>3 DEF Poll
  <2>2. CASE host.up
    <3>1. active' = [notice |-> host.notice, serverNow |-> now, received |-> now]
      BY <1>3, <2>2 DEF Poll
    <3>2. ClientTyped'
      BY <1>0, <1>1, <2>1, <3>1 DEF ClientTyped
    <3>3. NoticesKnown'
      BY <1>0, <1>1, <2>1, <3>1 DEF NoticesKnown, ShowsApp, HasNotice
    <3> QED
      BY <1>2, <3>2, <3>3 DEF CInv
  <2>3. CASE ~host.up
    <3>1. active' = active
      BY <1>3, <2>3 DEF Poll
    <3>2. ClientTyped'
      BY <1>0, <1>1, <2>1, <3>1 DEF ClientTyped
    <3>3. NoticesKnown'
      BY <1>0, <1>1, <2>1, <2>3, <3>1 DEF NoticesKnown, ShowsApp, HasNotice
    <3> QED
      BY <1>2, <3>2, <3>3 DEF CInv
  <2> QED
    BY <2>2, <2>3
<1>4. CASE Dismiss
  <2>1. UNCHANGED <<host, active, nextPoll, calm>>
    BY <1>4 DEF Dismiss
  <2>2. ClientTyped' /\ NoticesKnown'
    BY <1>0, <1>1, <2>1 DEF ClientTyped, NoticesKnown, ShowsApp, HasNotice
  <2> QED
    BY <1>2, <2>2 DEF CInv
<1>5. CASE Manage \/ LeavePage
  <2>1. UNCHANGED <<host, active, calm>> /\ nextPoll' \in {nextPoll, now}
    BY <1>5 DEF Manage, LeavePage
  <2>2. ClientTyped'
    BY <1>0, <1>1, <2>1 DEF ClientTyped
  <2>3. NoticesKnown'
    BY <1>0, <1>1, <2>1 DEF ClientTyped, NoticesKnown, ShowsApp, HasNotice
  <2> QED
    BY <1>2, <2>2, <2>3 DEF CInv
<1>6. CASE Announce \/ CancelNotice
  <2>1. UNCHANGED <<active, nextPoll>> /\ calm'.quiet = 0
    BY <1>0, <1>6 DEF Announce, CancelNotice, Changes, ClientTyped
  <2>2. host' \in [up : BOOLEAN, session : Nat, notice : Notice]
    <3>1. \A notice \in Notice : [host EXCEPT !.notice = notice]
                                    \in [up : BOOLEAN, session : Nat, notice : Notice]
      BY <1>0 DEF ClientTyped
    <3>2. \E notice \in Notice : host' = [host EXCEPT !.notice = notice]
      <4>1. \A at \in {now + NoticeWarning, now + NoticeWarning + 1} :
               [id |-> now + 1, at |-> at] \in Notice
        BY <1>0 DEF Notice
      <4> QED
        BY <1>6, <4>1, KnowFacts DEF Announce, CancelNotice
    <3> QED
      BY <3>1, <3>2
  <2>3. ClientTyped'
    BY <1>0, <1>1, <2>1, <2>2 DEF ClientTyped
  <2>4. NoticesKnown'
    BY <1>0, <1>1, <2>1 DEF NoticesKnown, ShowsApp, HasNotice
  <2> QED
    BY <1>2, <2>3, <2>4 DEF CInv
<1> QED
  BY <1>3, <1>4, <1>5, <1>6

\* The server comes and goes, and the time goes on.
LEMMA SurroundingsKeep ==
    ASSUME CInv, Crash \/ Restart \/ Revoke \/ TimeTicks
    PROVE  CInv'
<1>0. /\ ClientTyped /\ NoticesKnown /\ SessionKnown
      /\ call \in Answer /\ extension \in Answer
      /\ now \in Nat /\ host.session \in Nat /\ nextPoll \in Nat /\ tick \in Nat
      /\ active.received \in Nat /\ calm.quiet \in Nat /\ me.data.received \in Nat
  BY DEF CInv, ClientTyped
<1>1. CASE Crash \/ Restart
  <2>1. /\ UNCHANGED <<now, me, call, extension, active, nextPoll, tick>>
        /\ host'.session = host.session
        /\ calm' \in [quiet : Nat, parted : BOOLEAN]
        /\ calm'.parted = calm.parted /\ calm'.quiet = 0
    <3>1. host'.session = host.session
      BY <1>0, <1>1 DEF Crash, Restart, ClientTyped
    <3>2. calm' = [calm EXCEPT !.quiet = 0]
      BY <1>1 DEF Crash, Restart, Changes
    <3> QED
      BY <1>0, <1>1, <3>1, <3>2 DEF Crash, Restart, ClientTyped
  <2>2. host' \in [up : BOOLEAN, session : Nat, notice : Notice]
    <3>1. /\ host \in [up : BOOLEAN, session : Nat, notice : Notice]
          /\ NoNotice \in Notice
      BY <1>0, KnowFacts DEF ClientTyped
    <3>2. \/ host' = [host EXCEPT !.up = FALSE]
          \/ host' = [host EXCEPT !.up = TRUE, !.notice = NoNotice]
      BY <1>1 DEF Crash, Restart
    <3> QED
      BY <3>1, <3>2
  <2>3. ClientTyped'
    BY <1>0, <2>1, <2>2 DEF ClientTyped
  <2>4. NoticesKnown'
    BY <1>0, <2>1 DEF NoticesKnown, ShowsApp, HasNotice
  <2>5. SessionKnown'
    BY <1>0, <2>1 DEF SessionKnown, Valid, Extending
  <2> QED
    BY <2>3, <2>4, <2>5 DEF CInv
<1>2. CASE Revoke
  <2>1. /\ UNCHANGED <<now, me, call, extension, active, nextPoll, tick, calm>>
        /\ host' \in [up : BOOLEAN, session : Nat, notice : Notice]
        /\ host'.session = 0 /\ host'.up = host.up /\ host'.notice = host.notice
    BY <1>0, <1>2 DEF Revoke, ClientTyped
  <2>2. ClientTyped' /\ NoticesKnown'
    BY <1>0, <2>1 DEF ClientTyped, NoticesKnown, ShowsApp, HasNotice
  <2>3. ~Valid' /\ \A n \in Nat : n >= 0
    BY <1>0, <2>1 DEF Valid
  <2>4. me.data.expires \in Nat /\ call.expires \in Nat /\ extension.expires \in Nat
    BY <1>0 DEF ClientTyped, Answer
  <2>5. SessionKnown'
    BY <1>0, <2>1, <2>3, <2>4 DEF SessionKnown
  <2> QED
    BY <2>2, <2>5 DEF CInv
<1>3. CASE TimeTicks
  <2>1. /\ UNCHANGED <<host, me, call, extension, active, nextPoll>> /\ now' = now + 1
        /\ tick' = IF HasNotice THEN now + 1 ELSE tick
        /\ call.step = "none" /\ extension.step = "none" /\ (ShowsApp => nextPoll > now)
    BY <1>0, <1>3, CallFacts DEF TimeTicks
  <2>2. /\ calm' \in [quiet : Nat, parted : BOOLEAN]
        /\ calm'.parted = calm.parted /\ calm'.quiet \in {calm.quiet, calm.quiet + 1}
    BY <1>0, <1>3 DEF TimeTicks, ClientTyped
  <2>3. ClientTyped'
    BY <1>0, <2>1, <2>2 DEF ClientTyped
  <2>4. NoticesKnown'
    BY <1>0, <2>1, <2>2 DEF NoticesKnown, ShowsApp, HasNotice
  <2>5. SessionKnown'
    BY <1>0, <2>1, <2>2 DEF SessionKnown, Valid, Extending
  <2> QED
    BY <2>3, <2>4, <2>5 DEF CInv
<1> QED
  BY <1>1, <1>2, <1>3

\* Every step of the browser and the server it talks to.
LEMMA ClientKeeps == CInv /\ [ClientNext]_clientVars => CInv'
<1>1. CInv /\ UNCHANGED clientVars => CInv'
  BY DEF clientVars, CInv, ClientTyped, NoticesKnown, SessionKnown, ShowsApp, HasNotice, Valid,
         Extending
<1> QED
  BY <1>1, KnowKeeps, CallsKeep, ExtensionsKeep, NoticeStepsKeep, SurroundingsKeep
     DEF ClientNext, Answers

\* What is known shows on the screen.
LEMMA ClientIsHonest == CInv => ScreenIsHonest
<1> SUFFICES ASSUME CInv PROVE ScreenIsHonest
  OBVIOUS
<1>0. /\ ClientTyped /\ NoticesKnown /\ SessionKnown
      /\ now \in Nat /\ host.session \in Nat /\ nextPoll \in Nat /\ tick \in Nat
      /\ active.received \in Nat /\ calm.quiet \in Nat
      /\ active.notice.at \in Nat /\ host.notice.at \in Nat /\ me.failed \in BOOLEAN
  BY DEF CInv, ClientTyped, Notice
<1>1. ShowsLogin /\ Valid /\ ~calm.parted => call # NoCall \/ extension # NoCall
  BY <1>0, CallFacts DEF ShowsLogin, CannotConnect, SessionKnown, Extending
<1>2. HasNotice /\ calm.quiet > 0 => NoticeLeft = active.notice.at - now
  BY <1>0 DEF NoticesKnown, NoticeLeft, signedRemainingMsFrom, AtLeast0
<1>3. ShowsNotice => ShowsApp
  BY DEF ShowsNotice, HasNotice, ShowsApp
<1>4. ASSUME ShowsApp, host.up, calm.quiet > IdlePoll
      PROVE  active.notice = host.notice
  BY <1>0, <1>4 DEF NoticesKnown
<1>5. ASSUME ShowsApp, host.up, calm.quiet > IdlePoll, host.notice # NoNotice,
             host.notice.at - now < NoticeWarning
      PROVE  \/ ShowsNotice \/ ShowsCard
             \/ dismissed = [id |-> host.notice.id, mark |-> minuteMark(host.notice.at - now)]
  <2>1. active.notice = host.notice /\ HasNotice /\ calm.quiet > 0
    BY <1>0, <1>4, <1>5 DEF HasNotice, ShowsApp
  <2>2. NoticeLeft <= NoticeWarning
    BY <1>0, <1>2, <1>5, <2>1
  <2>3. NoticeLeft = host.notice.at - now
    BY <1>2, <2>1
  <2> QED
    BY <2>1, <2>2, <2>3 DEF ShowsNotice, shouldShowNotice, ShowsCard
<1>6. HasNotice /\ calm.quiet > 0 => NoticeLeft - (active.notice.at - now) \in 0..1
  BY <1>0, <1>2
<1> QED
  BY <1>1, <1>3, <1>4, <1>5, <1>6 DEF ScreenIsHonest

(***************************************************************************)
(* For any lengths of sessions and warnings, and any pace of the enquiries *)
(* (the one for an announced restart no slower than the other): nobody     *)
(* with a session is left at the login screen, the countdown to a restart  *)
(* is right, and a notice is known in time, whatever is lost, late or      *)
(* crashes.  In its last minutes it is in the dialog, or on the page where *)
(* an administrator can call it off, unless it was closed in this minute   *)
(* (auth.ts, sessionCountdown.ts, serverNotice.ts, ServerNoticeDialog.tsx).*)
(***************************************************************************)
THEOREM ScreensAreHonest == MCSpec => []ScreenIsHonest
<1>1. MCInit => CInv
  BY ClientBegins DEF MCInit
<1>2. CInv /\ [MCNext]_noticeAndClientVars => CInv'
  <2>1. [MCNext]_noticeAndClientVars => [ClientNext]_clientVars
    BY DEF MCNext, noticeAndClientVars
  <2> QED
    BY <2>1, ClientKeeps
<1> QED
  BY <1>1, <1>2, ClientIsHonest, PTL DEF MCSpec
===============================================================================
