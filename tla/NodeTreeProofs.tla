---------------------------- MODULE NodeTreeProofs ----------------------------
(***************************************************************************)
(* Proofs about NodeTree, for any number of ids, projects, requests in     *)
(* flight and CSV files.  A lemma about a transaction says that it keeps   *)
(* the inductive invariant and is a step of the ledger.  The second half,  *)
(* from LeastExists on, is about requests that do not overlap.             *)
(***************************************************************************)
EXTENDS MCNodeTree, FiniteSetTheorems, SequenceTheorems, WellFoundedInduction, TLAPS

Table == [NodeIds -> Row \cup {NULL}]

\* Two tables have the same rows, each with the same project, parent and kind.
SameShape(s, t) ==
    \A n \in NodeIds : /\ s[n] = NULL <=> t[n] = NULL
                       /\ s[n] # NULL => /\ s[n].project = t[n].project
                                         /\ s[n].parent = t[n].parent
                                         /\ s[n].kind = t[n].kind

(***************************************************************************)
(* updateMany of sortOrder leaves a table whose rows have the same shape.  *)
(***************************************************************************)
LEMMA ShiftKeepsShape ==
    ASSUME NEW rows \in Table, NEW S \in SUBSET NodeIds, NEW delta \in {-1, 1},
           clock \in Nat,
           \A m \in S : rows[m] # NULL /\ rows[m].sortOrder + delta > 0
    PROVE  /\ Shift(rows, S, delta) \in Table
           /\ SameShape(Shift(rows, S, delta), rows)
  <1> DEFINE t == Shift(rows, S, delta)
  <1>1. ASSUME NEW m \in NodeIds
        PROVE  /\ t[m] \in Row \cup {NULL}
               /\ t[m] = NULL <=> rows[m] = NULL
               /\ t[m] # NULL => /\ t[m].project = rows[m].project
                                 /\ t[m].parent = rows[m].parent
                                 /\ t[m].kind = rows[m].kind
    <2>1. CASE m \in S
      <3>1. rows[m] \in Row
        BY <2>1 DEF Table
      <3>2. t[m] = [rows[m] EXCEPT !.sortOrder = @ + delta, !.updatedAt = clock + 1]
        BY <2>1 DEF Shift
      <3> DEFINE s == rows[m].sortOrder + delta
      <3>5. s \in Nat \ {0} /\ clock + 1 \in Nat
        BY <2>1, <3>1 DEF Row
      <3>6. t[m] = [rows[m] EXCEPT !.sortOrder = s, !.updatedAt = clock + 1]
        BY <3>2
      <3> HIDE DEF s, t
      <3>3. /\ t[m] \in Row
            /\ t[m].project = rows[m].project
            /\ t[m].parent = rows[m].parent
            /\ t[m].kind = rows[m].kind
        BY <3>1, <3>5, <3>6 DEF Row
      <3>4. QED
        BY <2>1, <3>1, <3>3, NoRowAssumption
    <2>2. CASE m \notin S
      BY <2>2 DEF Shift, Table
    <2>3. QED
      BY <2>1, <2>2
  <1>2. t = [m \in NodeIds |-> t[m]]
    BY DEF Shift
  <1>3. QED
    BY <1>1, <1>2 DEF Table, SameShape

(***************************************************************************)
(* Deleting rows: what remains keeps project and kind, and its parent      *)
(* unless that is deleted, in which case it becomes a root.                *)
(***************************************************************************)
LEMMA RemoveKeepsRows ==
    ASSUME NEW rows \in Table, NEW S \in SUBSET NodeIds
    PROVE  /\ Remove(rows, S) \in Table
           /\ \A n \in NodeIds :
                /\ Remove(rows, S)[n] = NULL <=> rows[n] = NULL \/ n \in S
                /\ Remove(rows, S)[n] # NULL =>
                      /\ Remove(rows, S)[n].project = rows[n].project
                      /\ Remove(rows, S)[n].kind = rows[n].kind
                      /\ Remove(rows, S)[n].parent =
                            IF rows[n].parent \in S THEN NULL ELSE rows[n].parent
  <1> DEFINE t == Remove(rows, S)
  <1>1. ASSUME NEW n \in NodeIds
        PROVE  /\ t[n] \in Row \cup {NULL}
               /\ t[n] = NULL <=> rows[n] = NULL \/ n \in S
               /\ t[n] # NULL =>
                      /\ t[n].project = rows[n].project
                      /\ t[n].kind = rows[n].kind
                      /\ t[n].parent = IF rows[n].parent \in S THEN NULL ELSE rows[n].parent
    <2>1. CASE n \in S \/ rows[n] = NULL
      BY <2>1 DEF Remove
    <2>2. CASE n \notin S /\ rows[n] # NULL /\ rows[n].parent \in S
      <3>1. rows[n] \in Row
        BY <2>2 DEF Table
      <3>2. t[n] = [rows[n] EXCEPT !.parent = NULL]
        BY <2>2 DEF Remove
      <3>3. /\ t[n] \in Row
            /\ t[n].project = rows[n].project
            /\ t[n].parent = NULL
            /\ t[n].kind = rows[n].kind
        BY <3>1, <3>2 DEF Row
      <3>4. QED
        BY <2>2, <3>3, NoRowAssumption
    <2>3. CASE n \notin S /\ rows[n] # NULL /\ rows[n].parent \notin S
      BY <2>3 DEF Remove, Table
    <2>4. QED
      BY <2>1, <2>2, <2>3
  <1>2. t = [m \in NodeIds |-> t[m]]
    BY DEF Remove
  <1>3. QED
    BY <1>1, <1>2 DEF Table

(***************************************************************************)
(* writeHistory adds one entry to each node of a set.                      *)
(***************************************************************************)
LEMMA RecordAppends ==
    ASSUME NEW h \in [NodeIds -> Seq(Actions)], NEW S \in SUBSET NodeIds,
           NEW action \in Actions
    PROVE  /\ Record(h, S, action) \in [NodeIds -> Seq(Actions)]
           /\ \A n \in NodeIds :
                 Record(h, S, action)[n] = IF n \in S THEN Append(h[n], action) ELSE h[n]
  BY DEF Record

(***************************************************************************)
(* The three ways in which an entry goes on with the life of a node.       *)
(***************************************************************************)
LEMMA LifeGoesOn ==
    ASSUME NEW h \in Seq(Actions)
    PROVE  /\ h = << >> => TellsLife(Append(h, "CREATE"), TRUE)
           /\ TellsLife(h, TRUE) /\ h # << >> =>
                  /\ TellsLife(Append(h, "UPDATE"), TRUE)
                  /\ TellsLife(Append(h, "MOVE"), TRUE)
                  /\ TellsLife(Append(h, "DELETE"), FALSE)
  <1>1. /\ Len(h) \in Nat
        /\ \A a : Len(Append(h, a)) = Len(h) + 1
        /\ \A a : Append(h, a)[Len(h) + 1] = a
        /\ \A a : \A i \in 1..Len(h) : Append(h, a)[i] = h[i]
        /\ \A a : Append(h, a) # << >>
    BY AppendProperties, LenProperties
  <1>2. QED
    BY <1>1, EmptySeq DEF TellsLife

-------------------------------------------------------------------------------
(***************************************************************************)
(* The inductive invariant.                                                *)
(***************************************************************************)
IInv == TypeOK /\ ParentIsLiveGroup /\ HistoryTellsLife /\ ChecksStayTrue

\* A live node has been created.
LEMMA LiveHasHistory ==
    ASSUME HistoryTellsLife
    PROVE  \A n \in Live : history[n] # << >>
  BY DEF HistoryTellsLife, TellsLife, Live

LEMMA IdleIsHarmless == Idle \in Request /\ CheckStaysTrue(Idle)
  BY DEF Idle, Request, Ops, Steps, CheckStaysTrue, ParentChecked

(***************************************************************************)
(* A read leaves the database alone.                                       *)
(***************************************************************************)
LEMMA GotoKeepsIInv ==
    ASSUME IInv, NEW r \in Requests, NEW state \in Request, CheckStaysTrue(state),
           Goto(r, state)
    PROVE  IInv'
  <1>1. \A q \in Requests : req'[q] = req[q] \/ req'[q] = state
    BY DEF IInv, TypeOK, Goto
  <1>2. Live' = Live
    BY DEF Live, Goto
  <1>3. TypeOK'
    BY DEF IInv, TypeOK, Goto
  <1>4. ParentIsLiveGroup' /\ HistoryTellsLife'
    BY <1>2 DEF IInv, ParentIsLiveGroup, HistoryTellsLife, Goto
  <1>5. ChecksStayTrue'
    <2> SUFFICES ASSUME NEW q \in Requests
                 PROVE  CheckStaysTrue(req[q])'
      BY DEF ChecksStayTrue
    <2>1. CASE req'[q] = req[q]
      <3>1. CheckStaysTrue(req[q])
        BY DEF IInv, ChecksStayTrue
      <3>2. QED
        BY <2>1, <3>1, <1>2 DEF CheckStaysTrue, ParentChecked, Goto
    <2>2. CASE req'[q] = state
      BY <2>2, <1>2 DEF CheckStaysTrue, ParentChecked, Goto
    <2>3. QED
      BY <1>1, <2>1, <2>2
  <1>6. QED
    BY <1>3, <1>4, <1>5 DEF IInv

(***************************************************************************)
(* A transaction keeps the invariant when it never forgets a history,      *)
(* never changes kind or project of a row, tells the life of each node and *)
(* hangs nodes below live GROUPs only.                                     *)
(***************************************************************************)
LEMMA CommitKeepsIInv ==
    ASSUME IInv, NEW r \in Requests, NEW rows \in Table,
           NEW hist \in [NodeIds -> Seq(Actions)], Commit(r, rows, hist),
           \A n \in NodeIds : history[n] # << >> => hist[n] # << >>,
           \A n \in NodeIds : history[n] # << >> /\ rows[n] # NULL =>
               /\ nodes[n] # NULL
               /\ rows[n].project = nodes[n].project
               /\ rows[n].kind = nodes[n].kind,
           \A n \in NodeIds : TellsLife(hist[n], rows[n] # NULL),
           \A n \in NodeIds : rows[n] # NULL /\ rows[n].parent # NULL =>
               /\ rows[rows[n].parent] # NULL
               /\ rows[rows[n].parent].project = rows[n].project
               /\ rows[rows[n].parent].kind = "GROUP"
    PROVE  IInv'
  <1>1. /\ nodes' = rows /\ history' = hist /\ clock' = clock + 1 /\ hung' = hung
        /\ req' = [req EXCEPT ![r] = Idle]
    BY DEF Commit
  <1>2. TypeOK'
    BY <1>1, IdleIsHarmless DEF IInv, TypeOK, Table
  <1>3. \A n : n \in Live' <=> n \in NodeIds /\ rows[n] # NULL
    BY <1>1 DEF Live
  <1>4. ParentIsLiveGroup'
    BY <1>1, <1>3 DEF ParentIsLiveGroup, Table, Row
  <1>5. HistoryTellsLife'
    <2> SUFFICES ASSUME NEW n \in NodeIds
                 PROVE  TellsLife(hist[n], n \in Live')
      BY <1>1 DEF HistoryTellsLife
    <2>1. (n \in Live') = (rows[n] # NULL)
      BY <1>3
    <2>2. QED
      BY <2>1
  <1>6. ChecksStayTrue'
    <2> SUFFICES ASSUME NEW q \in Requests
                 PROVE  CheckStaysTrue(req[q])'
      BY DEF ChecksStayTrue
    <2>1. CASE q = r
      <3>1. req'[q] = Idle
        BY <1>1, <2>1 DEF IInv, TypeOK
      <3>2. QED
        BY <3>1 DEF CheckStaysTrue, ParentChecked, Idle
    <2>2. CASE q # r
      <3>1. req'[q] = req[q] /\ CheckStaysTrue(req[q]) /\ req[q] \in Request
        BY <1>1, <2>2 DEF IInv, ChecksStayTrue, TypeOK
      <3>2. /\ req[q].id # NULL => req[q].id \in NodeIds
            /\ req[q].parent # NULL => req[q].parent \in NodeIds
        BY <3>1 DEF Request
      <3>3. \A n \in NodeIds : history[n] # << >> /\ n \in Live' =>
               /\ n \in Live
               /\ rows[n].project = nodes[n].project
               /\ rows[n].kind = nodes[n].kind
        BY <1>3 DEF Live
      <3> DEFINE a == req[q]
      <3>4. /\ a.op # "none" => a.project \in Projects
            /\ a.op = "create" => a.kind \in Kinds
            /\ a.op \in {"update", "move", "delete"} => a.id \in NodeIds /\ a.old \in Row
            /\ a.op = "move" => a.position > 0
            /\ a.id # NULL => hist[a.id] # << >>
            /\ a.parent # NULL => hist[a.parent] # << >>
        BY <3>1, <3>2 DEF CheckStaysTrue
      <3>5. a.op = "move" /\ a.id \in Live' => rows[a.id].project = a.project
        BY <3>1, <3>3, <1>3, NullAssumption DEF CheckStaysTrue
      <3>6. ParentChecked(a) /\ a.parent \in Live' =>
               rows[a.parent].project = a.project /\ rows[a.parent].kind = "GROUP"
        BY <3>1, <3>3, <1>3, NullAssumption DEF CheckStaysTrue
      <3>7. QED
        BY <1>1, <3>1, <3>4, <3>5, <3>6 DEF CheckStaysTrue, ParentChecked
    <2>3. QED
      BY <2>1, <2>2
  <1>7. QED
    BY <1>2, <1>4, <1>5, <1>6 DEF IInv

-------------------------------------------------------------------------------
(* The reads                                                               *)

LEMMA CreateReadStep == ASSUME IInv, NEW r \in Requests, CreateRead(r) PROVE IInv'
  <1>1. PICK p \in Projects, q \in Live \cup {NULL}, k \in Kinds :
            LET d == IF q = NULL THEN 0 ELSE nodes[q].depth + 1
            IN  /\ q # NULL => nodes[q].project = p /\ nodes[q].kind # "ITEM"
                /\ Goto(r, [Idle EXCEPT !.op = "create", !.step = "commit",
                                        !.project = p, !.parent = q, !.kind = k,
                                        !.newDepth = d])
    BY DEF CreateRead, FitParent
  <1> DEFINE d == IF q = NULL THEN 0 ELSE nodes[q].depth + 1
             s == [Idle EXCEPT !.op = "create", !.step = "commit", !.project = p,
                               !.parent = q, !.kind = k, !.newDepth = d]
  <1>2. Goto(r, s)
    BY <1>1
  <1>3. q # NULL => nodes[q] \in Row /\ q \in NodeIds
    BY DEF IInv, TypeOK, Live
  <1>4. d \in Int
    BY <1>3 DEF Row
  <1> HIDE DEF d
  <1>5. s \in Request
    BY <1>4, IdleIsHarmless DEF Request, Ops, Steps, Live
  <1>6. s.op = "create" /\ s.project = p /\ s.parent = q /\ s.kind = k /\ s.id = NULL
    BY DEF Idle
  <1> HIDE DEF s
  <1>7. q # NULL => nodes[q].kind = "GROUP" /\ history[q] # << >>
    BY <1>1, <1>3, LiveHasHistory DEF IInv, Row, Kinds
  <1>8. CheckStaysTrue(s)
    BY <1>1, <1>6, <1>7, NullAssumption DEF CheckStaysTrue, ParentChecked, Live
  <1>9. QED
    BY <1>2, <1>5, <1>8, GotoKeepsIInv

LEMMA UpdateReadStep == ASSUME IInv, NEW r \in Requests, UpdateRead(r) PROVE IInv'
  <1>1. PICK n \in Live, e \in 0..clock :
            Goto(r, [Idle EXCEPT !.op = "update", !.step = "commit", !.id = n,
                                 !.project = nodes[n].project,
                                 !.expected = e, !.old = nodes[n]])
    BY DEF UpdateRead
  <1> DEFINE s == [Idle EXCEPT !.op = "update", !.step = "commit", !.id = n,
                               !.project = nodes[n].project,
                               !.expected = e, !.old = nodes[n]]
  <1>2. nodes[n] \in Row /\ n \in NodeIds /\ e \in Nat
    BY DEF IInv, TypeOK, Live
  <1>3. nodes[n].project \in Projects
    BY <1>2 DEF Row
  <1>4. s \in Request
    BY <1>2, <1>3, IdleIsHarmless DEF Request, Ops, Steps
  <1>5. /\ s.op = "update" /\ s.project = nodes[n].project /\ s.parent = NULL
        /\ s.id = n /\ s.old = nodes[n]
    BY DEF Idle
  <1>6. Goto(r, s)
    BY <1>1
  <1> HIDE DEF s
  <1>7. CheckStaysTrue(s)
    BY <1>2, <1>3, <1>5, LiveHasHistory DEF CheckStaysTrue, ParentChecked, IInv
  <1>8. QED
    BY <1>4, <1>6, <1>7, GotoKeepsIInv

LEMMA MoveReadTargetStep == ASSUME IInv, NEW r \in Requests, MoveReadTarget(r) PROVE IInv'
  <1>1. PICK n \in Live, e \in 0..clock, q \in Live \cup {NULL},
             position \in 1..Cardinality(NodeIds) :
            Goto(r, [Idle EXCEPT
                        !.op = "move",
                        !.step = IF q = NULL THEN "rows" ELSE "parent",
                        !.id = n, !.project = nodes[n].project, !.parent = q,
                        !.position = position, !.expected = e,
                        !.old = nodes[n]])
    BY DEF MoveReadTarget
  <1> DEFINE step == IF q = NULL THEN "rows" ELSE "parent"
             s == [Idle EXCEPT !.op = "move", !.step = step,
                               !.id = n, !.project = nodes[n].project, !.parent = q,
                               !.position = position, !.expected = e,
                               !.old = nodes[n]]
  <1>2. /\ nodes[n] \in Row /\ n \in NodeIds /\ e \in Nat
        /\ position \in Nat /\ position > 0
        /\ q \in NodeIds \cup {NULL} /\ step \in Steps
    BY FS_CardinalityType, NodeIdsAssumption DEF IInv, TypeOK, Live, Steps
  <1>3. nodes[n].project \in Projects
    BY <1>2 DEF Row
  <1>4. Goto(r, s)
    BY <1>1
  <1>5. q = NULL \/ step = "parent"
    OBVIOUS
  <1> HIDE DEF step
  <1>6. s \in Request
    BY <1>2, <1>3, IdleIsHarmless DEF Request, Ops
  <1>7. /\ s.op = "move" /\ s.project = nodes[n].project /\ s.parent = q
        /\ s.id = n /\ s.old = nodes[n] /\ s.step = step /\ s.position = position
    BY DEF Idle
  <1> HIDE DEF s
  <1>8. q # NULL => q \in Live
    OBVIOUS
  <1>9. CheckStaysTrue(s)
    BY <1>2, <1>3, <1>5, <1>7, <1>8, LiveHasHistory, NullAssumption
    DEF CheckStaysTrue, ParentChecked, IInv, Live
  <1>10. QED
    BY <1>4, <1>6, <1>9, GotoKeepsIInv

LEMMA MoveReadParentStep == ASSUME IInv, NEW r \in Requests, MoveReadParent(r) PROVE IInv'
  <1> DEFINE q == req[r]
             d == nodes[q.parent].depth + 1
             s == [q EXCEPT !.step = "rows", !.newDepth = d]
  <1>1. /\ q \in Request /\ CheckStaysTrue(q) /\ q.op = "move"
        /\ q.parent \in Live /\ nodes[q.parent].project = q.project
        /\ nodes[q.parent].kind # "ITEM" /\ Goto(r, s)
    BY DEF IInv, TypeOK, ChecksStayTrue, MoveReadParent, FitParent, At
  <1>2. nodes[q.parent] \in Row
    BY <1>1 DEF IInv, TypeOK, Live
  <1>3. d \in Int /\ nodes[q.parent].kind = "GROUP"
    BY <1>1, <1>2 DEF Row, Kinds
  <1> HIDE DEF d, q
  <1>4. s \in Request
    BY <1>1, <1>3 DEF Request, Steps
  <1>5. /\ s.op = q.op /\ s.project = q.project /\ s.parent = q.parent
        /\ s.id = q.id /\ s.old = q.old /\ s.kind = q.kind /\ s.position = q.position
    BY <1>1 DEF Request
  <1> HIDE DEF s
  <1>6. CheckStaysTrue(s)
    BY <1>1, <1>3, <1>5 DEF CheckStaysTrue, ParentChecked
  <1>7. QED
    BY <1>1, <1>4, <1>6, GotoKeepsIInv

LEMMA MoveReadRowsStep == ASSUME IInv, NEW r \in Requests, MoveReadRows(r) PROVE IInv'
  <1> DEFINE q == req[r]
             s == [q EXCEPT !.step = "commit", !.subtree = Subtree(q.id)]
  <1>1. /\ q \in Request /\ CheckStaysTrue(q) /\ q.op = "move" /\ q.step = "rows"
        /\ Goto(r, s)
    BY DEF IInv, TypeOK, ChecksStayTrue, MoveReadRows, At
  <1>2. q.id \in NodeIds
    BY <1>1 DEF CheckStaysTrue
  <1>3. Subtree(q.id) \subseteq NodeIds
    BY <1>2 DEF Subtree, Live
  <1> HIDE DEF q
  <1>4. s \in Request
    BY <1>1, <1>3 DEF Request, Steps
  <1>5. /\ s.op = q.op /\ s.project = q.project /\ s.parent = q.parent
        /\ s.id = q.id /\ s.old = q.old /\ s.kind = q.kind /\ s.position = q.position
    BY <1>1 DEF Request
  <1> HIDE DEF s
  <1>6. CheckStaysTrue(s)
    BY <1>1, <1>5 DEF CheckStaysTrue, ParentChecked
  <1>7. QED
    BY <1>1, <1>4, <1>6, GotoKeepsIInv

LEMMA DeleteReadTargetStep ==
    ASSUME IInv, NEW r \in Requests, DeleteReadTarget(r) PROVE IInv'
  <1>1. PICK n \in Live :
            Goto(r, [Idle EXCEPT !.op = "delete", !.step = "rows", !.id = n,
                                 !.project = nodes[n].project, !.old = nodes[n]])
    BY DEF DeleteReadTarget
  <1> DEFINE s == [Idle EXCEPT !.op = "delete", !.step = "rows", !.id = n,
                               !.project = nodes[n].project, !.old = nodes[n]]
  <1>2. nodes[n] \in Row /\ n \in NodeIds
    BY DEF IInv, TypeOK, Live
  <1>3. nodes[n].project \in Projects
    BY <1>2 DEF Row
  <1>4. s \in Request
    BY <1>2, <1>3, IdleIsHarmless DEF Request, Ops, Steps
  <1>5. /\ s.op = "delete" /\ s.project = nodes[n].project /\ s.parent = NULL
        /\ s.id = n /\ s.old = nodes[n]
    BY DEF Idle
  <1>6. Goto(r, s)
    BY <1>1
  <1> HIDE DEF s
  <1>7. CheckStaysTrue(s)
    BY <1>2, <1>3, <1>5, LiveHasHistory DEF CheckStaysTrue, ParentChecked, IInv
  <1>8. QED
    BY <1>4, <1>6, <1>7, GotoKeepsIInv

LEMMA DeleteReadRowsStep ==
    ASSUME IInv, NEW r \in Requests, DeleteReadRows(r) PROVE IInv'
  <1> DEFINE q == req[r]
             s == [q EXCEPT !.step = "commit", !.subtree = Subtree(q.id) \cap Live]
  <1>1. /\ q \in Request /\ CheckStaysTrue(q) /\ q.op = "delete"
        /\ Goto(r, s)
    BY DEF IInv, TypeOK, ChecksStayTrue, DeleteReadRows, DoomedBy, At
  <1>2. Subtree(q.id) \cap Live \in SUBSET NodeIds
    BY DEF Live
  <1> HIDE DEF q
  <1>3. s \in Request
    BY <1>1, <1>2 DEF Request, Steps
  <1>4. /\ s.op = q.op /\ s.project = q.project /\ s.parent = q.parent
        /\ s.id = q.id /\ s.old = q.old /\ s.kind = q.kind /\ s.position = q.position
    BY <1>1 DEF Request
  <1> HIDE DEF s
  <1>5. CheckStaysTrue(s)
    BY <1>1, <1>4 DEF CheckStaysTrue, ParentChecked
  <1>6. QED
    BY <1>1, <1>3, <1>5, GotoKeepsIInv

LEMMA ImportReadStep == ASSUME IInv, NEW r \in Requests, ImportRead(r) PROVE IInv'
  <1>1. PICK p \in Projects, csv \in CsvFiles :
            Goto(r, [Idle EXCEPT !.op = "import", !.step = "commit",
                                 !.project = p, !.csv = csv])
    BY DEF ImportRead
  <1> DEFINE s == [Idle EXCEPT !.op = "import", !.step = "commit",
                               !.project = p, !.csv = csv]
  <1>2. s \in Request
    BY IdleIsHarmless DEF Request, Ops, Steps
  <1>3. s.op = "import" /\ s.project = p /\ s.parent = NULL /\ s.id = NULL
    BY DEF Idle
  <1>4. Goto(r, s)
    BY <1>1
  <1> HIDE DEF s
  <1>5. CheckStaysTrue(s)
    BY <1>3 DEF CheckStaysTrue, ParentChecked
  <1>6. QED
    BY <1>2, <1>4, <1>5, GotoKeepsIInv

-------------------------------------------------------------------------------
(* The ledger                                                              *)

\* What the ledger sees of the tree.
Life    == [n \in NodeIds |-> IF history[n] = << >> THEN "unborn"
                              ELSE IF nodes[n] = NULL THEN "gone" ELSE "live"]
Labels  == [n \in NodeIds |->
              IF nodes[n] = NULL THEN NULL
              ELSE [project |-> nodes[n].project, kind |-> nodes[n].kind]]
Parents == [n \in NodeIds |-> IF nodes[n] = NULL THEN NULL ELSE nodes[n].parent]

LedgerStep == [Ledger!LedgerNext]_(Ledger!vars)

LEMMA LedgerView ==
    /\ \A state : Ledger!In(state) = {n \in NodeIds : Life[n] = state}
    /\ \A born, dead :
          Ledger!Turnover(born, dead) <=>
            /\ born \cup dead # {}
            /\ Life' = [n \in NodeIds |-> IF n \in born THEN "live"
                                          ELSE IF n \in dead THEN "gone" ELSE Life[n]]
            /\ \E lab \in [born -> Ledger!Label] :
                  Labels' = [n \in NodeIds |-> IF n \in born THEN lab[n]
                                               ELSE IF n \in dead THEN NULL ELSE Labels[n]]
            /\ \E par \in [born -> NodeIds \cup {NULL}] :
                  /\ \A n \in born : Ledger!MayHang(Labels', n, par[n])
                  /\ Parents' = [n \in NodeIds |->
                                   IF n \in born THEN par[n]
                                   ELSE IF n \in dead \/ Parents[n] \in dead THEN NULL
                                   ELSE Parents[n]]
    /\ \A n, q :
          Ledger!Rehang(n, q) <=>
            /\ Life[n] = "live"
            /\ Ledger!MayHang(Labels, n, q)
            /\ Parents' = [Parents EXCEPT ![n] = q]
            /\ Life' = Life /\ Labels' = Labels
BY DEF Ledger!In, Ledger!Turnover, Ledger!Rehang, Life, Labels, Parents

\* After a step that keeps the invariant, a node hangs where it may.
LEMMA HangsWell ==
    ASSUME IInv', NEW n \in NodeIds, nodes'[n] # NULL
    PROVE  /\ Ledger!MayHang(Labels', n, nodes'[n].parent)
           /\ Labels'[n] \in Ledger!Label
           /\ nodes'[n].parent \in NodeIds \cup {NULL}
  <1>1. nodes'[n] \in Row
    BY DEF IInv, TypeOK
  <1>2. Labels'[n] = [project |-> nodes'[n].project, kind |-> nodes'[n].kind]
    BY DEF Labels
  <1>3. Labels'[n] \in Ledger!Label
    BY <1>1, <1>2 DEF Row, Kinds, Ledger!Label
  <1>4. ASSUME NEW q, q = nodes'[n].parent, q # NULL
        PROVE  Labels'[q] = [project |-> Labels'[n].project, kind |-> "GROUP"]
    <2>1. /\ q \in NodeIds /\ nodes'[q] # NULL
          /\ nodes'[q].project = nodes'[n].project /\ nodes'[q].kind = "GROUP"
      BY <1>4 DEF IInv, ParentIsLiveGroup, Live
    <2>2. Labels'[q] = [project |-> nodes'[q].project, kind |-> nodes'[q].kind]
      BY <2>1 DEF Labels
    <2>3. QED
      BY <1>2, <2>1, <2>2
  <1>5. QED
    BY <1>1, <1>3, <1>4 DEF Row, Ledger!MayHang

\* The nodes S die and the nodes B are born.
LEMMA LedgerTurnsOver ==
    ASSUME IInv, IInv', NEW S \in SUBSET Live, NEW B \in SUBSET Fresh,
           \A n \in NodeIds \ B :
              /\ nodes'[n] = NULL <=> nodes[n] = NULL \/ n \in S
              /\ nodes'[n] # NULL =>
                    /\ nodes'[n].project = nodes[n].project
                    /\ nodes'[n].kind = nodes[n].kind
                    /\ nodes'[n].parent =
                          IF nodes[n].parent \in S THEN NULL ELSE nodes[n].parent,
           \A n \in B : nodes'[n] # NULL,
           \A n \in NodeIds : history'[n] = << >> <=> history[n] = << >> /\ n \notin B
    PROVE  LedgerStep
  <1>1. /\ \A n \in B : n \in NodeIds /\ history[n] = << >> /\ nodes[n] = NULL
        /\ \A n \in S : n \in NodeIds /\ history[n] # << >> /\ nodes[n] # NULL /\ n \notin B
    BY LiveHasHistory DEF Fresh, IInv, Live
  <1>2. Life' = [n \in NodeIds |-> IF n \in B THEN "live"
                                   ELSE IF n \in S THEN "gone" ELSE Life[n]]
    BY <1>1 DEF Life
  <1>3. Labels' = [n \in NodeIds |-> IF n \in B THEN Labels'[n]
                                     ELSE IF n \in S THEN NULL ELSE Labels[n]]
    BY <1>1 DEF Labels
  <1>4. Parents' = [n \in NodeIds |-> IF n \in B THEN Parents'[n]
                                      ELSE IF n \in S \/ Parents[n] \in S THEN NULL
                                      ELSE Parents[n]]
    BY <1>1 DEF Parents
  <1>5. CASE B \cup S = {}
    <2>1. B = {} /\ S = {}
      BY <1>5
    <2>2. Life' = Life /\ Labels' = Labels /\ Parents' = Parents
      BY <1>2, <1>3, <1>4, <2>1 DEF Life, Labels, Parents
    <2>3. QED
      BY <2>2 DEF LedgerStep, Ledger!vars, Life, Labels, Parents
  <1>6. CASE B \cup S # {}
    <2>1. ASSUME NEW n \in B
          PROVE  /\ Ledger!MayHang(Labels', n, Parents'[n])
                 /\ Labels'[n] \in Ledger!Label
                 /\ Parents'[n] \in NodeIds \cup {NULL}
      <3>1. n \in NodeIds /\ nodes'[n] # NULL
        BY <1>1
      <3>2. Parents'[n] = nodes'[n].parent
        BY <3>1 DEF Parents
      <3>3. QED
        BY <3>1, <3>2, HangsWell
    <2> DEFINE lab == [n \in B |-> Labels'[n]]
               par == [n \in B |-> Parents'[n]]
    <2>2. /\ lab \in [B -> Ledger!Label] /\ par \in [B -> NodeIds \cup {NULL}]
          /\ \A n \in B : lab[n] = Labels'[n] /\ par[n] = Parents'[n]
      BY <2>1
    <2> HIDE DEF lab, par
    <2>3. Ledger!Turnover(B, S)
      <3>1. Labels' = [n \in NodeIds |-> IF n \in B THEN lab[n]
                                         ELSE IF n \in S THEN NULL ELSE Labels[n]]
        BY <1>3, <2>2
      <3>2. /\ \A n \in B : Ledger!MayHang(Labels', n, par[n])
            /\ Parents' = [n \in NodeIds |-> IF n \in B THEN par[n]
                                             ELSE IF n \in S \/ Parents[n] \in S THEN NULL
                                             ELSE Parents[n]]
        BY <1>4, <2>1, <2>2
      <3>3. QED
        BY <1>2, <1>6, <2>2, <3>1, <3>2, LedgerView
    <2>4. B \in SUBSET Ledger!In("unborn") /\ S \in SUBSET Ledger!In("live")
      <3>1. /\ \A n \in B : n \in NodeIds /\ Life[n] = "unborn"
            /\ \A n \in S : n \in NodeIds /\ Life[n] = "live"
        BY <1>1 DEF Life
      <3>2. QED
        BY <3>1, LedgerView
    <2>5. QED
      BY <2>3, <2>4 DEF LedgerStep, Ledger!LedgerNext
  <1>7. QED
    BY <1>5, <1>6

\* Node n hangs below p, where it has perhaps hung before.
LEMMA LedgerRehangs ==
    ASSUME IInv, IInv', NEW n \in Live, NEW p \in NodeIds \cup {NULL},
           \A m \in NodeIds : nodes'[m] = NULL <=> nodes[m] = NULL,
           \A m \in Live : /\ nodes'[m].project = nodes[m].project
                           /\ nodes'[m].kind = nodes[m].kind
                           /\ nodes'[m].parent = IF m = n THEN p ELSE nodes[m].parent,
           \A m \in NodeIds : history'[m] = << >> <=> history[m] = << >>
    PROVE  LedgerStep
  <1>1. n \in NodeIds /\ history[n] # << >> /\ nodes[n] # NULL
    BY LiveHasHistory DEF Live, IInv
  <1>2. Life' = Life
    BY DEF Life
  <1>3. Labels' = Labels
    BY DEF Labels, Live
  <1>4. Parents' = [Parents EXCEPT ![n] = p]
    BY <1>1 DEF Parents, Live
  <1>5. Life[n] = "live"
    BY <1>1 DEF Life
  <1>6. Ledger!MayHang(Labels, n, p)
    <2>1. nodes'[n] # NULL /\ nodes'[n].parent = p
      BY <1>1
    <2>2. Ledger!MayHang(Labels', n, p)
      BY <1>1, <2>1, HangsWell
    <2>3. QED
      BY <1>3, <2>2
  <1>7. Ledger!Rehang(n, p)
    BY <1>2, <1>3, <1>4, <1>5, <1>6, LedgerView
  <1>8. QED
    BY <1>1, <1>7 DEF LedgerStep, Ledger!LedgerNext

-------------------------------------------------------------------------------
(* The transactions                                                        *)

LEMMA CreateCommitStep ==
    ASSUME IInv, NEW r \in Requests, CreateCommit(r) PROVE IInv' /\ LedgerStep
  <1> DEFINE q == req[r]
             siblings == Children(q.project, q.parent)
  <1>1. /\ q \in Request /\ CheckStaysTrue(q) /\ q.op = "create"
        /\ q.parent = NULL \/ q.parent \in Live
    BY DEF IInv, TypeOK, ChecksStayTrue, CreateCommit, ParentThere, At
  <1>2. PICK n \in Fresh, last \in {0} \cup {nodes[m].sortOrder : m \in siblings} :
              Commit(r,
                  [nodes EXCEPT ![n] =
                      [project |-> q.project, parent |-> q.parent,
                       kind |-> q.kind, sortOrder |-> last + 1,
                       depth |-> q.newDepth, updatedAt |-> clock + 1]],
                  Record(history, {n}, "CREATE"))
    BY DEF CreateCommit
  <1> DEFINE order == last + 1
             stamp == clock + 1
             row == [project |-> q.project, parent |-> q.parent,
                     kind |-> q.kind, sortOrder |-> order,
                     depth |-> q.newDepth, updatedAt |-> stamp]
             rows == [nodes EXCEPT ![n] = row]
             hist == Record(history, {n}, "CREATE")
  <1>3. n \in NodeIds /\ history[n] = << >> /\ nodes[n] = NULL
    BY LiveHasHistory DEF Fresh, IInv, Live
  <1>4. order \in Nat \ {0} /\ stamp \in Nat
    <2>1. \A m \in siblings : nodes[m].sortOrder \in Nat
      BY DEF Children, Live, IInv, TypeOK, Row
    <2>2. QED
      BY <2>1 DEF IInv, TypeOK
  <1>5. Commit(r, rows, hist)
    BY <1>2
  <1> HIDE DEF order, stamp, q
  <1>6. row \in Row
    BY <1>1, <1>4 DEF Row, Request, CheckStaysTrue, Live
  <1>7. row.project = q.project /\ row.parent = q.parent /\ row.kind = q.kind
    OBVIOUS
  <1> HIDE DEF row
  <1>8. rows \in Table
    BY <1>6 DEF Table, IInv, TypeOK
  <1>9. rows[n] = row /\ \A m \in NodeIds \ {n} : rows[m] = nodes[m]
    BY <1>3 DEF IInv, TypeOK
  <1> HIDE DEF rows
  <1>10. /\ hist \in [NodeIds -> Seq(Actions)]
         /\ hist[n] = Append(<< >>, "CREATE")
         /\ \A m \in NodeIds \ {n} : hist[m] = history[m]
    BY <1>3 DEF Record, IInv, TypeOK, Actions
  <1> HIDE DEF hist
  <1>11. row # NULL
    BY <1>6, NoRowAssumption
  <1>12. \A m \in NodeIds : TellsLife(hist[m], rows[m] # NULL)
    <2>1. TellsLife(hist[n], TRUE)
      BY <1>3, <1>10, LifeGoesOn DEF IInv, TypeOK
    <2>2. ASSUME NEW m \in NodeIds \ {n} PROVE TellsLife(hist[m], rows[m] # NULL)
      <3>1. TellsLife(history[m], m \in Live)
        BY DEF IInv, HistoryTellsLife
      <3>2. (m \in Live) = (rows[m] # NULL)
        BY <1>9 DEF Live
      <3>3. QED
        BY <1>10, <3>1, <3>2
    <2>3. (rows[n] # NULL) = TRUE
      BY <1>9, <1>11
    <2>4. QED
      BY <2>1, <2>2, <2>3
  <1>13. \A m \in NodeIds : rows[m] # NULL /\ rows[m].parent # NULL =>
               /\ rows[rows[m].parent] # NULL
               /\ rows[rows[m].parent].project = rows[m].project
               /\ rows[rows[m].parent].kind = "GROUP"
    <2>1. q.parent # NULL => /\ q.parent \in NodeIds \ {n}
                             /\ nodes[q.parent].project = q.project
                             /\ nodes[q.parent].kind = "GROUP"
                             /\ nodes[q.parent] # NULL
      BY <1>1, <1>3 DEF CheckStaysTrue, ParentChecked, Live
    <2>2. \A m \in NodeIds \ {n} : nodes[m] # NULL /\ nodes[m].parent # NULL =>
               /\ nodes[m].parent \in NodeIds \ {n}
               /\ nodes[nodes[m].parent] # NULL
               /\ nodes[nodes[m].parent].project = nodes[m].project
               /\ nodes[nodes[m].parent].kind = "GROUP"
      BY <1>3 DEF IInv, ParentIsLiveGroup, Live
    <2>3. QED
      BY <1>7, <1>9, <2>1, <2>2
  <1>14. \A m \in NodeIds : history[m] # << >> => hist[m] # << >>
    BY <1>3, <1>10
  <1>15. \A m \in NodeIds : history[m] # << >> /\ rows[m] # NULL =>
               /\ nodes[m] # NULL
               /\ rows[m].project = nodes[m].project
               /\ rows[m].kind = nodes[m].kind
    BY <1>3, <1>9
  <1>16. IInv'
    BY <1>5, <1>8, <1>10, <1>12, <1>13, <1>14, <1>15, CommitKeepsIInv
  <1>17. LedgerStep
    <2>1. nodes' = rows /\ history' = hist
      BY <1>5 DEF Commit
    <2> DEFINE S == {}
               B == {n}
    <2>2. S \in SUBSET Live /\ B \in SUBSET Fresh /\ \A m : m \notin S /\ (m \in B <=> m = n)
      OBVIOUS
    <2> HIDE DEF S, B
    <2>3. \A m \in NodeIds : hist[m] = << >> <=> history[m] = << >> /\ m \notin B
      <3>1. hist[n] # << >>
        BY <1>10, AppendProperties DEF Actions
      <3>2. QED
        BY <1>3, <1>10, <2>2, <3>1
    <2>4. \A m \in NodeIds \ B :
             /\ nodes'[m] = NULL <=> nodes[m] = NULL \/ m \in S
             /\ nodes'[m] # NULL =>
                   /\ nodes'[m].project = nodes[m].project
                   /\ nodes'[m].kind = nodes[m].kind
                   /\ nodes'[m].parent =
                         IF nodes[m].parent \in S THEN NULL ELSE nodes[m].parent
      BY <1>9, <2>1, <2>2
    <2>5. /\ \A m \in B : nodes'[m] # NULL
          /\ \A m \in NodeIds : history'[m] = << >> <=> history[m] = << >> /\ m \notin B
      BY <1>9, <1>11, <2>1, <2>2, <2>3
    <2>6. QED
      BY <1>16, <2>2, <2>4, <2>5, LedgerTurnsOver
  <1>18. QED
    BY <1>16, <1>17

(***************************************************************************)
(* A transaction that keeps the set of rows, and whose only news is an     *)
(* entry UPDATE or MOVE for node n and perhaps another fit parent for it.  *)
(***************************************************************************)
LEMMA RewriteKeepsIInv ==
    ASSUME IInv, NEW r \in Requests, NEW n \in Live, NEW rows \in Table,
           NEW p \in NodeIds \cup {NULL}, NEW action \in {"UPDATE", "MOVE"},
           Commit(r, rows, Record(history, {n}, action)),
           \A m \in NodeIds : rows[m] = NULL <=> nodes[m] = NULL,
           \A m \in Live : /\ rows[m].project = nodes[m].project
                           /\ rows[m].kind = nodes[m].kind
                           /\ rows[m].parent = IF m = n THEN p ELSE nodes[m].parent,
           p # NULL => /\ p \in Live
                       /\ nodes[p].project = nodes[n].project
                       /\ nodes[p].kind = "GROUP"
    PROVE  IInv' /\ LedgerStep
  <1> DEFINE hist == Record(history, {n}, action)
  <1>1. n \in NodeIds /\ action \in Actions
    BY DEF Live, Actions
  <1>2. /\ hist \in [NodeIds -> Seq(Actions)]
        /\ hist[n] = Append(history[n], action)
        /\ \A m \in NodeIds \ {n} : hist[m] = history[m]
    BY <1>1 DEF Record, IInv, TypeOK
  <1>3. Commit(r, rows, hist)
    OBVIOUS
  <1> HIDE DEF hist
  <1>4. \A m \in NodeIds : TellsLife(hist[m], rows[m] # NULL)
    <2> SUFFICES ASSUME NEW m \in NodeIds PROVE TellsLife(hist[m], rows[m] # NULL)
      OBVIOUS
    <2>1. TellsLife(history[m], m \in Live) /\ history[m] \in Seq(Actions)
      BY DEF IInv, HistoryTellsLife, TypeOK
    <2>2. (m \in Live) = (rows[m] # NULL)
      BY DEF Live
    <2>3. CASE m = n
      <3>1. (rows[m] # NULL) = TRUE /\ (m \in Live) = TRUE
        BY <2>3 DEF Live
      <3>2. TellsLife(history[m], TRUE) /\ history[m] # << >>
        BY <2>1, <2>3, <3>1, LiveHasHistory DEF IInv
      <3>3. TellsLife(Append(history[m], action), TRUE)
        BY <2>1, <3>2, LifeGoesOn
      <3>4. QED
        BY <1>2, <2>3, <3>1, <3>3
    <2>4. CASE m # n
      BY <1>2, <2>1, <2>2, <2>4
    <2>5. QED
      BY <2>3, <2>4
  <1>5. \A m \in NodeIds : history[m] # << >> => hist[m] # << >>
    BY <1>2, AppendProperties DEF IInv, TypeOK
  <1>6. \A m \in NodeIds : rows[m] # NULL /\ rows[m].parent # NULL =>
               /\ rows[rows[m].parent] # NULL
               /\ rows[rows[m].parent].project = rows[m].project
               /\ rows[rows[m].parent].kind = "GROUP"
    <2>1. \A m \in NodeIds : rows[m] # NULL <=> m \in Live
      BY DEF Live
    <2> SUFFICES ASSUME NEW m \in Live, rows[m].parent # NULL
                 PROVE  LET a == rows[m].parent
                        IN  a \in Live /\ rows[a].project = rows[m].project
                                       /\ rows[a].kind = "GROUP"
      BY <2>1 DEF Live
    <2>2. CASE m = n
      BY <2>2
    <2>3. CASE m # n
      BY <2>3 DEF IInv, ParentIsLiveGroup
    <2>4. QED
      BY <2>2, <2>3
  <1>7. \A m \in NodeIds : history[m] # << >> /\ rows[m] # NULL =>
               /\ nodes[m] # NULL
               /\ rows[m].project = nodes[m].project
               /\ rows[m].kind = nodes[m].kind
    BY DEF Live
  <1>8. IInv'
    BY <1>2, <1>3, <1>4, <1>5, <1>6, <1>7, CommitKeepsIInv
  <1>9. LedgerStep
    <2>1. nodes' = rows /\ history' = hist
      BY <1>3 DEF Commit
    <2>2. \A m \in NodeIds : hist[m] = << >> <=> history[m] = << >>
      BY <1>2, <1>5, LiveHasHistory DEF IInv
    <2>3. QED
      BY <1>8, <2>1, <2>2, LedgerRehangs
  <1>10. QED
    BY <1>8, <1>9

LEMMA UpdateCommitStep ==
    ASSUME IInv, NEW r \in Requests, UpdateCommit(r) PROVE IInv' /\ LedgerStep
  <1> DEFINE n == req[r].id
             stamp == clock + 1
             row == [nodes[n] EXCEPT !.updatedAt = stamp]
             rows == [nodes EXCEPT ![n] = row]
  <1>1. n \in Live /\ Commit(r, [nodes EXCEPT ![n].updatedAt = stamp],
                                Record(history, {n}, "UPDATE"))
    BY DEF UpdateCommit
  <1>2. Commit(r, rows, Record(history, {n}, "UPDATE"))
    BY <1>1
  <1>3. nodes[n] \in Row /\ n \in NodeIds /\ nodes \in Table /\ stamp \in Nat
    BY <1>1 DEF IInv, TypeOK, Live, Table
  <1> HIDE DEF n, stamp
  <1>4. row \in Row /\ row.project = nodes[n].project /\ row.kind = nodes[n].kind
        /\ row.parent = nodes[n].parent
    BY <1>3 DEF Row
  <1> HIDE DEF row
  <1>5. rows \in Table /\ rows[n] = row /\ \A m \in NodeIds \ {n} : rows[m] = nodes[m]
    BY <1>3, <1>4 DEF Table
  <1> HIDE DEF rows
  <1> DEFINE p == nodes[n].parent
  <1>6. /\ p \in NodeIds \cup {NULL}
        /\ p # NULL => p \in Live /\ nodes[p].project = nodes[n].project
                                  /\ nodes[p].kind = "GROUP"
    BY <1>1, <1>3 DEF IInv, ParentIsLiveGroup, Row
  <1>7. \A m \in NodeIds : rows[m] = NULL <=> nodes[m] = NULL
    BY <1>3, <1>4, <1>5, NoRowAssumption
  <1>8. \A m \in Live : /\ rows[m].project = nodes[m].project
                        /\ rows[m].kind = nodes[m].kind
                        /\ rows[m].parent = IF m = n THEN p ELSE nodes[m].parent
    BY <1>4, <1>5 DEF Live
  <1> HIDE DEF p
  <1>9. QED
    BY <1>1, <1>2, <1>5, <1>6, <1>7, <1>8, RewriteKeepsIInv

(***************************************************************************)
(* The writes of a move change the parent of the node that moves and       *)
(* nothing else of the shape of the table.                                 *)
(***************************************************************************)
LEMMA MovedKeepsShape ==
    ASSUME IInv, NEW q \in Request, q.id \in Live, q.old \in Row, q.position > 0
    PROVE  /\ Moved(q) \in Table
           /\ \A m \in NodeIds : Moved(q)[m] = NULL <=> nodes[m] = NULL
           /\ \A m \in Live : /\ Moved(q)[m].project = nodes[m].project
                             /\ Moved(q)[m].kind = nodes[m].kind
                             /\ Moved(q)[m].parent =
                                   IF m = q.id THEN q.parent ELSE nodes[m].parent
  <1> DEFINE delta    == q.newDepth - q.old.depth
             closing  == {m \in Siblings(nodes, q.project, q.old.parent, q.id) :
                             nodes[m].sortOrder > q.old.sortOrder}
             closed   == Shift(nodes, closing, -1)
             newSibs  == Siblings(closed, q.project, q.parent, q.id)
             places   == Cardinality(newSibs) + 1
             insertAt == IF q.position <= places THEN q.position ELSE places
             opening  == {m \in newSibs : closed[m].sortOrder >= insertAt}
             opened   == Shift(closed, opening, 1)
             below    == {m \in q.subtree \ {q.id} : delta # 0 /\ opened[m] # NULL}
             stamp    == clock + 1
             moved    == [opened[q.id] EXCEPT !.parent = q.parent, !.sortOrder = insertAt,
                                              !.depth = q.newDepth, !.updatedAt = stamp]
             t        == [m \in NodeIds |->
                            IF m = q.id THEN moved
                            ELSE IF m \in below
                            THEN [opened[m] EXCEPT !.depth = @ + delta, !.updatedAt = stamp]
                            ELSE opened[m]]
  <1>1. t = Moved(q)
    BY DEF Moved, Closing, Descendants, Later
  <1>2. nodes \in Table /\ clock \in Nat /\ stamp \in Nat
    BY DEF IInv, TypeOK, Table
  <1>3. closed \in Table /\ SameShape(closed, nodes)
    <2>1. closing \in SUBSET NodeIds
      BY DEF Siblings
    <2>2. \A m \in closing : nodes[m] # NULL /\ nodes[m].sortOrder + (-1) > 0
      <3> SUFFICES ASSUME NEW m \in closing
                   PROVE  nodes[m] # NULL /\ nodes[m].sortOrder + (-1) > 0
        OBVIOUS
      <3>1. m \in NodeIds /\ nodes[m] # NULL /\ nodes[m].sortOrder > q.old.sortOrder
        BY DEF Siblings
      <3>2. nodes[m] \in Row
        BY <1>2, <3>1 DEF Table
      <3>3. nodes[m].sortOrder \in Nat /\ q.old.sortOrder \in Nat \ {0}
        BY <3>2 DEF Row
      <3>4. QED
        BY <3>1, <3>3
    <2> HIDE DEF closing
    <2>3. QED
      BY <1>2, <2>1, <2>2, ShiftKeepsShape
  <1> HIDE DEF closed
  <1>4. insertAt \in Nat \ {0}
    <2>1. newSibs \subseteq NodeIds
      BY DEF Siblings
    <2>2. Cardinality(newSibs) \in Nat
      BY <2>1, NodeIdsAssumption, FS_Subset, FS_CardinalityType
    <2> HIDE DEF newSibs
    <2>3. QED
      BY <2>2 DEF Request
  <1> HIDE DEF insertAt
  <1>5. opened \in Table /\ SameShape(opened, closed)
    <2>1. opening \in SUBSET NodeIds
      BY DEF Siblings
    <2>2. \A m \in opening : closed[m] # NULL /\ closed[m].sortOrder + 1 > 0
      BY <1>3 DEF Siblings, Table, Row
    <2> HIDE DEF opening
    <2>3. QED
      BY <1>2, <1>3, <2>1, <2>2, ShiftKeepsShape
  <1>6. SameShape(opened, nodes)
    BY <1>3, <1>5 DEF SameShape
  <1> HIDE DEF opened
  <1>7. q.id \in NodeIds /\ opened[q.id] \in Row
    BY <1>5, <1>6 DEF Live, SameShape, Table
  <1>8. /\ moved \in Row /\ moved.project = opened[q.id].project
        /\ moved.kind = opened[q.id].kind /\ moved.parent = q.parent
    BY <1>2, <1>4, <1>7 DEF Row, Request
  <1> HIDE DEF moved
  <1>9. ASSUME NEW m \in below, m \in NodeIds, m # q.id
        PROVE  /\ t[m] \in Row /\ t[m].project = opened[m].project
               /\ t[m].kind = opened[m].kind /\ t[m].parent = opened[m].parent
    <2> DEFINE d == opened[m].depth + delta
               row == [opened[m] EXCEPT !.depth = d, !.updatedAt = stamp]
    <2>1. opened[m] \in Row
      BY <1>5, <1>9 DEF Table
    <2>2. d \in Int
      <3>1. opened[m].depth \in Int /\ q.newDepth \in Int /\ q.old.depth \in Int
        BY <2>1 DEF Row, Request
      <3>2. QED
        BY <3>1
    <2>3. t[m] = row
      BY <1>9
    <2> HIDE DEF d, t
    <2>4. /\ row \in Row /\ row.project = opened[m].project
          /\ row.kind = opened[m].kind /\ row.parent = opened[m].parent
      BY <1>2, <2>1, <2>2 DEF Row
    <2>5. QED
      BY <2>3, <2>4
  <1>10. t[q.id] = moved
    BY <1>7
  <1>11. \A m \in NodeIds : m # q.id /\ m \notin below => t[m] = opened[m]
    OBVIOUS
  <1>12. \A m \in below : (opened[m] # NULL /\ opened[m] \in Row) \/ m \notin NodeIds
    BY <1>5 DEF Table
  <1>13. t = [m \in NodeIds |-> t[m]]
    OBVIOUS
  <1> HIDE DEF t, below
  <1>14. \A m \in NodeIds : t[m] \in Row \cup {NULL}
    BY <1>5, <1>8, <1>9, <1>10, <1>11 DEF Table
  <1>15. \A m \in NodeIds : t[m] = NULL <=> opened[m] = NULL
    BY <1>7, <1>8, <1>9, <1>10, <1>11, <1>12, NoRowAssumption
  <1>16. \A m \in NodeIds : opened[m] # NULL =>
              /\ t[m].project = opened[m].project
              /\ t[m].kind = opened[m].kind
              /\ t[m].parent = IF m = q.id THEN q.parent ELSE opened[m].parent
    BY <1>7, <1>8, <1>9, <1>10, <1>11
  <1>17. QED
    BY <1>1, <1>6, <1>13, <1>14, <1>15, <1>16 DEF SameShape, Table, Live

LEMMA MoveCommitStep ==
    ASSUME IInv, NEW r \in Requests, MoveCommit(r) PROVE IInv' /\ LedgerStep
  <1> DEFINE q == req[r]
  <1>1. /\ q \in Request /\ CheckStaysTrue(q) /\ q.op = "move" /\ q.step = "commit"
        /\ q.id \in Live
        /\ q.parent = NULL \/ q.parent \in Live
        /\ Commit(r, Moved(q), Record(history, {q.id}, "MOVE"))
    BY DEF IInv, TypeOK, ChecksStayTrue, MoveCommit, ParentThere, At
  <1> HIDE DEF q
  <1>2. q.old \in Row /\ q.position > 0 /\ q.parent \in NodeIds \cup {NULL}
    BY <1>1 DEF CheckStaysTrue, Request
  <1>3. q.parent # NULL => /\ q.parent \in Live
                           /\ nodes[q.parent].project = nodes[q.id].project
                           /\ nodes[q.parent].kind = "GROUP"
    BY <1>1 DEF CheckStaysTrue, ParentChecked
  <1>4. QED
    BY <1>1, <1>2, <1>3, MovedKeepsShape, RewriteKeepsIInv

(***************************************************************************)
(* A transaction that deletes the nodes S, creates the nodes B as trees of *)
(* their own and keeps the other rows but for the parents it deletes.      *)
(***************************************************************************)
IsTurnover(rows, hist, S, B) ==
    /\ \A n \in NodeIds \ B :
           /\ rows[n] = NULL <=> nodes[n] = NULL \/ n \in S
           /\ rows[n] # NULL =>
                  /\ rows[n].project = nodes[n].project
                  /\ rows[n].kind = nodes[n].kind
                  /\ rows[n].parent =
                        IF nodes[n].parent \in S THEN NULL ELSE nodes[n].parent
    /\ \A n \in B :
           /\ rows[n] # NULL
           /\ rows[n].parent # NULL =>
                  /\ rows[n].parent \in B
                  /\ rows[rows[n].parent].project = rows[n].project
                  /\ rows[rows[n].parent].kind = "GROUP"
    /\ \A n \in NodeIds :
           hist[n] = IF n \in B THEN Append(history[n], "CREATE")
                     ELSE IF n \in S THEN Append(history[n], "DELETE")
                     ELSE history[n]

LEMMA TurnoverKeepsIInv ==
    ASSUME IInv, NEW r \in Requests, NEW S \in SUBSET Live, NEW B \in SUBSET Fresh,
           NEW rows \in Table, NEW hist \in [NodeIds -> Seq(Actions)],
           Commit(r, rows, hist), IsTurnover(rows, hist, S, B)
    PROVE  IInv' /\ LedgerStep
  <1> USE DEF IsTurnover
  <1>1. \A n \in B : n \in NodeIds /\ history[n] = << >> /\ n \notin Live
    BY LiveHasHistory DEF Fresh, IInv
  <1>2. \A n \in NodeIds : history[n] \in Seq(Actions)
    BY DEF IInv, TypeOK
  <1>3. \A n \in NodeIds : history[n] # << >> => hist[n] # << >>
    <2> SUFFICES ASSUME NEW n \in NodeIds, history[n] # << >> PROVE hist[n] # << >>
      OBVIOUS
    <2>1. Append(history[n], "DELETE") # << >>
      BY <1>2, AppendProperties DEF Actions
    <2>2. QED
      BY <1>1, <2>1
  <1>4. \A n \in NodeIds : history[n] # << >> /\ rows[n] # NULL =>
               /\ nodes[n] # NULL
               /\ rows[n].project = nodes[n].project
               /\ rows[n].kind = nodes[n].kind
    BY <1>1
  <1>5. ASSUME NEW n \in NodeIds PROVE TellsLife(hist[n], rows[n] # NULL)
    <2>1. TellsLife(history[n], n \in Live)
      BY DEF IInv, HistoryTellsLife
    <2>2. CASE n \in B
      <3>1. (rows[n] # NULL) = TRUE
        BY <2>2
      <3>2. TellsLife(Append(history[n], "CREATE"), TRUE)
        BY <1>1, <1>2, <2>2, LifeGoesOn
      <3>3. QED
        BY <2>2, <3>1, <3>2
    <2>3. CASE n \notin B /\ n \in S
      <3>1. (rows[n] # NULL) = FALSE
        BY <2>3
      <3>2. (n \in Live) = TRUE
        BY <2>3
      <3>3. TellsLife(history[n], TRUE)
        BY <2>1, <3>2
      <3>4. history[n] # << >>
        BY <2>3, LiveHasHistory DEF IInv
      <3>5. TellsLife(Append(history[n], "DELETE"), FALSE)
        BY <1>2, <3>3, <3>4, LifeGoesOn
      <3>6. QED
        BY <2>3, <3>1, <3>5
    <2>4. CASE n \notin B /\ n \notin S
      <3>1. (rows[n] # NULL) = (n \in Live)
        BY <2>4 DEF Live
      <3>2. hist[n] = history[n]
        BY <2>4
      <3>3. QED
        BY <2>1, <3>1, <3>2
    <2>5. QED
      BY <2>2, <2>3, <2>4
  <1>6. \A n \in NodeIds : rows[n] # NULL /\ rows[n].parent # NULL =>
               /\ rows[rows[n].parent] # NULL
               /\ rows[rows[n].parent].project = rows[n].project
               /\ rows[rows[n].parent].kind = "GROUP"
    <2> SUFFICES ASSUME NEW n \in NodeIds, rows[n] # NULL, rows[n].parent # NULL
                 PROVE  LET a == rows[n].parent
                        IN  /\ rows[a] # NULL
                            /\ rows[a].project = rows[n].project
                            /\ rows[a].kind = "GROUP"
      OBVIOUS
    <2>1. CASE n \in B
      BY <2>1
    <2>2. CASE n \notin B
      <3> DEFINE a == nodes[n].parent
      <3>1. n \in Live /\ a # NULL /\ a \notin S /\ rows[n].parent = a
        BY <2>2 DEF Live
      <3>2. a \in Live /\ nodes[a].project = nodes[n].project /\ nodes[a].kind = "GROUP"
        BY <3>1 DEF IInv, ParentIsLiveGroup
      <3>3. a \in NodeIds \ B /\ nodes[a] # NULL
        BY <1>1, <3>2 DEF Live
      <3> HIDE DEF a
      <3>4. rows[a] # NULL /\ rows[a].project = nodes[a].project
            /\ rows[a].kind = nodes[a].kind
        BY <3>1, <3>3
      <3>5. QED
        BY <2>2, <3>1, <3>2, <3>4
    <2>3. QED
      BY <2>1, <2>2
  <1>7. IInv'
    BY <1>3, <1>4, <1>5, <1>6, CommitKeepsIInv
  <1>8. LedgerStep
    <2>1. nodes' = rows /\ history' = hist
      BY DEF Commit
    <2>2. \A n \in NodeIds : hist[n] = << >> <=> history[n] = << >> /\ n \notin B
      <3>1. \A n \in B : hist[n] # << >>
        BY <1>1, <1>2, AppendProperties DEF Actions
      <3>2. \A n \in S : history[n] # << >>
        BY LiveHasHistory DEF IInv
      <3>3. QED
        BY <1>3, <3>1, <3>2
    <2>3. \A n \in NodeIds \ B :
             /\ nodes'[n] = NULL <=> nodes[n] = NULL \/ n \in S
             /\ nodes'[n] # NULL =>
                   /\ nodes'[n].project = nodes[n].project
                   /\ nodes'[n].kind = nodes[n].kind
                   /\ nodes'[n].parent =
                         IF nodes[n].parent \in S THEN NULL ELSE nodes[n].parent
      BY <2>1
    <2>4. /\ \A n \in B : nodes'[n] # NULL
          /\ \A n \in NodeIds : history'[n] = << >> <=> history[n] = << >> /\ n \notin B
      BY <2>1, <2>2
    <2>5. QED
      BY <1>7, <2>3, <2>4, LedgerTurnsOver
  <1>9. QED
    BY <1>7, <1>8

LEMMA DeleteCommitStep ==
    ASSUME IInv, NEW r \in Requests, DeleteCommit(r) PROVE IInv' /\ LedgerStep
  <1> DEFINE q == req[r]
             S == q.subtree
             later == {m \in Siblings(nodes, q.project, q.old.parent, NULL) :
                          nodes[m].sortOrder > q.old.sortOrder}
             shifted == Shift(nodes, later, -1)
             rows == Remove(shifted, S)
             hist == Record(history, S, "DELETE")
  <1>1. /\ CheckStaysTrue(q) /\ q.op = "delete"
        /\ S \subseteq Live /\ Commit(r, rows, hist)
    BY DEF IInv, ChecksStayTrue, DeleteCommit, AllThere, Later, At
  <1>2. q.old \in Row /\ nodes \in Table /\ clock \in Nat
    BY <1>1 DEF CheckStaysTrue, IInv, TypeOK, Table
  <1> HIDE DEF q
  <1>3. shifted \in Table /\ SameShape(shifted, nodes)
    <2>1. later \in SUBSET NodeIds
      BY DEF Siblings
    <2>2. \A m \in later : nodes[m] # NULL /\ nodes[m].sortOrder + (-1) > 0
      <3> SUFFICES ASSUME NEW m \in later
                   PROVE  nodes[m] # NULL /\ nodes[m].sortOrder + (-1) > 0
        OBVIOUS
      <3>1. m \in NodeIds /\ nodes[m] # NULL /\ nodes[m].sortOrder > q.old.sortOrder
        BY DEF Siblings
      <3>2. nodes[m].sortOrder \in Nat /\ q.old.sortOrder \in Nat \ {0}
        BY <1>2, <3>1 DEF Row, Table
      <3>3. QED
        BY <3>1, <3>2
    <2> HIDE DEF later
    <2>3. QED
      BY <1>2, <2>1, <2>2, ShiftKeepsShape
  <1>4. S \in SUBSET NodeIds
    BY <1>1 DEF Live
  <1> HIDE DEF shifted, S
  <1>5. /\ rows \in Table
        /\ \A n \in NodeIds :
              /\ rows[n] = NULL <=> shifted[n] = NULL \/ n \in S
              /\ rows[n] # NULL =>
                    /\ rows[n].project = shifted[n].project
                    /\ rows[n].kind = shifted[n].kind
                    /\ rows[n].parent =
                          IF shifted[n].parent \in S THEN NULL ELSE shifted[n].parent
    BY <1>3, <1>4, RemoveKeepsRows
  <1>6. /\ hist \in [NodeIds -> Seq(Actions)]
        /\ \A n \in NodeIds :
              hist[n] = IF n \in S THEN Append(history[n], "DELETE") ELSE history[n]
    BY <1>4, RecordAppends DEF IInv, TypeOK, Actions
  <1> HIDE DEF rows, hist
  <1>7. \A n \in NodeIds :
              /\ rows[n] = NULL <=> nodes[n] = NULL \/ n \in S
              /\ rows[n] # NULL =>
                    /\ rows[n].project = nodes[n].project
                    /\ rows[n].kind = nodes[n].kind
                    /\ rows[n].parent =
                          IF nodes[n].parent \in S THEN NULL ELSE nodes[n].parent
    BY <1>3, <1>5 DEF SameShape
  <1> DEFINE B == {}
  <1>8. B \in SUBSET Fresh /\ \A n : n \notin B
    OBVIOUS
  <1> HIDE DEF B
  <1>9. IsTurnover(rows, hist, S, B)
    BY <1>6, <1>7, <1>8 DEF IsTurnover
  <1>10. S \in SUBSET Live
    BY <1>1
  <1>11. QED
    BY <1>1, <1>5, <1>6, <1>8, <1>9, <1>10, TurnoverKeepsIInv

\* A line of a file is at least the first of its siblings.
LEMMA OrdersFromOne ==
    ASSUME NEW parent, NEW i \in Nat \ {0}
    PROVE  RowSortOrder(parent, i) \in Nat \ {0}
  <1> DEFINE peers == {j \in 1..i : parent[j] = parent[i]}
  <1>1. i \in Nat /\ i \in peers /\ peers \subseteq 1..i
    OBVIOUS
  <1>2. RowSortOrder(parent, i) = Cardinality(peers)
    BY DEF RowSortOrder
  <1> HIDE DEF peers
  <1>3. IsFiniteSet(1..i)
    BY <1>1, FS_Interval
  <1>4. IsFiniteSet(peers)
    BY <1>1, <1>3, FS_Subset
  <1>5. Cardinality(peers) \in Nat /\ Cardinality(peers) # 0
    BY <1>1, <1>4, FS_CardinalityType, FS_EmptySet
  <1> QED
    BY <1>2, <1>5

LEMMA ImportCommitStep ==
    ASSUME IInv, NEW r \in Requests, ImportCommit(r) PROVE IInv' /\ LedgerStep
  <1> DEFINE q      == req[r]
             lines  == 1..Len(q.csv)
             doomed == {n \in Live : nodes[n].project = q.project}
             kept   == Remove(nodes, doomed)
  <1> DEFINE Writes(depth, parent, id) ==
                 LET born    == {id[i] : i \in lines}
                     rowOf(n) == CHOOSE i \in lines : id[i] = n
                     rowFor(i) ==
                         [project |-> q.project,
                          parent |-> IF parent[i] = 0 THEN NULL ELSE id[parent[i]],
                          kind |-> RowKind(parent, i),
                          sortOrder |-> RowSortOrder(parent, i),
                          depth |-> depth[i], updatedAt |-> clock + 1]
                 IN  Commit(r,
                       [n \in NodeIds |->
                          IF n \in born THEN rowFor(rowOf(n)) ELSE kept[n]],
                       Record(Record(history, doomed, "DELETE"), born, "CREATE"))
  <1>1. PICK depth \in [lines -> 0..(MaxTreeDepth - 1)],
             parent \in [lines -> {0} \cup lines], id \in [lines -> Fresh] :
              /\ \A i, j \in lines : id[i] = id[j] => i = j
              /\ Writes(depth, parent, id)
    <2>1. \E depth \in [lines -> 0..(MaxTreeDepth - 1)] :
             /\ IsCorrected(q.csv, depth)
             /\ \E parent \in [lines -> {0} \cup lines], id \in [lines -> Fresh] :
                /\ IsParentage(depth, parent)
                /\ \A i, j \in lines : id[i] = id[j] => i = j
                /\ Writes(depth, parent, id)
      BY Zenon DEF ImportCommit
    <2> HIDE DEF Writes, lines, q
    <2> QED
      BY <2>1
  <1> DEFINE born     == {id[i] : i \in lines}
             rowOf(n) == CHOOSE i \in lines : id[i] = n
             above(i) == IF parent[i] = 0 THEN NULL ELSE id[parent[i]]
             stamp    == clock + 1
             rowFor(i) ==
                 [project |-> q.project, parent |-> above(i),
                  kind |-> RowKind(parent, i), sortOrder |-> RowSortOrder(parent, i),
                  depth |-> depth[i], updatedAt |-> stamp]
             rows == [n \in NodeIds |-> IF n \in born THEN rowFor(rowOf(n)) ELSE kept[n]]
             hist == Record(Record(history, doomed, "DELETE"), born, "CREATE")
  <1>2. Commit(r, rows, hist)
    BY <1>1
  <1>3. /\ nodes \in Table /\ stamp \in Nat
        /\ doomed \in SUBSET Live /\ doomed \in SUBSET NodeIds
        /\ born \in SUBSET Fresh /\ born \in SUBSET NodeIds
    BY <1>1 DEF IInv, TypeOK, Table, Live, Fresh
  <1>4. q.project \in Projects
    BY DEF ImportCommit, At, IInv, ChecksStayTrue, CheckStaysTrue
  <1>5. /\ kept \in Table
        /\ \A n \in NodeIds :
              /\ kept[n] = NULL <=> nodes[n] = NULL \/ n \in doomed
              /\ kept[n] # NULL =>
                    /\ kept[n].project = nodes[n].project
                    /\ kept[n].kind = nodes[n].kind
                    /\ kept[n].parent =
                          IF nodes[n].parent \in doomed THEN NULL ELSE nodes[n].parent
    BY <1>3, RemoveKeepsRows
  <1>6. /\ hist \in [NodeIds -> Seq(Actions)]
        /\ \A n \in NodeIds :
               hist[n] = IF n \in born THEN Append(history[n], "CREATE")
                         ELSE IF n \in doomed THEN Append(history[n], "DELETE")
                         ELSE history[n]
    <2> DEFINE mid == Record(history, doomed, "DELETE")
    <2>3. \A n \in born : n \notin doomed
      BY <1>3, LiveHasHistory DEF Fresh, IInv
    <2> HIDE DEF born, doomed
    <2>1. /\ mid \in [NodeIds -> Seq(Actions)]
          /\ \A n \in NodeIds :
                mid[n] = IF n \in doomed THEN Append(history[n], "DELETE") ELSE history[n]
      BY DEF Record, IInv, TypeOK, Actions
    <2> HIDE DEF mid
    <2>2. /\ Record(mid, born, "CREATE") \in [NodeIds -> Seq(Actions)]
          /\ \A n \in NodeIds :
                Record(mid, born, "CREATE")[n] =
                    IF n \in born THEN Append(mid[n], "CREATE") ELSE mid[n]
      BY <2>1 DEF Record, Actions
    <2>4. hist = Record(mid, born, "CREATE")
      BY DEF mid
    <2> HIDE DEF hist
    <2>5. QED
      BY <2>1, <2>2, <2>3, <2>4
  <1>7. ASSUME NEW i \in lines
        PROVE  above(i) # NULL => parent[i] \in lines /\ above(i) = id[parent[i]]
    BY <1>1
  <1>8. ASSUME NEW i \in lines
        PROVE  /\ rowFor(i) \in Row /\ rowFor(i).project = q.project
               /\ rowFor(i).parent = above(i) /\ rowFor(i).kind = RowKind(parent, i)
    <2>1. above(i) \in NodeIds \cup {NULL}
      BY <1>1, <1>7 DEF Fresh
    <2>2. RowKind(parent, i) \in Kinds
      BY DEF RowKind, Kinds
    <2>3. RowSortOrder(parent, i) \in Nat \ {0}
      <3>1. i \in Nat \ {0}
        OBVIOUS
      <3> QED
        BY <3>1, OrdersFromOne
    <2>4. depth[i] \in Int
      <3>1. depth[i] \in 0..(MaxTreeDepth - 1)
        OBVIOUS
      <3> QED
        BY <3>1, TreeDepthAssumption
    <2>5. QED
      BY <1>3, <1>4, <2>1, <2>2, <2>3, <2>4 DEF Row
  <1>9. ASSUME NEW n \in born PROVE rowOf(n) \in lines /\ id[rowOf(n)] = n
    OBVIOUS
  <1>10. \A n \in born : n \in NodeIds /\ rows[n] = rowFor(rowOf(n))
    BY <1>3
  <1>11. \A n \in NodeIds \ born : rows[n] = kept[n]
    OBVIOUS
  <1>12. rows \in Table
    <2>1. \A n \in NodeIds : rows[n] \in Row \cup {NULL}
      <3> SUFFICES ASSUME NEW n \in NodeIds PROVE rows[n] \in Row \cup {NULL}
        OBVIOUS
      <3>1. CASE n \in born
        BY <1>8, <1>9, <1>10, <3>1
      <3>2. CASE n \notin born
        BY <1>5, <1>11, <3>2 DEF Table
      <3>3. QED
        BY <3>1, <3>2
    <2>2. rows = [n \in NodeIds |-> rows[n]]
      OBVIOUS
    <2> HIDE DEF rows
    <2>3. QED
      BY <2>1, <2>2 DEF Table
  <1>13. \A i \in lines : id[i] \in born /\ rowOf(id[i]) = i
    BY <1>1, <1>9
  <1>14. \A i, j \in lines : parent[i] = j => RowKind(parent, j) = "GROUP"
    BY <1>1 DEF RowKind
  <1> HIDE DEF rows, rowFor, rowOf, born, above, lines
  <1>15. ASSUME NEW n \in born
         PROVE  /\ rows[n] # NULL
                /\ rows[n].parent # NULL =>
                      /\ rows[n].parent \in born
                      /\ rows[rows[n].parent].project = rows[n].project
                      /\ rows[rows[n].parent].kind = "GROUP"
    <2> DEFINE i == rowOf(n)
               j == parent[i]
    <2>1. i \in lines /\ rows[n] = rowFor(i) /\ rowFor(i) \in Row
      BY <1>8, <1>9, <1>10
    <2>2. rows[n] # NULL
      BY <2>1, NoRowAssumption
    <2>3. CASE above(i) = NULL
      BY <1>8, <2>1, <2>2, <2>3
    <2>4. CASE above(i) # NULL
      <3>1. j \in lines /\ above(i) = id[j]
        BY <1>7, <2>1, <2>4
      <3>2. id[j] \in born /\ rows[id[j]] = rowFor(j)
        BY <1>10, <1>13, <3>1
      <3>3. RowKind(parent, j) = "GROUP"
        BY <1>14, <2>1, <3>1
      <3>4. /\ rows[n].parent = id[j] /\ rows[n].project = q.project
            /\ rows[id[j]].project = q.project /\ rows[id[j]].kind = "GROUP"
        BY <1>8, <2>1, <3>1, <3>2, <3>3
      <3>5. QED
        BY <2>2, <3>2, <3>4
    <2>5. QED
      BY <2>3, <2>4
  <1> HIDE DEF hist, doomed, kept
  <1>16. IsTurnover(rows, hist, doomed, born)
    BY <1>5, <1>6, <1>11, <1>15 DEF IsTurnover
  <1>17. QED
    BY <1>2, <1>3, <1>6, <1>12, <1>16, TurnoverKeepsIInv

-------------------------------------------------------------------------------
(* The end of a request                                                    *)

LEMMA FailStep == ASSUME IInv, NEW r \in Requests, Fail(r) PROVE IInv'
  <1>1. Goto(r, Idle)
    BY DEF Fail, Goto
  <1>2. QED
    BY <1>1, IdleIsHarmless, GotoKeepsIInv

\* A step that leaves the database alone and the requests as they are or idle.
LEMMA StandstillKeepsIInv ==
    ASSUME IInv, UNCHANGED <<nodes, history, clock>>, hung' \in BOOLEAN,
           req' = req \/ req' = [r \in Requests |-> Idle]
    PROVE  IInv'
  <1>1. Live' = Live
    BY DEF Live
  <1>2. TypeOK'
    BY IdleIsHarmless DEF IInv, TypeOK
  <1>3. ParentIsLiveGroup' /\ HistoryTellsLife'
    BY <1>1 DEF IInv, ParentIsLiveGroup, HistoryTellsLife
  <1>4. ASSUME NEW r \in Requests PROVE CheckStaysTrue(req[r])'
    <2>1. CASE req' = req
      <3>1. CheckStaysTrue(req[r])
        BY DEF IInv, ChecksStayTrue
      <3>2. QED
        BY <1>1, <2>1, <3>1 DEF CheckStaysTrue, ParentChecked
    <2>2. CASE req' = [s \in Requests |-> Idle]
      <3>1. req'[r] = Idle
        BY <2>2
      <3>2. QED
        BY <3>1 DEF CheckStaysTrue, ParentChecked, Idle
    <2>3. QED
      BY <2>1, <2>2
  <1>5. QED
    BY <1>2, <1>3, <1>4 DEF IInv, ChecksStayTrue

-------------------------------------------------------------------------------
(* The theorems                                                            *)

LEMMA InitIInv == Init => IInv
  <1> SUFFICES ASSUME Init PROVE IInv
    OBVIOUS
  <1>1. TypeOK
    <2>1. << >> \in Seq(Actions) /\ 0 \in Nat
      OBVIOUS
    <2>2. QED
      BY <2>1, IdleIsHarmless DEF Init, TypeOK
  <1>2. Live = {}
    BY DEF Init, Live
  <1>3. ParentIsLiveGroup
    BY <1>2 DEF ParentIsLiveGroup
  <1>4. HistoryTellsLife
    <2> SUFFICES ASSUME NEW n \in NodeIds PROVE TellsLife(<< >>, n \in Live)
      BY DEF Init, HistoryTellsLife
    <2>1. (n \in Live) = FALSE
      BY <1>2
    <2>2. QED
      BY <2>1 DEF TellsLife
  <1>5. ChecksStayTrue
    BY IdleIsHarmless DEF Init, ChecksStayTrue
  <1>6. QED
    BY <1>1, <1>3, <1>4, <1>5 DEF IInv

LEMMA NextIInv == IInv /\ [Next]_vars => IInv'
  <1> SUFFICES ASSUME IInv, [Next]_vars PROVE IInv'
    OBVIOUS
  <1>1. CASE UNCHANGED vars
    BY <1>1, StandstillKeepsIInv DEF vars, IInv, TypeOK
  <1>2. CASE Restart
    BY <1>2, StandstillKeepsIInv DEF Restart
  <1>3. ASSUME NEW r \in Requests, Handler(r) PROVE IInv'
    <2>1. CASE CreateRead(r)
      BY <2>1, CreateReadStep
    <2>2. CASE CreateCommit(r)
      BY <2>2, CreateCommitStep
    <2>3. CASE UpdateRead(r)
      BY <2>3, UpdateReadStep
    <2>4. CASE UpdateCommit(r)
      BY <2>4, UpdateCommitStep
    <2>5. CASE MoveReadTarget(r)
      BY <2>5, MoveReadTargetStep
    <2>6. CASE MoveReadParent(r)
      BY <2>6, MoveReadParentStep
    <2>7. CASE MoveReadRows(r)
      BY <2>7, MoveReadRowsStep
    <2>8. CASE MoveCommit(r)
      BY <2>8, MoveCommitStep
    <2>9. CASE DeleteReadTarget(r)
      BY <2>9, DeleteReadTargetStep
    <2>10. CASE DeleteReadRows(r)
      BY <2>10, DeleteReadRowsStep
    <2>11. CASE DeleteCommit(r)
      BY <2>11, DeleteCommitStep
    <2>12. CASE ImportRead(r)
      BY <2>12, ImportReadStep
    <2>13. CASE ImportCommit(r)
      BY <2>13, ImportCommitStep
    <2>14. CASE Hang(r)
      BY <2>14, StandstillKeepsIInv DEF Hang
    <2>15. CASE Fail(r)
      BY <2>15, FailStep
    <2>16. QED
      BY <1>3, <2>1, <2>2, <2>3, <2>4, <2>5, <2>6, <2>7, <2>8, <2>9, <2>10, <2>11,
         <2>12, <2>13, <2>14, <2>15 DEF Handler
  <1>4. QED
    BY <1>1, <1>2, <1>3 DEF Next

\* Every step is one of the ledger, or none.
LEMMA NextLedger == IInv /\ [Next]_vars => LedgerStep
  <1> SUFFICES ASSUME IInv, [Next]_vars PROVE LedgerStep
    OBVIOUS
  <1>1. ASSUME nodes' = nodes, history' = history PROVE LedgerStep
    BY <1>1 DEF LedgerStep, Ledger!vars
  <1>2. CASE UNCHANGED vars
    BY <1>1, <1>2 DEF vars
  <1>3. CASE Restart
    BY <1>1, <1>3 DEF Restart
  <1>4. ASSUME NEW r \in Requests, Handler(r) PROVE LedgerStep
    <2>1. CASE \/ CreateRead(r) \/ UpdateRead(r) \/ MoveReadTarget(r) \/ MoveReadParent(r)
               \/ MoveReadRows(r) \/ DeleteReadTarget(r) \/ DeleteReadRows(r)
               \/ ImportRead(r) \/ Hang(r) \/ Fail(r)
      <3>1. nodes' = nodes /\ history' = history
        BY <2>1 DEF CreateRead, UpdateRead, MoveReadTarget, MoveReadParent, MoveReadRows,
                    DeleteReadTarget, DeleteReadRows, ImportRead, Hang, Fail, Goto
      <3>2. QED
        BY <1>1, <3>1
    <2>2. CASE \/ CreateCommit(r) \/ UpdateCommit(r) \/ MoveCommit(r)
               \/ DeleteCommit(r) \/ ImportCommit(r)
      BY <2>2, CreateCommitStep, UpdateCommitStep, MoveCommitStep, DeleteCommitStep,
         ImportCommitStep
    <2>3. QED
      BY <1>4, <2>1, <2>2 DEF Handler
  <1>5. QED
    BY <1>2, <1>3, <1>4 DEF Next

LEMMA IInvHolds == Spec => []IInv
  BY InitIInv, NextIInv, PTL DEF Spec

(***************************************************************************)
(* Every table the handlers leave behind is well typed; in particular a    *)
(* sortOrder never falls below 1, however stale the row was from which the *)
(* gap to close was computed (updateMany in move and hardDelete).          *)
(***************************************************************************)
THEOREM NodeTreeTypes == Spec => []TypeOK
  <1>1. IInv => TypeOK
    BY DEF IInv
  <1>2. QED
    BY <1>1, IInvHolds, PTL

(***************************************************************************)
(* The parent of a node always exists, in its project, as a GROUP, though  *)
(* create and move check the parent some awaits before they write.         *)
(***************************************************************************)
THEOREM ParentsStayGroups == Spec => []ParentIsLiveGroup
  <1>1. IInv => ParentIsLiveGroup
    BY DEF IInv
  <1>2. QED
    BY <1>1, IInvHolds, PTL

(***************************************************************************)
(* node_history tells the life of each node, deleted ones included: one    *)
(* CREATE first, at most one DELETE, last.                                 *)
(***************************************************************************)
THEOREM HistoryIsComplete == Spec => []HistoryTellsLife
  <1>1. IInv => HistoryTellsLife
    BY DEF IInv
  <1>2. QED
    BY <1>1, IInvHolds, PTL

(***************************************************************************)
(* What a handler found out about the parent stays true until it commits,  *)
(* or the parent is gone and the foreign key fails.                        *)
(***************************************************************************)
THEOREM StaleChecksHold == Spec => []ChecksStayTrue
  <1>1. IInv => ChecksStayTrue
    BY DEF IInv
  <1>2. QED
    BY <1>1, IInvHolds, PTL

(***************************************************************************)
(* Whatever is in flight, the schedule tree keeps the promises of the      *)
(* ledger: an id lives once, its project and kind are settled at birth,    *)
(* and a transaction of nodes.service.ts turns nodes over or rehangs one.  *)
(***************************************************************************)
THEOREM TreeImplementsLedger == Spec => ImplementsLedger
  <1>1. Init => Ledger!LedgerInit
    BY DEF Init, Ledger!LedgerInit
  <1>2. QED
    BY <1>1, NextLedger, IInvHolds, PTL DEF Spec, LedgerStep, ImplementsLedger,
       Ledger!LedgerSpec

-------------------------------------------------------------------------------
(***************************************************************************)
(* One request at a time: what the runs call the shape of the tree.        *)
(***************************************************************************)

\* A set of naturals has a least element.
LEMMA LeastExists ==
    ASSUME NEW S \in SUBSET Nat, S # {}
    PROVE  \E m \in S : \A k \in S : m <= k
  <1>1. PICK m \in S : \A k \in S : ~ (<<k, m>> \in OpToRel(<, Nat))
    BY WFMin, NatLessThanWellFounded
  <1>2. \A k \in S : <<k, m>> \in OpToRel(<, Nat) <=> k < m
    BY DEF OpToRel
  <1>3. \A k \in S : ~(k < m)
    BY <1>1, <1>2
  <1>4. \A k \in S : k \in Nat /\ m \in Nat
    OBVIOUS
  <1>5. \A k \in S : m <= k
    BY <1>3, <1>4
  <1> QED
    BY <1>5

\* The rows of S are numbered 1, 2, 3...
IsNumbered(rows, S) == {rows[m].sortOrder : m \in S} = 1..Cardinality(S)

\* Rows that are numbered have different numbers.
LEMMA NumbersDiffer ==
    ASSUME NEW rows, NEW S, IsFiniteSet(S), IsNumbered(rows, S),
           NEW x \in S, NEW y \in S, rows[x].sortOrder = rows[y].sortOrder
    PROVE  x = y
  <1> DEFINE n == Cardinality(S)
             f == [m \in S |-> rows[m].sortOrder]
  <1>1. n \in Nat
    BY FS_CardinalityType
  <1>2. IsFiniteSet(1..n) /\ Cardinality(1..n) = n
    BY <1>1, FS_Interval
  <1>3. f \in Surjection(S, 1..n)
    BY DEF IsNumbered, Surjection
  <1>4. f \in Injection(S, 1..n)
    BY <1>2, <1>3, FS_SurjSameCardinalityImpliesInj
  <1> QED
    BY <1>4 DEF Injection, IsInjective

\* A row after the last.
LEMMA NumbersAppend ==
    ASSUME NEW rows, NEW new, NEW S, IsFiniteSet(S), IsNumbered(rows, S), NEW x, x \notin S,
           \A m \in S : new[m].sortOrder = rows[m].sortOrder,
           new[x].sortOrder = Cardinality(S) + 1
    PROVE  IsNumbered(new, S \cup {x})
  <1>1. Cardinality(S) \in Nat /\ Cardinality(S \cup {x}) = Cardinality(S) + 1
    BY FS_CardinalityType, FS_AddElement
  <1>2. {new[m].sortOrder : m \in S \cup {x}} = 1..Cardinality(S) \cup {Cardinality(S) + 1}
    BY DEF IsNumbered
  <1>3. 1..Cardinality(S) \cup {Cardinality(S) + 1} = 1..(Cardinality(S) + 1)
    BY <1>1
  <1> QED
    BY <1>1, <1>2, <1>3 DEF IsNumbered

\* A row leaves, the later ones close the gap.
LEMMA NumbersClose ==
    ASSUME NEW rows, NEW new, NEW S, IsFiniteSet(S), IsNumbered(rows, S), NEW x \in S,
           \A m \in S \ {x} :
               new[m].sortOrder = IF rows[m].sortOrder > rows[x].sortOrder
                                  THEN rows[m].sortOrder - 1 ELSE rows[m].sortOrder
    PROVE  IsNumbered(new, S \ {x})
  <1> DEFINE n == Cardinality(S)
             c == rows[x].sortOrder
  <1>1. n \in Nat /\ Cardinality(S \ {x}) = n - 1
    BY FS_CardinalityType, FS_RemoveElement
  <1>2. \A m \in S : rows[m].sortOrder \in 1..n
    BY DEF IsNumbered
  <1>3. \A m \in S \ {x} : rows[m].sortOrder # c
    BY NumbersDiffer
  <1>4. c \in 1..n
    BY <1>2
  <1>5. \A k \in 1..n : \E m \in S : rows[m].sortOrder = k
    BY DEF IsNumbered
  <1> HIDE DEF n, c
  <1>6. ASSUME NEW m \in S \ {x} PROVE new[m].sortOrder \in 1..(n - 1)
    <2> DEFINE k == rows[m].sortOrder
    <2>1. k \in 1..n /\ k # c
      BY <1>2, <1>3
    <2>2. new[m].sortOrder = IF k > c THEN k - 1 ELSE k
      BY DEF c
    <2> HIDE DEF k
    <2> QED
      BY <1>1, <1>4, <2>1, <2>2
  <1>7. ASSUME NEW k \in 1..(n - 1)
        PROVE  \E m \in S \ {x} : new[m].sortOrder = k
    <2> DEFINE j == IF k < c THEN k ELSE k + 1
    <2>1. j \in 1..n /\ j # c /\ k = IF j > c THEN j - 1 ELSE j
      BY <1>1, <1>4
    <2> HIDE DEF j
    <2>2. PICK m \in S : rows[m].sortOrder = j
      BY <1>5, <2>1
    <2>3. m \in S \ {x}
      BY <2>1, <2>2 DEF c
    <2>4. new[m].sortOrder = k
      BY <2>1, <2>2, <2>3 DEF c
    <2> QED
      BY <2>3, <2>4
  <1>8. {new[m].sortOrder : m \in S \ {x}} = 1..(n - 1)
    BY <1>6, <1>7
  <1> QED
    BY <1>1, <1>8 DEF IsNumbered

\* A row comes in, those from its place on make room.
LEMMA NumbersOpen ==
    ASSUME NEW rows, NEW new, NEW S, IsFiniteSet(S), IsNumbered(rows, S), NEW x, x \notin S,
           NEW place \in 1..(Cardinality(S) + 1), new[x].sortOrder = place,
           \A m \in S : new[m].sortOrder = IF rows[m].sortOrder >= place
                                           THEN rows[m].sortOrder + 1 ELSE rows[m].sortOrder
    PROVE  IsNumbered(new, S \cup {x})
  <1> DEFINE n == Cardinality(S)
  <1>1. n \in Nat /\ Cardinality(S \cup {x}) = n + 1
    BY FS_CardinalityType, FS_AddElement
  <1>2. \A m \in S : rows[m].sortOrder \in 1..n
    BY DEF IsNumbered
  <1>5. \A k \in 1..n : \E m \in S : rows[m].sortOrder = k
    BY DEF IsNumbered
  <1>4. place \in 1..(n + 1)
    OBVIOUS
  <1> HIDE DEF n
  <1>6. ASSUME NEW m \in S \cup {x} PROVE new[m].sortOrder \in 1..(n + 1)
    <2>1. CASE m \in S
      <3> DEFINE k == rows[m].sortOrder
      <3>1. k \in 1..n
        BY <1>2, <2>1
      <3>2. new[m].sortOrder = IF k >= place THEN k + 1 ELSE k
        BY <2>1
      <3> HIDE DEF k
      <3> QED
        BY <1>1, <1>4, <3>1, <3>2
    <2>2. CASE m = x
      BY <1>4, <2>2
    <2> QED
      BY <2>1, <2>2
  <1>7. ASSUME NEW k \in 1..(n + 1)
        PROVE  \E m \in S \cup {x} : new[m].sortOrder = k
    <2>1. CASE k = place
      BY <2>1
    <2>2. CASE k # place
      <3> DEFINE j == IF k < place THEN k ELSE k - 1
      <3>1. j \in 1..n /\ k = IF j >= place THEN j + 1 ELSE j
        BY <1>1, <1>4, <2>2
      <3> HIDE DEF j
      <3>2. PICK m \in S : rows[m].sortOrder = j
        BY <1>5, <3>1
      <3>3. new[m].sortOrder = k
        BY <3>1, <3>2
      <3> QED
        BY <3>3
    <2> QED
      BY <2>1, <2>2
  <1>8. {new[m].sortOrder : m \in S \cup {x}} = 1..(n + 1)
    BY <1>6, <1>7
  <1> QED
    BY <1>1, <1>8 DEF IsNumbered

-------------------------------------------------------------------------------
(***************************************************************************)
(* What is below a node: the node, the children of all that is below, and  *)
(* nothing whose parent is not below.                                      *)
(***************************************************************************)
LEMMA SubtreeFacts ==
    ASSUME NEW n, n # NULL, NULL \notin Live
    PROVE  /\ n \in Subtree(n) /\ Subtree(n) \subseteq Live \cup {n}
           /\ \A m \in Live : nodes[m].parent \in Subtree(n) => m \in Subtree(n)
           /\ \A m \in Subtree(n) \ {n} : m \in Live /\ nodes[m].parent \in Subtree(n)
  <1> DEFINE T == Subtree(n)
  <1>1. n \in T /\ T \subseteq Live \cup {n}
    BY DEF Subtree
  <1>2. ASSUME NEW m \in Live, nodes[m].parent \in T
        PROVE  m \in T
    BY <1>2 DEF Subtree, ClosedUnderChildren
  <1>3. ASSUME NEW m \in T \ {n}, nodes[m].parent \notin T
        PROVE  FALSE
    <2> DEFINE U == T \ {m}
    <2>1. U \in SUBSET (Live \cup {n}) /\ n \in U
      BY <1>1
    <2>2. ClosedUnderChildren(U)
      BY <1>2, <1>3 DEF ClosedUnderChildren
    <2>3. m \in U
      BY <2>1, <2>2 DEF Subtree
    <2> QED
      BY <2>3
  <1> QED
    BY <1>1, <1>2, <1>3

\* The rows of project p below parent q.
ChildRows(rows, p, q) ==
    {m \in NodeIds : rows[m] # NULL /\ rows[m].project = p /\ rows[m].parent = q}

DepthsRight(rows) ==
    \A n \in NodeIds : rows[n] # NULL =>
        LET q == rows[n].parent
        IN  /\ rows[n].depth = IF q = NULL THEN 0 ELSE rows[q].depth + 1
            /\ rows[n].depth < MaxTreeDepth

NumbersRight(rows) ==
    \A p \in Projects, q \in NodeIds \cup {NULL} : IsNumbered(rows, ChildRows(rows, p, q))

(***************************************************************************)
(* Where the depths follow the parents there is no cycle.                  *)
(***************************************************************************)
LEMMA DepthsForbidCycles ==
    ASSUME TypeOK, DepthsRight(nodes)
    PROVE  Acyclic
  <1> SUFFICES ASSUME NEW n \in Live, NEW c \in Live, nodes[c].parent = n, n \in Subtree(c)
               PROVE  FALSE
    BY DEF Acyclic, OnCycle
  <1> DEFINE T == {m \in Live : nodes[m].depth >= nodes[c].depth}
  <1>1. \A m \in Live : nodes[m].depth \in Int
    BY DEF TypeOK, Live, Row
  <1>2. c \in T /\ T \in SUBSET (Live \cup {c})
    BY <1>1
  <1>3. \A m \in Live : nodes[m].parent \in Live => nodes[m].depth = nodes[nodes[m].parent].depth + 1
    BY NullAssumption DEF Live, DepthsRight
  <1>4. ClosedUnderChildren(T)
    <2> SUFFICES ASSUME NEW m \in Live, nodes[m].parent \in T PROVE m \in T
      BY DEF ClosedUnderChildren
    <2> DEFINE q == nodes[m].parent
    <2>1. q \in Live /\ nodes[q].depth >= nodes[c].depth /\ nodes[m].depth = nodes[q].depth + 1
      BY <1>3
    <2> HIDE DEF q
    <2> QED
      BY <2>1, <1>1
  <1>5. n \in T
    BY <1>2, <1>4 DEF Subtree
  <1>6. nodes[c].depth = nodes[n].depth + 1
    BY <1>3
  <1> QED
    BY <1>1, <1>5, <1>6

(***************************************************************************)
(* What updateMany of sortOrder writes.                                    *)
(***************************************************************************)
LEMMA ShiftWrites ==
    ASSUME NEW rows \in Table, NEW S \in SUBSET NodeIds, NEW delta \in {-1, 1},
           \A m \in S : rows[m] # NULL
    PROVE  \A m \in NodeIds : rows[m] # NULL =>
               /\ Shift(rows, S, delta)[m].depth = rows[m].depth
               /\ Shift(rows, S, delta)[m].sortOrder =
                      IF m \in S THEN rows[m].sortOrder + delta ELSE rows[m].sortOrder
  <1> SUFFICES ASSUME NEW m \in NodeIds, rows[m] # NULL
               PROVE  /\ Shift(rows, S, delta)[m].depth = rows[m].depth
                      /\ Shift(rows, S, delta)[m].sortOrder =
                             IF m \in S THEN rows[m].sortOrder + delta ELSE rows[m].sortOrder
    OBVIOUS
  <1>1. rows[m] \in Row
    BY DEF Table
  <1> QED
    BY <1>1 DEF Shift, Row

\* Only the numbers count.
LEMMA NumbersStay ==
    ASSUME NEW rows, NEW new, NEW S, IsNumbered(rows, S),
           \A m \in S : new[m].sortOrder = rows[m].sortOrder
    PROVE  IsNumbered(new, S)
  BY DEF IsNumbered

\* Siblings can be counted.
LEMMA ChildRowsFinite ==
    ASSUME NEW rows, NEW p, NEW q
    PROVE  /\ ChildRows(rows, p, q) \subseteq NodeIds
           /\ IsFiniteSet(ChildRows(rows, p, q))
           /\ Cardinality(ChildRows(rows, p, q)) \in Nat
  <1>1. ChildRows(rows, p, q) \subseteq NodeIds
    BY DEF ChildRows
  <1> QED
    BY <1>1, NodeIdsAssumption, FS_Subset, FS_CardinalityType

(***************************************************************************)
(* What the writes of a move make of places and depths: closed is the      *)
(* table after the gap is closed, place is where the node comes.           *)
(***************************************************************************)
LEMMA MovedWrites ==
    ASSUME IInv, NEW q \in Request, q.id \in Live, q.old \in Row, q.position > 0
    PROVE  LET closed == Shift(nodes, Closing(q), -1)
               beside == Siblings(nodes, q.project, q.parent, q.id)
           IN  /\ \A m \in Live :
                     closed[m].sortOrder = IF m \in Closing(q) THEN nodes[m].sortOrder - 1
                                           ELSE nodes[m].sortOrder
               /\ \A m \in Live :
                     Moved(q)[m].depth = IF m = q.id THEN q.newDepth
                                         ELSE IF m \in q.subtree
                                         THEN nodes[m].depth + (q.newDepth - q.old.depth)
                                         ELSE nodes[m].depth
               /\ \E place \in 1..(Cardinality(beside) + 1) :
                     /\ Moved(q)[q.id].sortOrder = place
                     /\ \A m \in Live \ {q.id} :
                           Moved(q)[m].sortOrder =
                               IF m \in beside /\ closed[m].sortOrder >= place
                               THEN closed[m].sortOrder + 1 ELSE closed[m].sortOrder
  <1> DEFINE delta    == q.newDepth - q.old.depth
             closing  == Closing(q)
             closed   == Shift(nodes, closing, -1)
             newSibs  == Siblings(closed, q.project, q.parent, q.id)
             places   == Cardinality(newSibs) + 1
             insertAt == IF q.position <= places THEN q.position ELSE places
             opening  == {m \in newSibs : closed[m].sortOrder >= insertAt}
             opened   == Shift(closed, opening, 1)
             below    == {m \in q.subtree \ {q.id} : delta # 0 /\ opened[m] # NULL}
             stamp    == clock + 1
             moved    == [opened[q.id] EXCEPT !.parent = q.parent, !.sortOrder = insertAt,
                                              !.depth = q.newDepth, !.updatedAt = stamp]
             t        == [m \in NodeIds |->
                            IF m = q.id THEN moved
                            ELSE IF m \in below
                            THEN [opened[m] EXCEPT !.depth = @ + delta, !.updatedAt = stamp]
                            ELSE opened[m]]
  <1>1. t = Moved(q)
    BY DEF Moved, Descendants
  <1>2. nodes \in Table /\ clock \in Nat /\ delta \in Int
    BY DEF IInv, TypeOK, Table, Request, Row
  <1>3. /\ closing \in SUBSET NodeIds
        /\ \A m \in closing : nodes[m] # NULL /\ nodes[m].sortOrder + (-1) > 0
    <2>1. \A m \in closing : /\ m \in NodeIds /\ nodes[m] # NULL
                             /\ nodes[m].sortOrder > q.old.sortOrder
      BY DEF Closing, Siblings, Later
    <2>2. \A m \in closing : nodes[m].sortOrder \in Nat /\ q.old.sortOrder \in Nat \ {0}
      BY <1>2, <2>1 DEF Table, Row
    <2> HIDE DEF closing
    <2> QED
      BY <2>1, <2>2
  <1> HIDE DEF closing
  <1>4. closed \in Table /\ SameShape(closed, nodes)
    BY <1>2, <1>3, ShiftKeepsShape
  <1>5. \A m \in NodeIds : nodes[m] # NULL =>
               /\ closed[m].depth = nodes[m].depth
               /\ closed[m].sortOrder =
                      IF m \in closing THEN nodes[m].sortOrder + (-1) ELSE nodes[m].sortOrder
    BY <1>2, <1>3, ShiftWrites
  <1>6. \A m \in Live : closed[m].sortOrder = IF m \in closing THEN nodes[m].sortOrder - 1
                                              ELSE nodes[m].sortOrder
    <2>1. \A m \in Live : m \in NodeIds /\ nodes[m] # NULL /\ nodes[m].sortOrder \in Nat
      BY <1>2 DEF Live, Table, Row
    <2> HIDE DEF closed
    <2> QED
      BY <1>5, <2>1
  <1> HIDE DEF closed
  <1>7. newSibs = Siblings(nodes, q.project, q.parent, q.id)
    BY <1>4 DEF Siblings, SameShape
  <1>8. insertAt \in 1..(Cardinality(newSibs) + 1)
    <2>1. newSibs \subseteq NodeIds
      BY DEF Siblings
    <2>2. Cardinality(newSibs) \in Nat
      BY <2>1, NodeIdsAssumption, FS_Subset, FS_CardinalityType
    <2> HIDE DEF newSibs
    <2> QED
      BY <2>2 DEF Request
  <1> HIDE DEF insertAt
  <1>9. opening \in SUBSET NodeIds /\ \A m \in opening : closed[m] # NULL
    BY DEF Siblings
  <1>10. \A m \in opening : closed[m].sortOrder + 1 > 0
    BY <1>4, <1>9 DEF Table, Row
  <1> HIDE DEF opening
  <1>11. opened \in Table /\ SameShape(opened, closed)
    BY <1>2, <1>4, <1>9, <1>10, ShiftKeepsShape
  <1>12. \A m \in NodeIds : closed[m] # NULL =>
               /\ opened[m].depth = closed[m].depth
               /\ opened[m].sortOrder =
                      IF m \in opening THEN closed[m].sortOrder + 1 ELSE closed[m].sortOrder
    BY <1>4, <1>9, ShiftWrites
  <1> HIDE DEF opened
  <1>13. \A m \in Live : /\ m \in NodeIds /\ closed[m] # NULL /\ opened[m] # NULL
                         /\ opened[m] \in Row
    BY <1>4, <1>11 DEF SameShape, Live, Table
  <1>14. /\ t[q.id] = moved
         /\ moved.depth = q.newDepth /\ moved.sortOrder = insertAt
    BY <1>13 DEF Row
  <1>15. ASSUME NEW m \in Live \ {q.id}
         PROVE  /\ t[m].depth = IF m \in q.subtree THEN nodes[m].depth + delta ELSE nodes[m].depth
                /\ t[m].sortOrder = opened[m].sortOrder
    <2>1. opened[m].depth = nodes[m].depth /\ nodes[m].depth \in Int
      BY <1>2, <1>5, <1>12, <1>13 DEF Live, Table, Row
    <2>2. CASE m \in q.subtree /\ delta # 0
      <3> DEFINE d == opened[m].depth + delta
      <3>1. t[m] = [opened[m] EXCEPT !.depth = d, !.updatedAt = stamp]
        BY <1>13, <2>2
      <3> HIDE DEF t, d
      <3>2. t[m].depth = d /\ t[m].sortOrder = opened[m].sortOrder
        BY <1>13, <3>1 DEF Row
      <3> QED
        BY <2>1, <2>2, <3>2 DEF d
    <2>3. CASE ~(m \in q.subtree /\ delta # 0)
      <3>1. t[m] = opened[m]
        BY <1>13, <2>3
      <3> HIDE DEF t, delta
      <3> QED
        BY <2>1, <2>3, <3>1, <1>2
    <2> QED
      BY <2>2, <2>3
  <1>16. \A m \in Live \ {q.id} :
              opened[m].sortOrder = IF m \in newSibs /\ closed[m].sortOrder >= insertAt
                                    THEN closed[m].sortOrder + 1 ELSE closed[m].sortOrder
    BY <1>12, <1>13 DEF opening
  <1> HIDE DEF t, moved, newSibs
  <1>17. \A m \in Live : t[m].depth = IF m = q.id THEN q.newDepth
                                      ELSE IF m \in q.subtree THEN nodes[m].depth + delta
                                      ELSE nodes[m].depth
    BY <1>14, <1>15
  <1>18. /\ t[q.id].sortOrder = insertAt
         /\ \A m \in Live \ {q.id} :
              t[m].sortOrder = IF m \in newSibs /\ closed[m].sortOrder >= insertAt
                               THEN closed[m].sortOrder + 1 ELSE closed[m].sortOrder
    BY <1>14, <1>15, <1>16
  <1> QED
    BY <1>1, <1>6, <1>7, <1>8, <1>17, <1>18 DEF closed, closing

(***************************************************************************)
(* A move whose reads are still true leaves the tree in shape.             *)
(***************************************************************************)
LEMMA MoveKeepsDepths ==
    ASSUME IInv, DepthsRight(nodes), NEW q \in Request, q.id \in Live, q.position > 0,
           q.old = nodes[q.id], q.subtree = Subtree(q.id),
           q.parent \in Live \cup {NULL}, q.parent \notin q.subtree,
           q.newDepth = IF q.parent = NULL THEN 0 ELSE nodes[q.parent].depth + 1,
           \A d \in {q.old.depth} \cup {nodes[m].depth : m \in q.subtree \ {q.id}} :
               d + (q.newDepth - q.old.depth) < MaxTreeDepth
    PROVE  DepthsRight(Moved(q))
  <1> DEFINE t == Moved(q)
             delta == q.newDepth - q.old.depth
  <1>0. /\ \A m \in Live : nodes[m] \in Row /\ nodes[m].depth \in Int /\ m \in NodeIds
        /\ q.newDepth \in Int /\ NULL \notin Live
    BY NullAssumption DEF IInv, TypeOK, Live, Row, Request
  <1>1. /\ \A m \in NodeIds : t[m] = NULL <=> nodes[m] = NULL
        /\ \A m \in Live : t[m].parent = IF m = q.id THEN q.parent ELSE nodes[m].parent
    BY <1>0, MovedKeepsShape
  <1>2. \A m \in Live : t[m].depth = IF m = q.id THEN q.newDepth
                                     ELSE IF m \in q.subtree THEN nodes[m].depth + delta
                                     ELSE nodes[m].depth
    BY <1>0, MovedWrites
  <1>3. /\ q.id \in q.subtree
        /\ \A m \in Live : nodes[m].parent \in q.subtree => m \in q.subtree
        /\ \A m \in q.subtree \ {q.id} : m \in Live /\ nodes[m].parent \in q.subtree
    BY <1>0, SubtreeFacts
  <1>4. \A m \in Live : /\ nodes[m].depth = IF nodes[m].parent = NULL THEN 0
                                            ELSE nodes[nodes[m].parent].depth + 1
                        /\ nodes[m].depth < MaxTreeDepth
                        /\ nodes[m].parent # NULL => nodes[m].parent \in Live
    BY DEF DepthsRight, Live, IInv, ParentIsLiveGroup
  <1>5. NULL \notin q.subtree
    BY <1>0, <1>3
  <1> HIDE DEF t
  <1>6. ASSUME NEW m \in Live
        PROVE  /\ t[m].depth = IF t[m].parent = NULL THEN 0 ELSE t[t[m].parent].depth + 1
               /\ t[m].depth < MaxTreeDepth
    <2>1. CASE m = q.id
      <3>1. t[m].parent = q.parent /\ t[m].depth = q.newDepth
        BY <1>1, <1>2, <2>1
      <3>2. q.parent # NULL => t[q.parent].depth = nodes[q.parent].depth
        BY <1>2, <1>3
      <3>3. q.old.depth + delta < MaxTreeDepth
        OBVIOUS
      <3>4. q.newDepth < MaxTreeDepth
        BY <3>3, <1>0
      <3> QED
        BY <3>1, <3>2, <3>4
    <2>2. CASE m # q.id /\ m \in q.subtree
      <3> DEFINE up == nodes[m].parent
      <3>1. /\ up \in q.subtree /\ up \in Live /\ t[m].parent = up
            /\ t[m].depth = nodes[m].depth + delta /\ nodes[m].depth = nodes[up].depth + 1
        BY <1>0, <1>1, <1>2, <1>3, <1>4, <1>5, <2>2
      <3>2. nodes[m].depth + delta < MaxTreeDepth
        BY <2>2
      <3>3. t[up].depth = nodes[up].depth + delta
        <4>1. CASE up = q.id
          BY <4>1, <3>1, <1>0, <1>2
        <4>2. CASE up # q.id
          BY <4>2, <3>1, <1>2
        <4> QED
          BY <4>1, <4>2
      <3>4. nodes[up].depth \in Int /\ delta \in Int /\ up # NULL
        BY <1>0, <3>1
      <3> HIDE DEF up, delta
      <3> QED
        BY <3>1, <3>2, <3>3, <3>4
    <2>3. CASE m \notin q.subtree
      <3> DEFINE up == nodes[m].parent
      <3>1. t[m].parent = up /\ t[m].depth = nodes[m].depth /\ up \notin q.subtree
        BY <1>1, <1>2, <1>3, <2>3
      <3>2. up # NULL => up \in Live /\ t[up].depth = nodes[up].depth
        BY <1>2, <1>3, <1>4, <3>1
      <3> HIDE DEF up
      <3> QED
        BY <3>1, <3>2, <1>4 DEF up
    <2> QED
      BY <2>1, <2>2, <2>3
  <1> QED
    BY <1>1, <1>6 DEF DepthsRight, Live, t

\* A move closes the gap it leaves and opens the one it fills.
LEMMA MoveKeepsNumbers ==
    ASSUME IInv, NumbersRight(nodes), NEW q \in Request, q.id \in Live, q.position > 0,
           q.old = nodes[q.id], q.project = nodes[q.id].project,
           q.parent \in Live \cup {NULL}
    PROVE  NumbersRight(Moved(q))
  <1> DEFINE t == Moved(q)
             p == q.project
             from == q.old.parent
             closed == Shift(nodes, Closing(q), -1)
             beside == Siblings(nodes, p, q.parent, q.id)
             left   == ChildRows(nodes, p, from) \ {q.id}
  <1>0. /\ \A m \in Live : nodes[m] \in Row /\ m \in NodeIds /\ nodes[m].sortOrder \in Nat
        /\ q.id \in NodeIds /\ q.old \in Row /\ p \in Projects /\ from \in NodeIds \cup {NULL}
    BY DEF IInv, TypeOK, Live, Row
  <1>1. /\ \A m \in NodeIds : t[m] = NULL <=> nodes[m] = NULL
        /\ \A m \in Live : /\ t[m].project = nodes[m].project
                           /\ t[m].parent = IF m = q.id THEN q.parent ELSE nodes[m].parent
    BY <1>0, MovedKeepsShape
  <1>2. PICK place \in 1..(Cardinality(beside) + 1) :
              /\ t[q.id].sortOrder = place
              /\ \A m \in Live \ {q.id} :
                    t[m].sortOrder = IF m \in beside /\ closed[m].sortOrder >= place
                                     THEN closed[m].sortOrder + 1 ELSE closed[m].sortOrder
    BY <1>0, MovedWrites
  <1>3. \A m \in Live : closed[m].sortOrder = IF m \in Closing(q) THEN nodes[m].sortOrder - 1
                                              ELSE nodes[m].sortOrder
    BY <1>0, MovedWrites
  <1>4. q.id \in ChildRows(nodes, p, from) /\ IsNumbered(nodes, ChildRows(nodes, p, from))
        /\ IsFiniteSet(ChildRows(nodes, p, from))
    <2>1. q.id \in ChildRows(nodes, p, from)
      BY <1>0 DEF ChildRows, Live
    <2>2. IsNumbered(nodes, ChildRows(nodes, p, from))
      BY <1>0 DEF NumbersRight
    <2> QED
      BY <2>1, <2>2, ChildRowsFinite
  <1>5. left \subseteq Live /\ Closing(q) = {m \in left : nodes[m].sortOrder > q.old.sortOrder}
    BY DEF ChildRows, Live, Closing, Siblings, Later
  <1> HIDE DEF t, closed, p, from
  <1>6. IsNumbered(closed, left)
    <2>1. \A m \in ChildRows(nodes, p, from) \ {q.id} :
             closed[m].sortOrder = IF nodes[m].sortOrder > nodes[q.id].sortOrder
                                   THEN nodes[m].sortOrder - 1 ELSE nodes[m].sortOrder
      BY <1>3, <1>5
    <2> HIDE DEF left
    <2>2. IsNumbered(closed, ChildRows(nodes, p, from) \ {q.id})
      BY <1>4, <2>1, NumbersClose
    <2> QED
      BY <2>2 DEF left
  <1>7. beside = IF q.parent = from THEN left ELSE ChildRows(nodes, p, q.parent)
    <2>1. nodes[q.id].parent = from
      BY DEF from
    <2> QED
      BY <2>1 DEF Siblings, ChildRows
  <1>8. IsNumbered(closed, beside) /\ beside \subseteq Live \ {q.id}
    <2>1. CASE q.parent = from
      BY <1>5, <1>6, <1>7, <2>1
    <2>2. CASE q.parent # from
      <3>1. IsNumbered(nodes, ChildRows(nodes, p, q.parent))
        BY <1>0 DEF NumbersRight, Live
      <3>2. \A m \in ChildRows(nodes, p, q.parent) :
               m \in Live /\ m \notin Closing(q) /\ m # q.id
        BY <1>4, <1>5, <2>2 DEF ChildRows, Live
      <3>3. IsNumbered(closed, ChildRows(nodes, p, q.parent))
        BY <1>3, <3>1, <3>2, NumbersStay
      <3> QED
        BY <1>7, <2>2, <3>2, <3>3
    <2> QED
      BY <2>1, <2>2
  <1>9. IsFiniteSet(beside)
    BY <1>8, <1>0, NodeIdsAssumption, FS_Subset DEF Live
  <1> HIDE DEF beside, left
  <1>10. IsNumbered(t, beside \cup {q.id})
    <2>1. \A m \in beside : t[m].sortOrder = IF closed[m].sortOrder >= place
                                             THEN closed[m].sortOrder + 1 ELSE closed[m].sortOrder
      BY <1>2, <1>8
    <2>2. q.id \notin beside
      BY <1>8
    <2> QED
      BY <1>2, <1>8, <1>9, <2>1, <2>2, NumbersOpen
  <1>11. \A x \in Projects, y \in NodeIds \cup {NULL} :
            ChildRows(t, x, y) = {m \in Live : /\ nodes[m].project = x
                                               /\ y = IF m = q.id THEN q.parent ELSE nodes[m].parent}
    BY <1>0, <1>1 DEF ChildRows, Live
  <1>12. ASSUME NEW x \in Projects, NEW y \in NodeIds \cup {NULL}
         PROVE  IsNumbered(t, ChildRows(t, x, y))
    <2>1. CASE x = p /\ y = q.parent
      <3>1. ChildRows(t, x, y) = beside \cup {q.id}
        BY <1>11, <2>1, <1>0 DEF beside, Siblings, Live, p
      <3> QED
        BY <1>10, <3>1
    <2>2. CASE x = p /\ y = from /\ from # q.parent
      <3>1. ChildRows(t, x, y) = left
        BY <1>11, <1>12, <2>2 DEF left, ChildRows, Live
      <3>2. \A m \in left : m \in Live \ {q.id} /\ m \notin beside
        BY <1>5, <1>7, <2>2 DEF left, ChildRows
      <3>3. \A m \in left : t[m].sortOrder = closed[m].sortOrder
        BY <1>2, <3>2
      <3> QED
        BY <1>6, <3>1, <3>3, NumbersStay
    <2>3. CASE ~(x = p /\ (y = from \/ y = q.parent))
      <3>1. ChildRows(t, x, y) = ChildRows(nodes, x, y) /\ q.id \notin ChildRows(t, x, y)
        BY <1>11, <2>3 DEF ChildRows, Live, p, from
      <3>2. \A m \in ChildRows(nodes, x, y) :
                m \in Live \ {q.id} /\ m \notin left /\ m \notin beside
        BY <2>3, <3>1 DEF ChildRows, Live, left, beside, Siblings
      <3>3. \A m \in ChildRows(nodes, x, y) : t[m].sortOrder = nodes[m].sortOrder
        BY <1>2, <1>3, <1>5, <3>2
      <3>4. IsNumbered(nodes, ChildRows(nodes, x, y))
        BY DEF NumbersRight
      <3> QED
        BY <3>1, <3>3, <3>4, NumbersStay
    <2> QED
      BY <2>1, <2>2, <2>3
  <1> QED
    BY <1>12 DEF NumbersRight, t

-------------------------------------------------------------------------------
\* A new node comes last, one level below its parent.
LEMMA CreateKeepsShape ==
    ASSUME IInv, DepthsRight(nodes), NumbersRight(nodes), NEW r \in Requests, CreateCommit(r),
           req[r].newDepth = IF req[r].parent = NULL THEN 0 ELSE nodes[req[r].parent].depth + 1,
           req[r].newDepth < MaxTreeDepth
    PROVE  DepthsRight(nodes') /\ NumbersRight(nodes')
  <1> DEFINE q == req[r]
             S == Children(q.project, q.parent)
  <1>1. /\ q \in Request /\ q.project \in Projects
        /\ q.parent \in Live \cup {NULL}
    BY DEF IInv, TypeOK, ChecksStayTrue, CheckStaysTrue, CreateCommit, ParentThere, At
  <1>2. PICK n \in Fresh, last \in {0} \cup {nodes[m].sortOrder : m \in S} :
              /\ \A m \in S : nodes[m].sortOrder <= last
              /\ nodes' = [nodes EXCEPT ![n] =
                      [project |-> q.project, parent |-> q.parent,
                       kind |-> q.kind, sortOrder |-> last + 1,
                       depth |-> q.newDepth, updatedAt |-> clock + 1]]
    BY DEF CreateCommit, Commit
  <1>3. n \in NodeIds /\ nodes[n] = NULL /\ n \notin Live
    BY LiveHasHistory DEF Fresh, IInv, Live
  <1> DEFINE row == [project |-> q.project, parent |-> q.parent,
                     kind |-> q.kind, sortOrder |-> last + 1,
                     depth |-> q.newDepth, updatedAt |-> clock + 1]
             t == nodes'
  <1>4. t[n] = row /\ \A m \in NodeIds \ {n} : t[m] = nodes[m]
    BY <1>2, <1>3 DEF IInv, TypeOK
  <1>5. /\ row.project = q.project /\ row.parent = q.parent
        /\ row.sortOrder = last + 1 /\ row.depth = q.newDepth
    OBVIOUS
  <1>5a. t[n] # NULL
    <2>1. \A m \in S : nodes[m].sortOrder \in Nat
      BY DEF Children, Live, IInv, TypeOK, Row
    <2>2. last + 1 \in Nat \ {0} /\ clock + 1 \in Nat
      BY <2>1 DEF IInv, TypeOK
    <2>3. q.kind \in Kinds /\ q.newDepth \in Int /\ q.parent \in NodeIds \cup {NULL}
      BY <1>1 DEF IInv, ChecksStayTrue, CheckStaysTrue, CreateCommit, At, Request, Live
    <2>4. row \in Row
      BY <1>1, <2>2, <2>3 DEF Row
    <2> QED
      BY <1>4, <2>4, NoRowAssumption
  <1> HIDE DEF row, t, q
  <1>6. DepthsRight(t)
    <2>1. \A m \in Live : m \in NodeIds \ {n} /\ nodes[m] # NULL
      BY <1>3 DEF Live
    <2>2. \A m \in NodeIds : nodes[m] # NULL /\ nodes[m].parent # NULL => nodes[m].parent \in Live
      BY DEF IInv, ParentIsLiveGroup, Live
    <2> QED
      BY <1>1, <1>3, <1>4, <1>5, <2>1, <2>2 DEF DepthsRight, q
  <1>7. S = ChildRows(nodes, q.project, q.parent)
    BY DEF Children, ChildRows, Live
  <1>8. last = Cardinality(S)
    <2>1. {nodes[m].sortOrder : m \in S} = 1..Cardinality(S)
      BY <1>1, <1>7 DEF NumbersRight, IsNumbered, Live
    <2>2. Cardinality(S) \in Nat
      BY <1>7, ChildRowsFinite
    <2>3. last \in {0} \cup 1..Cardinality(S)
      BY <2>1
    <2>4. \A k \in 1..Cardinality(S) : k <= last
      <3> SUFFICES ASSUME NEW k \in 1..Cardinality(S) PROVE k <= last
        OBVIOUS
      <3>1. PICK m \in S : nodes[m].sortOrder = k
        BY <2>1
      <3> QED
        BY <1>2, <3>1
    <2> QED
      BY <2>2, <2>3, <2>4
  <1>9. ASSUME NEW x \in Projects, NEW y \in NodeIds \cup {NULL}
        PROVE  IsNumbered(t, ChildRows(t, x, y))
    <2>0. /\ IsNumbered(nodes, ChildRows(nodes, x, y))
          /\ IsFiniteSet(ChildRows(nodes, x, y))
          /\ \A m \in ChildRows(nodes, x, y) : m \in NodeIds \ {n}
      <3>1. IsNumbered(nodes, ChildRows(nodes, x, y))
        BY DEF NumbersRight
      <3>2. \A m \in ChildRows(nodes, x, y) : m \in NodeIds \ {n}
        BY <1>3 DEF ChildRows
      <3> QED
        BY <3>1, <3>2, ChildRowsFinite
    <2>1. CASE x = q.project /\ y = q.parent
      <3>1. ChildRows(t, x, y) = ChildRows(nodes, x, y) \cup {n}
        BY <1>3, <1>4, <1>5, <1>5a, <2>1 DEF ChildRows
      <3>2. IsNumbered(t, ChildRows(nodes, x, y) \cup {n})
        BY <1>4, <1>5, <1>7, <1>8, <2>0, <2>1, NumbersAppend
      <3> QED
        BY <3>1, <3>2
    <2>2. CASE ~(x = q.project /\ y = q.parent)
      <3>1. ChildRows(t, x, y) = ChildRows(nodes, x, y)
        BY <1>3, <1>4, <1>5, <2>2 DEF ChildRows
      <3> QED
        BY <1>4, <2>0, <3>1, NumbersStay
    <2> QED
      BY <2>1, <2>2
  <1> QED
    BY <1>6, <1>9 DEF NumbersRight, t

\* A delete leaves place and depth of the other rows alone.
LEMMA RemoveWrites ==
    ASSUME NEW rows \in Table, NEW S \in SUBSET NodeIds
    PROVE  \A n \in NodeIds \ S : rows[n] # NULL =>
               /\ Remove(rows, S)[n].depth = rows[n].depth
               /\ Remove(rows, S)[n].sortOrder = rows[n].sortOrder
  <1> SUFFICES ASSUME NEW n \in NodeIds \ S, rows[n] # NULL
               PROVE  /\ Remove(rows, S)[n].depth = rows[n].depth
                      /\ Remove(rows, S)[n].sortOrder = rows[n].sortOrder
    OBVIOUS
  <1>1. rows[n] \in Row
    BY DEF Table
  <1> QED
    BY <1>1 DEF Remove, Row

\* No rows are numbered.
LEMMA NoRowsAreNumbered == ASSUME NEW rows PROVE IsNumbered(rows, {})
  BY FS_EmptySet DEF IsNumbered

(***************************************************************************)
(* A delete whose reads are still true leaves the tree in shape, and no    *)
(* child without its parent.                                               *)
(***************************************************************************)
LEMMA DeleteKeepsShape ==
    ASSUME IInv, DepthsRight(nodes), NumbersRight(nodes), NEW r \in Requests, DeleteCommit(r),
           req[r].id \in Live, req[r].old = nodes[req[r].id],
           req[r].project = nodes[req[r].id].project, req[r].subtree = DoomedBy(req[r].id)
    PROVE  /\ DepthsRight(nodes') /\ NumbersRight(nodes')
           /\ LeftNoChild
  <1> DEFINE q == req[r]
             S == q.subtree
             p == q.project
             from == q.old.parent
             later == {m \in Siblings(nodes, p, from, NULL) : Later(nodes[m], q.old)}
             closed == Shift(nodes, later, -1)
             t == nodes'
  <1>1. t = Remove(closed, S)
    BY DEF DeleteCommit, Commit
  <1>2. /\ nodes \in Table /\ clock \in Nat /\ NULL \notin Live
        /\ \A m \in Live : /\ nodes[m] \in Row /\ m \in NodeIds /\ nodes[m] # NULL
                           /\ nodes[m].sortOrder \in Nat \ {0}
    BY NullAssumption DEF IInv, TypeOK, Table, Live, Row
  <1>3. /\ q.id \in S /\ S \subseteq Live
        /\ \A m \in Live : nodes[m].parent \in S => m \in S
        /\ \A m \in S \ {q.id} : nodes[m].parent \in S
    <2>1. /\ q.id \in Subtree(q.id) /\ Subtree(q.id) \subseteq Live \cup {q.id}
          /\ \A m \in Live : nodes[m].parent \in Subtree(q.id) => m \in Subtree(q.id)
          /\ \A m \in Subtree(q.id) \ {q.id} : m \in Live /\ nodes[m].parent \in Subtree(q.id)
      BY <1>2, SubtreeFacts
    <2> QED
      BY <2>1 DEF DoomedBy
  <1>4. from \notin S
    <2>1. CASE from \in Live
      <3>1. nodes[q.id].parent = from
        OBVIOUS
      <3>2. from \notin Subtree(q.id)
        BY <2>1, <3>1, DepthsForbidCycles DEF Acyclic, OnCycle, IInv
      <3> QED
        BY <3>2 DEF DoomedBy
    <2>2. CASE from \notin Live
      BY <1>3, <2>2
    <2> QED
      BY <2>1, <2>2
  <1>5. /\ later = {m \in ChildRows(nodes, p, from) : nodes[m].sortOrder > q.old.sortOrder}
        /\ later \in SUBSET NodeIds
    BY NullAssumption DEF Siblings, Later, ChildRows
  <1>6. q.id \in ChildRows(nodes, p, from) /\ p \in Projects /\ from \in NodeIds \cup {NULL}
    BY <1>2 DEF ChildRows, Row
  <1>7. \A m \in later : nodes[m] # NULL /\ nodes[m].sortOrder + (-1) > 0
    <2> SUFFICES ASSUME NEW m \in later PROVE nodes[m] # NULL /\ nodes[m].sortOrder + (-1) > 0
      OBVIOUS
    <2>1. m \in Live /\ nodes[m].sortOrder > q.old.sortOrder
      BY <1>5 DEF ChildRows, Live
    <2>2. nodes[m].sortOrder \in Nat /\ q.old.sortOrder \in Nat \ {0}
      BY <1>2, <2>1
    <2> QED
      BY <1>2, <2>1, <2>2
  <1> HIDE DEF later
  <1>8. closed \in Table /\ SameShape(closed, nodes)
    BY <1>2, <1>5, <1>7, ShiftKeepsShape
  <1>9. \A m \in Live :
               /\ closed[m].depth = nodes[m].depth
               /\ closed[m].sortOrder =
                      IF m \in later THEN nodes[m].sortOrder + (-1) ELSE nodes[m].sortOrder
    BY <1>2, <1>5, <1>7, ShiftWrites
  <1> HIDE DEF closed
  <1>10. S \in SUBSET NodeIds
    BY <1>2, <1>3
  <1>11. \A m \in NodeIds : t[m] # NULL <=> m \in Live \ S
    BY <1>1, <1>8, <1>10, RemoveKeepsRows DEF SameShape, Live
  <1>12. \A m \in Live \ S : /\ t[m].project = nodes[m].project
                             /\ t[m].parent = nodes[m].parent /\ nodes[m].parent \notin S
    BY <1>1, <1>2, <1>3, <1>8, <1>10, <1>11, RemoveKeepsRows DEF SameShape
  <1>13. \A m \in Live \ S : /\ t[m].depth = nodes[m].depth
                             /\ t[m].sortOrder = closed[m].sortOrder
    BY <1>1, <1>2, <1>8, <1>9, <1>10, RemoveWrites DEF SameShape
  <1> HIDE DEF t
  <1>14. DepthsRight(t)
    <2>1. \A m \in Live : /\ nodes[m].depth = IF nodes[m].parent = NULL THEN 0
                                              ELSE nodes[nodes[m].parent].depth + 1
                          /\ nodes[m].depth < MaxTreeDepth
                          /\ nodes[m].parent # NULL => nodes[m].parent \in Live
      BY DEF DepthsRight, Live, IInv, ParentIsLiveGroup
    <2>2. ASSUME NEW m \in Live \ S
          PROVE  /\ t[m].depth = IF t[m].parent = NULL THEN 0 ELSE t[t[m].parent].depth + 1
                 /\ t[m].depth < MaxTreeDepth
      <3> DEFINE up == nodes[m].parent
      <3>1. t[m].parent = up /\ t[m].depth = nodes[m].depth
        BY <1>12, <1>13
      <3>2. up # NULL => t[up].depth = nodes[up].depth
        BY <1>12, <1>13, <2>1
      <3> QED
        BY <2>1, <3>1, <3>2
    <2> QED
      BY <1>11, <2>2 DEF DepthsRight
  <1>15. \A x \in Projects, y \in NodeIds \cup {NULL} :
            ChildRows(t, x, y) = ChildRows(nodes, x, y) \ S
    BY <1>11, <1>12 DEF ChildRows, Live
  <1>16. ASSUME NEW x \in Projects, NEW y \in NodeIds \cup {NULL}
         PROVE  IsNumbered(t, ChildRows(t, x, y))
    <2>0. /\ IsNumbered(nodes, ChildRows(nodes, x, y))
          /\ IsFiniteSet(ChildRows(nodes, x, y))
      BY ChildRowsFinite DEF NumbersRight
    <2>1. CASE y \in S
      <3>1. ChildRows(nodes, x, y) \ S = {}
        BY <1>3, <2>1 DEF ChildRows, Live
      <3> QED
        BY <1>15, <3>1, NoRowsAreNumbered
    <2>2. CASE x = p /\ y = from
      <3>1. ChildRows(nodes, x, y) \cap S = {q.id}
        BY <1>3, <1>4, <1>6, <2>2 DEF ChildRows
      <3>2. ChildRows(t, x, y) = ChildRows(nodes, x, y) \ {q.id}
        BY <1>15, <3>1
      <3>3. ChildRows(nodes, x, y) \ {q.id} \subseteq Live \ S
        BY <3>1 DEF ChildRows, Live
      <3>4. ASSUME NEW m \in ChildRows(nodes, x, y) \ {q.id}
            PROVE  t[m].sortOrder = IF nodes[m].sortOrder > nodes[q.id].sortOrder
                                    THEN nodes[m].sortOrder - 1 ELSE nodes[m].sortOrder
        <4>1. m \in Live /\ t[m].sortOrder = closed[m].sortOrder
          BY <1>13, <3>3
        <4>2. m \in later <=> nodes[m].sortOrder > nodes[q.id].sortOrder
          BY <1>5, <2>2
        <4>3. nodes[m].sortOrder + (-1) = nodes[m].sortOrder - 1
          BY <1>2, <4>1
        <4> QED
          BY <1>9, <4>1, <4>2, <4>3
      <3>5. q.id \in ChildRows(nodes, x, y)
        BY <1>6, <2>2
      <3>6. IsNumbered(t, ChildRows(nodes, x, y) \ {q.id})
        BY <2>0, <3>4, <3>5, NumbersClose
      <3> QED
        BY <3>2, <3>6
    <2>3. CASE y \notin S /\ ~(x = p /\ y = from)
      <3>1. \A m \in ChildRows(nodes, x, y) : m \in Live /\ m # q.id /\ m \notin later
        BY <1>5, <1>6, <2>3 DEF ChildRows, Live
      <3>2. \A m \in ChildRows(nodes, x, y) : m \notin S
        BY <1>3, <2>3, <3>1 DEF ChildRows
      <3>3. ChildRows(t, x, y) = ChildRows(nodes, x, y)
        BY <1>15, <3>2
      <3>4. \A m \in ChildRows(nodes, x, y) : t[m].sortOrder = nodes[m].sortOrder
        BY <1>9, <1>13, <3>1, <3>2
      <3> QED
        BY <2>0, <3>3, <3>4, NumbersStay
    <2> QED
      BY <2>1, <2>2, <2>3
  <1>17. LeftNoChild
    BY <1>3, <1>11 DEF LeftNoChild, Live, t
  <1> QED
    BY <1>14, <1>16, <1>17 DEF NumbersRight, t

\* A file that was read: the depths are corrected, the parents follow from them.
IsOutline(raw, depth, parent) ==
    /\ raw \in Seq(Nat) /\ depth \in [1..Len(raw) -> Nat]
    /\ IsCorrected(raw, depth) /\ IsParentage(depth, parent)

(***************************************************************************)
(* The rows of a file: a row without a parent is a root, another one is a  *)
(* level below its parent.                                                 *)
(***************************************************************************)
LEMMA ParentageFollowsDepth ==
    ASSUME NEW raw, NEW depth, NEW parent, IsOutline(raw, depth, parent)
    PROVE  \A i \in 1..Len(raw) :
              \/ parent[i] = 0 /\ depth[i] = 0
              \/ /\ parent[i] \in 1..Len(raw) /\ parent[i] # 0
                 /\ depth[i] = depth[parent[i]] + 1
  <1> SUFFICES ASSUME NEW i \in 1..Len(raw)
               PROVE  \/ parent[i] = 0 /\ depth[i] = 0
                      \/ /\ parent[i] \in 1..Len(raw) /\ parent[i] # 0
                         /\ depth[i] = depth[parent[i]] + 1
    OBVIOUS
  <1>0. /\ raw \in Seq(Nat) /\ depth \in [1..Len(raw) -> Nat]
        /\ IsCorrected(raw, depth) /\ IsParentage(depth, parent)
    BY DEF IsOutline
  <1> DEFINE n == Len(raw)
             above == {j \in 1..(i - 1) : depth[j] = depth[i] - 1}
  <1>1. n \in Nat /\ i \in 1..n
    BY <1>0
  <1>2. \A j \in 1..n : depth[j] \in Nat /\ raw[j] \in Nat
    BY <1>0
  <1>3. ASSUME NEW j \in 2..n PROVE depth[j] <= depth[j - 1] + 1
    <2> DEFINE a == raw[j]
               b == depth[j - 1] + 1
    <2>1. a \in Int /\ b \in Int
      BY <1>1, <1>2
    <2>2. depth[j] = Min({a, b})
      BY <1>0, <1>1 DEF IsCorrected
    <2> HIDE DEF a, b
    <2>3. \E x \in {a, b} : \A y \in {a, b} : x <= y
      BY <2>1
    <2>4. Min({a, b}) <= b
      BY <2>3 DEF Min
    <2> QED
      BY <2>2, <2>4 DEF b
  <1>4. 1 \in 1..n /\ depth[1] = 0
    <2>1. 1 \in 1..n
      BY <1>1
    <2>2. depth[1] = IF 1 = 1 THEN 0 ELSE Min({raw[1], depth[1 - 1] + 1})
      BY <1>0, <2>1 DEF IsCorrected
    <2> QED
      BY <2>1, <2>2
  <1>5. ASSUME depth[i] # 0 PROVE above # {}
    <2> DEFINE T == {e \in 1..(i - 1) : depth[i - e] < depth[i]}
    <2>1. i - 1 \in T
      BY <1>1, <1>2, <1>4, <1>5
    <2>2. T \in SUBSET Nat
      BY <1>1
    <2>3. PICK e \in T : \A k \in T : e <= k
      BY <2>1, <2>2, LeastExists
    <2> DEFINE j == i - e
    <2>4. e \in 1..(i - 1) /\ j \in 1..(i - 1) /\ depth[j] < depth[i]
      BY <1>1, <2>3
    <2>5. j + 1 \in 2..n /\ depth[j + 1] <= depth[j] + 1
      <3>1. j + 1 \in 2..n /\ (j + 1) - 1 = j
        BY <1>1, <2>4
      <3> HIDE DEF j
      <3> QED
        BY <1>3, <3>1
    <2>6. depth[j + 1] >= depth[i]
      <3>1. CASE e = 1
        <4>1. j + 1 = i
          BY <1>1, <3>1
        <4> HIDE DEF j
        <4> QED
          BY <1>1, <1>2, <4>1
      <3>2. CASE e # 1
        <4>1. e - 1 \notin T
          <5>1. e \in Int /\ \A k \in T : e <= k
            BY <2>3, <2>4
          <5> HIDE DEF T
          <5>2. ~(e <= e - 1)
            BY <5>1
          <5> QED
            BY <5>1, <5>2
        <4>2. e - 1 \in 1..(i - 1) /\ i - (e - 1) = j + 1
          BY <1>1, <2>4, <3>2
        <4>3. ~(depth[j + 1] < depth[i])
          BY <4>1, <4>2
        <4> HIDE DEF j
        <4>4. depth[j + 1] \in Nat /\ depth[i] \in Nat
          BY <1>1, <1>2, <2>5
        <4> QED
          BY <4>3, <4>4
      <3> QED
        BY <3>1, <3>2
    <2> HIDE DEF j
    <2>7. depth[j] \in Nat /\ depth[i] \in Nat /\ depth[j + 1] \in Nat
      BY <1>1, <1>2, <2>4, <2>5
    <2>8. depth[j] = depth[i] - 1
      BY <2>4, <2>5, <2>6, <2>7
    <2> QED
      BY <2>4, <2>8
  <1>6. IF above = {} THEN parent[i] = 0
        ELSE parent[i] \in above /\ \A j \in above : j <= parent[i]
    BY <1>0, <1>1 DEF IsParentage
  <1>7. CASE above = {}
    BY <1>5, <1>6, <1>7
  <1>8. CASE above # {}
    <2>1. parent[i] \in 1..(i - 1) /\ depth[parent[i]] = depth[i] - 1
      BY <1>6, <1>8
    <2>2. parent[i] \in 1..n /\ parent[i] # 0
      BY <1>1, <2>1
    <2>3. depth[parent[i]] \in Nat /\ depth[i] \in Nat
      BY <1>1, <1>2, <2>2
    <2> QED
      BY <2>1, <2>2, <2>3
  <1> QED
    BY <1>7, <1>8

(***************************************************************************)
(* The rows of one parent are numbered in the order of the file.           *)
(***************************************************************************)
RowsUnder(n, parent, k) == {j \in 1..n : parent[j] = k}

NumberedInFileOrder(n, parent, k) ==
    LET P == RowsUnder(n, parent, k)
    IN  /\ \A j \in P : RowSortOrder(parent, j) \in 1..Cardinality(P)
        /\ \A v \in 1..Cardinality(P) : \E j \in P : RowSortOrder(parent, j) = v

\* So every number up to the last is taken.
LEMMA RowsAreNumbered ==
    ASSUME NEW n \in Nat, NEW parent, NEW k
    PROVE  NumberedInFileOrder(n, parent, k)
  <1> DEFINE P == RowsUnder(n, parent, k)
  <1>0. P = {j \in 1..n : parent[j] = k}
    BY DEF RowsUnder
  <1> HIDE DEF P
  <1> DEFINE upTo(i) == {j \in 1..i : parent[j] = k}
             C == [i \in 0..n |-> Cardinality(upTo(i))]
  <1>1. \A i \in 0..n : IsFiniteSet(upTo(i)) /\ C[i] \in Nat /\ C[i] <= C[n]
    <2>1. ASSUME NEW i \in 0..n PROVE IsFiniteSet(upTo(i)) /\ C[i] \in Nat
      <3>1. IsFiniteSet(1..i) /\ upTo(i) \in SUBSET (1..i)
        BY FS_Interval
      <3>2. IsFiniteSet(upTo(i))
        BY <3>1, FS_Subset
      <3> HIDE DEF upTo
      <3> QED
        BY <3>2, FS_CardinalityType
    <2>2. ASSUME NEW i \in 0..n PROVE C[i] <= C[n]
      <3>1. upTo(i) \in SUBSET upTo(n) /\ IsFiniteSet(upTo(n)) /\ n \in 0..n
        BY <2>1
      <3> HIDE DEF upTo
      <3> QED
        BY <3>1, FS_Subset
    <2> HIDE DEF C, upTo
    <2> QED
      BY <2>1, <2>2
  <1>2. C[0] = 0
    <2>1. upTo(0) = {}
      OBVIOUS
    <2> HIDE DEF upTo
    <2> QED
      BY <2>1, FS_EmptySet
  <1>3. ASSUME NEW i \in 1..n
        PROVE  C[i] = IF parent[i] = k THEN C[i - 1] + 1 ELSE C[i - 1]
    <2>1. i - 1 \in 0..n /\ i \in 0..n /\ i \notin upTo(i - 1)
      OBVIOUS
    <2>2. upTo(i) = IF parent[i] = k THEN upTo(i - 1) \cup {i} ELSE upTo(i - 1)
      OBVIOUS
    <2>3. IsFiniteSet(upTo(i - 1)) /\ C[i] = Cardinality(upTo(i)) /\ C[i - 1] = Cardinality(upTo(i - 1))
      BY <1>1, <2>1
    <2> HIDE DEF upTo, C
    <2>4. Cardinality(upTo(i - 1) \cup {i}) = Cardinality(upTo(i - 1)) + 1
      BY <2>1, <2>3, FS_AddElement
    <2> QED
      BY <2>2, <2>3, <2>4
  <1>4. C[n] = Cardinality(P)
    <2>1. upTo(n) = P
      BY <1>0
    <2> QED
      BY <2>1
  <1>5. \A j \in P : RowSortOrder(parent, j) = C[j]
    <2> SUFFICES ASSUME NEW j \in P PROVE RowSortOrder(parent, j) = C[j]
      OBVIOUS
    <2>1. j \in 0..n /\ upTo(j) = {h \in 1..j : parent[h] = parent[j]}
      BY <1>0
    <2> QED
      BY <2>1 DEF RowSortOrder
  <1>6. \A j \in P : j \in 1..n /\ parent[j] = k
    BY <1>0
  <1>7. \A j \in 1..n : parent[j] = k => j \in P
    BY <1>0
  <1> HIDE DEF C, upTo
  <1>8. \A j \in P : C[j] \in 1..C[n]
    <2> SUFFICES ASSUME NEW j \in P PROVE C[j] \in 1..C[n]
      OBVIOUS
    <2>1. j \in 1..n /\ j - 1 \in 0..n /\ j \in 0..n /\ n \in 0..n
      BY <1>6
    <2>2. C[j] = C[j - 1] + 1 /\ C[j - 1] \in Nat /\ C[j] <= C[n] /\ C[n] \in Nat
      BY <1>1, <1>3, <1>6, <2>1
    <2> QED
      BY <2>2
  <1>9. \A v \in 1..C[n] : \E j \in P : C[j] = v
    <2> SUFFICES ASSUME NEW v \in 1..C[n] PROVE \E j \in P : C[j] = v
      OBVIOUS
    <2> DEFINE T == {i \in 0..n : C[i] >= v}
    <2>1. n \in T /\ T \in SUBSET Nat
      BY <1>1
    <2>2. PICK i \in T : \A h \in T : i <= h
      BY <2>1, LeastExists
    <2>3. i \in 1..n
      BY <1>2, <2>2
    <2>4. i - 1 \in 0..n /\ ~(C[i - 1] >= v)
      BY <2>2, <2>3
    <2>5. C[i - 1] \in Nat /\ C[i] \in Nat /\ C[i] >= v
      BY <1>1, <2>2, <2>4
    <2>6. C[i] = v /\ parent[i] = k
      BY <1>3, <2>3, <2>4, <2>5
    <2> QED
      BY <1>7, <2>3, <2>6
  <1> QED
    BY <1>4, <1>5, <1>8, <1>9 DEF NumberedInFileOrder, P

(***************************************************************************)
(* An import replaces the tree of its project by one in shape.             *)
(***************************************************************************)
LEMMA ImportKeepsShape ==
    ASSUME IInv, DepthsRight(nodes), NumbersRight(nodes), NEW r \in Requests, ImportCommit(r)
    PROVE  DepthsRight(nodes') /\ NumbersRight(nodes') /\ LeftNoChild
  <1> DEFINE q      == req[r]
             n      == Len(q.csv)
             lines  == 1..n
             doomed == {m \in Live : nodes[m].project = q.project}
             kept   == Remove(nodes, doomed)
             t      == nodes'
  <1> DEFINE Rows(depth, parent, id) ==
                 LET born    == {id[i] : i \in lines}
                     rowOf(m) == CHOOSE i \in lines : id[i] = m
                     rowFor(i) ==
                         [project |-> q.project,
                          parent |-> IF parent[i] = 0 THEN NULL ELSE id[parent[i]],
                          kind |-> RowKind(parent, i),
                          sortOrder |-> RowSortOrder(parent, i),
                          depth |-> depth[i], updatedAt |-> clock + 1]
                 IN  [m \in NodeIds |-> IF m \in born THEN rowFor(rowOf(m)) ELSE kept[m]]
             Told(id) == Record(Record(history, doomed, "DELETE"), {id[i] : i \in lines}, "CREATE")
  <1>1. PICK depth \in [lines -> 0..(MaxTreeDepth - 1)] :
              /\ IsCorrected(q.csv, depth)
              /\ \E parent \in [lines -> {0} \cup lines], id \in [lines -> Fresh] :
                 /\ IsParentage(depth, parent)
                 /\ \A i, j \in lines : id[i] = id[j] => i = j
                 /\ t = Rows(depth, parent, id)
    <2>1. \E depth \in [lines -> 0..(MaxTreeDepth - 1)] :
              /\ IsCorrected(q.csv, depth)
              /\ \E parent \in [lines -> {0} \cup lines], id \in [lines -> Fresh] :
                 /\ IsParentage(depth, parent)
                 /\ \A i, j \in lines : id[i] = id[j] => i = j
                 /\ Commit(r, Rows(depth, parent, id), Told(id))
      BY Zenon DEF ImportCommit
    <2> HIDE DEF Rows, Told, lines, q
    <2>2. \A rows, hist : Commit(r, rows, hist) => t = rows
      BY DEF Commit
    <2> HIDE DEF t
    <2> QED
      BY Zenon, <2>1, <2>2
  <1>2. PICK parent \in [lines -> {0} \cup lines], id \in [lines -> Fresh] :
                 /\ IsParentage(depth, parent)
                 /\ \A i, j \in lines : id[i] = id[j] => i = j
                 /\ t = Rows(depth, parent, id)
    BY <1>1
  <1> DEFINE born     == {id[i] : i \in lines}
             rowOf(m) == CHOOSE i \in lines : id[i] = m
             above(i) == IF parent[i] = 0 THEN NULL ELSE id[parent[i]]
             stamp    == clock + 1
             rowFor(i) ==
                 [project |-> q.project, parent |-> above(i),
                  kind |-> RowKind(parent, i), sortOrder |-> RowSortOrder(parent, i),
                  depth |-> depth[i], updatedAt |-> stamp]
  <1>3. t = [m \in NodeIds |-> IF m \in born THEN rowFor(rowOf(m)) ELSE kept[m]]
    BY <1>2
  <1>4. /\ nodes \in Table /\ doomed \in SUBSET NodeIds /\ NULL \notin NodeIds
        /\ \A m \in Live : nodes[m] \in Row /\ m \in NodeIds
        /\ q.csv \in Seq(Nat) /\ n \in Nat /\ q.project \in Projects
    <2>1. q.csv \in CsvFiles \cup {<< >>}
      BY DEF IInv, TypeOK, Request
    <2>2. q.csv \in Seq(Nat)
      BY <2>1, CsvAssumption
    <2>3. q.project \in Projects
      BY DEF ImportCommit, At, IInv, ChecksStayTrue, CheckStaysTrue
    <2> QED
      BY <2>2, <2>3, NullAssumption DEF IInv, TypeOK, Table, Live
  <1>5. \A i \in lines : /\ id[i] \in NodeIds /\ nodes[id[i]] = NULL /\ id[i] \in born
                         /\ rowOf(id[i]) = i
    <2>1. \A i \in lines : id[i] \in Fresh
      BY <1>2
    <2>2. \A m \in Fresh : m \in NodeIds /\ nodes[m] = NULL
      BY LiveHasHistory DEF Fresh, IInv, Live
    <2>3. \A i \in lines : rowOf(id[i]) \in lines /\ id[rowOf(id[i])] = id[i]
      OBVIOUS
    <2> QED
      BY <1>2, <2>1, <2>2, <2>3
  <1>6. \A m \in born : \E i \in lines : m = id[i]
    OBVIOUS
  <1>7. \A i \in lines : t[id[i]] = rowFor(i)
    BY <1>3, <1>5
  <1>8. \A m \in NodeIds \ born : t[m] = kept[m]
    BY <1>3
  <1>9. \A i \in lines : /\ t[id[i]].project = q.project /\ t[id[i]].parent = above(i)
                         /\ t[id[i]].sortOrder = RowSortOrder(parent, i)
                         /\ t[id[i]].depth = depth[i]
    <2> SUFFICES ASSUME NEW i \in lines
                 PROVE  /\ t[id[i]].project = q.project /\ t[id[i]].parent = above(i)
                        /\ t[id[i]].sortOrder = RowSortOrder(parent, i)
                        /\ t[id[i]].depth = depth[i]
      OBVIOUS
    <2>1. t[id[i]] = rowFor(i)
      BY <1>7
    <2> HIDE DEF t, above, stamp, q
    <2> QED
      BY <2>1
  <1>10. \A i \in lines : t[id[i]] # NULL
    <2> SUFFICES ASSUME NEW i \in lines PROVE t[id[i]] # NULL
      OBVIOUS
    <2>2. above(i) \in NodeIds \cup {NULL}
      BY <1>2, <1>5
    <2>3. RowKind(parent, i) \in Kinds
      BY DEF RowKind, Kinds
    <2>4. RowSortOrder(parent, i) \in Nat \ {0}
      <3>1. i \in Nat \ {0}
        BY <1>4
      <3> QED
        BY <3>1, OrdersFromOne
    <2>5. depth[i] \in Int /\ stamp \in Nat
      BY TreeDepthAssumption DEF IInv, TypeOK
    <2> HIDE DEF above, stamp
    <2>6. rowFor(i) \in Row
      BY <1>4, <2>2, <2>3, <2>4, <2>5 DEF Row
    <2> QED
      BY <1>7, <2>6, NoRowAssumption
  <1> HIDE DEF t, born, rowOf, rowFor, above
  <1>11. \A m \in NodeIds \ born :
            /\ t[m] # NULL <=> m \in Live \ doomed
            /\ m \in Live \ doomed =>
                  /\ t[m].project = nodes[m].project
                  /\ t[m].parent = IF nodes[m].parent \in doomed THEN NULL ELSE nodes[m].parent
                  /\ t[m].depth = nodes[m].depth
                  /\ t[m].sortOrder = nodes[m].sortOrder
    <2> HIDE DEF doomed, kept
    <2>1. \A m \in NodeIds : kept[m] = NULL <=> nodes[m] = NULL \/ m \in doomed
      BY <1>4, RemoveKeepsRows DEF kept
    <2>2. \A m \in NodeIds : kept[m] # NULL =>
                  /\ kept[m].project = nodes[m].project
                  /\ kept[m].parent = IF nodes[m].parent \in doomed THEN NULL ELSE nodes[m].parent
      BY <1>4, RemoveKeepsRows DEF kept
    <2>3. \A m \in NodeIds \ doomed : nodes[m] # NULL =>
                  /\ kept[m].depth = nodes[m].depth
                  /\ kept[m].sortOrder = nodes[m].sortOrder
      BY <1>4, RemoveWrites DEF kept
    <2> QED
      BY <1>8, <2>1, <2>2, <2>3 DEF Live
  <1>12. \A m \in Live \ doomed :
            /\ m \notin born /\ nodes[m].project # q.project
            /\ nodes[m].parent # NULL => nodes[m].parent \in Live \ doomed
            /\ nodes[m].parent \notin doomed
    <2>1. \A m \in Live \ doomed : m \notin born /\ nodes[m].project # q.project
      BY <1>5, <1>6 DEF Live
    <2>2. \A m \in Live \ doomed : nodes[m].parent # NULL =>
             /\ nodes[m].parent \in Live
             /\ nodes[nodes[m].parent].project = nodes[m].project
      BY DEF IInv, ParentIsLiveGroup
    <2> QED
      BY <1>4, <2>1, <2>2
  <1>13. \A i \in lines :
            \/ above(i) = NULL /\ depth[i] = 0 /\ parent[i] = 0
            \/ /\ parent[i] \in lines /\ parent[i] # 0 /\ above(i) = id[parent[i]]
               /\ depth[i] = depth[parent[i]] + 1
    <2>1. depth \in [1..Len(q.csv) -> Nat]
      BY TreeDepthAssumption
    <2>2. \A i \in 1..Len(q.csv) :
            \/ parent[i] = 0 /\ depth[i] = 0
            \/ /\ parent[i] \in 1..Len(q.csv) /\ parent[i] # 0
               /\ depth[i] = depth[parent[i]] + 1
      <3>1. IsOutline(q.csv, depth, parent)
        BY <1>1, <1>2, <1>4, <2>1 DEF IsOutline
      <3> HIDE DEF q, lines, n, t, kept, doomed
      <3> QED
        BY <3>1, ParentageFollowsDepth
    <2> QED
      BY <2>2 DEF above
  <1>14. \A i \in lines : depth[i] < MaxTreeDepth
    BY TreeDepthAssumption
  <1> HIDE DEF lines, doomed
  <1>15. DepthsRight(t)
    <2>1. ASSUME NEW m \in born
          PROVE  /\ t[m].depth = IF t[m].parent = NULL THEN 0 ELSE t[t[m].parent].depth + 1
                 /\ t[m].depth < MaxTreeDepth
      <3>1. PICK i \in lines : m = id[i]
        BY <1>6
      <3>2. CASE above(i) = NULL /\ depth[i] = 0
        BY <1>9, <1>14, <3>1, <3>2
      <3>3. CASE /\ parent[i] \in lines /\ above(i) = id[parent[i]]
                 /\ depth[i] = depth[parent[i]] + 1
        <4>1. id[parent[i]] # NULL /\ t[id[parent[i]]].depth = depth[parent[i]]
          BY <1>4, <1>5, <1>9, <3>3
        <4> QED
          BY <1>9, <1>14, <3>1, <3>3, <4>1
      <3> QED
        BY <1>13, <3>2, <3>3
    <2>2. ASSUME NEW m \in Live \ doomed
          PROVE  /\ t[m].depth = IF t[m].parent = NULL THEN 0 ELSE t[t[m].parent].depth + 1
                 /\ t[m].depth < MaxTreeDepth
      <3> DEFINE up == nodes[m].parent
      <3>1. m \in NodeIds \ born /\ nodes[m] # NULL
        BY <1>4, <1>12 DEF Live
      <3>2. t[m].parent = up /\ t[m].depth = nodes[m].depth
        BY <1>11, <1>12, <3>1
      <3>3. up # NULL => t[up].depth = nodes[up].depth
        BY <1>4, <1>11, <1>12
      <3>4. /\ nodes[m].depth = IF up = NULL THEN 0 ELSE nodes[up].depth + 1
            /\ nodes[m].depth < MaxTreeDepth
        BY <3>1 DEF DepthsRight
      <3> QED
        BY <3>2, <3>3, <3>4
    <2> QED
      BY <1>11, <2>1, <2>2 DEF DepthsRight
  <1>16. ASSUME NEW x \in Projects, NEW y \in NodeIds \cup {NULL}, x # q.project
         PROVE  IsNumbered(t, ChildRows(t, x, y))
    <2>1. ChildRows(t, x, y) = ChildRows(nodes, x, y)
      <3>1. ASSUME NEW m \in born PROVE m \notin ChildRows(t, x, y) /\ m \notin ChildRows(nodes, x, y)
        BY <1>5, <1>6, <1>9, <1>16 DEF ChildRows
      <3>2. ASSUME NEW m \in NodeIds \ born
            PROVE  m \in ChildRows(t, x, y) <=> m \in ChildRows(nodes, x, y)
        <4>1. CASE m \in Live \ doomed
          <5>1. t[m] # NULL /\ nodes[m] # NULL /\ t[m].project = nodes[m].project
                /\ t[m].parent = nodes[m].parent
            BY <1>11, <1>12, <3>2, <4>1 DEF Live
          <5> QED
            BY <5>1 DEF ChildRows
        <4>2. CASE m \notin Live \ doomed
          <5>1. t[m] = NULL
            BY <1>11, <4>2
          <5>2. nodes[m] = NULL \/ nodes[m].project = q.project
            BY <4>2 DEF doomed, Live
          <5> QED
            BY <1>16, <5>1, <5>2 DEF ChildRows
        <4> QED
          BY <4>1, <4>2
      <3>3. ChildRows(t, x, y) \subseteq NodeIds /\ ChildRows(nodes, x, y) \subseteq NodeIds
        BY DEF ChildRows
      <3> QED
        BY <3>1, <3>2, <3>3
    <2>2. ASSUME NEW m \in ChildRows(nodes, x, y) PROVE t[m].sortOrder = nodes[m].sortOrder
      <3>1. m \in Live \ doomed /\ m \in NodeIds
        BY <1>16, <2>2 DEF ChildRows, doomed, Live
      <3> QED
        BY <1>11, <1>12, <3>1
    <2>3. IsNumbered(nodes, ChildRows(nodes, x, y))
      BY DEF NumbersRight
    <2> QED
      BY <2>1, <2>2, <2>3, NumbersStay
  <1>17. ASSUME NEW k \in {0} \cup lines
         PROVE  LET P == {j \in lines : parent[j] = k}
                IN  IsNumbered(t, {id[j] : j \in P})
    <2> DEFINE P == {j \in lines : parent[j] = k}
               B == {id[j] : j \in P}
               f == [j \in P |-> id[j]]
    <2>1. P \in SUBSET (1..n) /\ IsFiniteSet(1..n)
      BY <1>4, FS_Interval DEF lines
    <2>2. IsFiniteSet(P)
      BY <2>1, FS_Subset
    <2>3. f \in Bijection(P, B)
      BY <1>2 DEF Bijection, Injection, IsInjective, Surjection, lines
    <2>4. ExistsBijection(P, B)
      BY <2>3 DEF ExistsBijection
    <2>5. Cardinality(B) = Cardinality(P)
      BY <2>2, <2>4, FS_Bijection
    <2>6. /\ \A j \in P : RowSortOrder(parent, j) \in 1..Cardinality(P)
          /\ \A v \in 1..Cardinality(P) : \E j \in P : RowSortOrder(parent, j) = v
      <3>1. NumberedInFileOrder(n, parent, k)
        BY <1>4, RowsAreNumbered
      <3>2. P = RowsUnder(n, parent, k)
        BY DEF lines, RowsUnder
      <3> QED
        BY <3>1, <3>2 DEF NumberedInFileOrder
    <2>7. \A j \in P : t[id[j]].sortOrder = RowSortOrder(parent, j)
      BY <1>9
    <2> HIDE DEF P
    <2>8. {t[m].sortOrder : m \in B} = 1..Cardinality(P)
      BY <2>6, <2>7
    <2> HIDE DEF B
    <2>9. IsNumbered(t, B)
      BY <2>5, <2>8 DEF IsNumbered
    <2> QED
      BY <2>9 DEF B, P
  <1>18. ASSUME NEW y \in NodeIds \cup {NULL}
         PROVE  IsNumbered(t, ChildRows(t, q.project, y))
    <2>1. ASSUME NEW m \in ChildRows(t, q.project, y) PROVE m \in born
      <3>1. m \in NodeIds /\ t[m] # NULL /\ t[m].project = q.project
        BY DEF ChildRows
      <3> QED
        BY <1>11, <1>12, <3>1
    <2>2. ChildRows(t, q.project, y) = {id[j] : j \in {i \in lines : above(i) = y}}
      <3>1. ASSUME NEW m \in ChildRows(t, q.project, y)
            PROVE  \E j \in lines : above(j) = y /\ m = id[j]
        BY <1>6, <1>9, <2>1, <3>1 DEF ChildRows
      <3>2. ASSUME NEW j \in lines, above(j) = y PROVE id[j] \in ChildRows(t, q.project, y)
        BY <1>5, <1>9, <1>10, <3>2 DEF ChildRows
      <3> QED
        BY <3>1, <3>2
    <2>3. CASE y = NULL
      <3>1. \A i \in lines : above(i) = y <=> parent[i] = 0
        BY <1>4, <1>5, <1>13, <2>3
      <3>2. {i \in lines : above(i) = y} = {i \in lines : parent[i] = 0}
        BY <3>1
      <3> QED
        BY <1>17, <2>2, <3>2
    <2>4. CASE \E k \in lines : y = id[k]
      <3>1. PICK k \in lines : y = id[k]
        BY <2>4
      <3>2. \A i \in lines : above(i) = y <=> parent[i] = k
        <4>1. y # NULL
          BY <1>4, <1>5, <3>1
        <4>2. k # 0
          BY DEF lines
        <4> QED
          BY <1>2, <1>13, <3>1, <4>1, <4>2
      <3>3. {i \in lines : above(i) = y} = {i \in lines : parent[i] = k}
        BY <3>2
      <3> QED
        BY <1>17, <2>2, <3>3
    <2>5. CASE y # NULL /\ ~\E k \in lines : y = id[k]
      <3>1. {i \in lines : above(i) = y} = {}
        BY <1>13, <2>5
      <3>2. ChildRows(t, q.project, y) = {}
        BY <2>2, <3>1
      <3> QED
        BY <3>2, NoRowsAreNumbered
    <2> QED
      BY <2>3, <2>4, <2>5
  <1>19. NumbersRight(t)
    <2>1. ASSUME NEW x \in Projects, NEW y \in NodeIds \cup {NULL}
          PROVE  IsNumbered(t, ChildRows(t, x, y))
      BY <1>16, <1>18
    <2> QED
      BY <2>1 DEF NumbersRight
  <1>20. LeftNoChild
    <2> SUFFICES ASSUME NEW m \in Live, nodes[m].parent \in Live, t[nodes[m].parent] = NULL
                 PROVE  t[m] = NULL
      BY DEF LeftNoChild, Live, t
    <2>1. \A k \in Live : k \in NodeIds \ born
      BY <1>4, <1>5, <1>6 DEF Live
    <2>2. nodes[m].parent \in doomed
      BY <1>11, <2>1
    <2>3. nodes[m].project = q.project
      BY <1>4, <2>2 DEF doomed, IInv, ParentIsLiveGroup
    <2> QED
      BY <1>11, <2>1, <2>3 DEF doomed
  <1> QED
    BY <1>15, <1>19, <1>20 DEF t

(***************************************************************************)
(* An update touches neither place nor depth.                              *)
(***************************************************************************)
LEMMA UpdateKeepsShape ==
    ASSUME IInv, DepthsRight(nodes), NumbersRight(nodes), NEW r \in Requests, UpdateCommit(r)
    PROVE  DepthsRight(nodes') /\ NumbersRight(nodes') /\ Live' = Live
  <1> DEFINE n == req[r].id
             t == nodes'
             stamp == clock + 1
  <1>1. n \in Live /\ t = [nodes EXCEPT ![n].updatedAt = stamp]
    BY DEF UpdateCommit, Commit
  <1>2. \A m \in NodeIds : nodes[m] # NULL => nodes[m] \in Row
    BY DEF IInv, TypeOK
  <1>3. nodes \in Table /\ n \in NodeIds /\ nodes[n] # NULL /\ stamp \in Nat
    BY <1>1 DEF IInv, TypeOK, Table, Live
  <1> HIDE DEF n, stamp, t
  <1>4. ASSUME NEW m \in NodeIds
        PROVE  /\ t[m] = NULL <=> nodes[m] = NULL
               /\ nodes[m] # NULL => /\ t[m].project = nodes[m].project
                                     /\ t[m].parent = nodes[m].parent
                                     /\ t[m].depth = nodes[m].depth
                                     /\ t[m].sortOrder = nodes[m].sortOrder
    <2>1. CASE m = n
      <3>1. t[m] = [nodes[m] EXCEPT !.updatedAt = stamp] /\ nodes[m] \in Row
        BY <1>1, <1>2, <1>3, <2>1 DEF Table
      <3>2. t[m] \in Row
        BY <1>3, <3>1 DEF Row
      <3> QED
        BY <1>3, <2>1, <3>1, <3>2, NoRowAssumption DEF Row
    <2>2. CASE m # n
      BY <1>1, <1>3, <2>2 DEF Table
    <2> QED
      BY <2>1, <2>2
  <1>5. ASSUME NEW m \in NodeIds, t[m] # NULL
        PROVE  /\ t[m].depth = IF t[m].parent = NULL THEN 0 ELSE t[t[m].parent].depth + 1
               /\ t[m].depth < MaxTreeDepth
    <2> DEFINE up == nodes[m].parent
    <2>1. /\ nodes[m] # NULL /\ t[m].parent = up /\ t[m].depth = nodes[m].depth
          /\ nodes[m].depth = IF up = NULL THEN 0 ELSE nodes[up].depth + 1
          /\ nodes[m].depth < MaxTreeDepth
      BY <1>4, <1>5 DEF DepthsRight
    <2>2. up # NULL => t[up].depth = nodes[up].depth
      BY <1>4, <2>1 DEF IInv, ParentIsLiveGroup, Live
    <2> QED
      BY <2>1, <2>2
  <1>6. ASSUME NEW p \in Projects, NEW q \in NodeIds \cup {NULL}
        PROVE  IsNumbered(t, ChildRows(t, p, q))
    <2>1. ChildRows(t, p, q) = ChildRows(nodes, p, q)
      BY <1>4 DEF ChildRows
    <2>2. \A m \in ChildRows(nodes, p, q) : t[m].sortOrder = nodes[m].sortOrder
      BY <1>4 DEF ChildRows
    <2>3. IsNumbered(nodes, ChildRows(nodes, p, q))
      BY DEF NumbersRight
    <2> QED
      BY <2>1, <2>2, <2>3, NumbersStay
  <1>7. Live' = Live
    BY <1>4 DEF Live, t
  <1> QED
    BY <1>5, <1>6, <1>7 DEF DepthsRight, NumbersRight, t

-------------------------------------------------------------------------------
(***************************************************************************)
(* One request at a time: what it has read is still true when it writes.   *)
(***************************************************************************)
DepthBelow(p) == IF p = NULL THEN 0 ELSE nodes[p].depth + 1

StillTrue(q) ==
    /\ q.op \in {"update", "move", "delete"} =>
          /\ q.id \in Live
          /\ q.old = nodes[q.id]
          /\ q.project = nodes[q.id].project
    /\ q.op \in {"update", "move"} => nodes[q.id].updatedAt = q.expected
    /\ q.op \in {"create", "move"} => q.parent \in Live \cup {NULL}
    /\ q.op = "create" => /\ q.newDepth = DepthBelow(q.parent)
                          /\ q.newDepth < MaxTreeDepth
    /\ q.op = "move" /\ q.step # "parent" => q.newDepth = DepthBelow(q.parent)
    /\ q.op = "move" /\ q.step = "commit" =>
          /\ q.subtree = Subtree(q.id)
          /\ q.parent \notin q.subtree
          /\ \A d \in {q.old.depth} \cup {nodes[m].depth : m \in q.subtree \ {q.id}} :
                d + (q.newDepth - q.old.depth) < MaxTreeDepth
    /\ q.op = "delete" /\ q.step = "commit" => q.subtree = DoomedBy(q.id)

TreeInv ==
    /\ IInv
    /\ DepthsRight(nodes)
    /\ NumbersRight(nodes)
    /\ \A r \in Requests : StillTrue(req[r])

\* A request that is not running has read nothing.
LEMMA IdleStaysTrue == StillTrue(Idle)
  BY DEF StillTrue, Idle

\* Nothing that was read changes while the database is left alone.
LEMMA ReadsStayTrue ==
    ASSUME NEW q, StillTrue(q), nodes' = nodes
    PROVE  StillTrue(q)'
  <1>1. Live' = Live /\ \A n : Subtree(n)' = Subtree(n)
    BY DEF Live, Subtree, ClosedUnderChildren
  <1> QED
    BY <1>1 DEF StillTrue, DepthBelow, DoomedBy

\* A read whose result is true.
LEMMA ReadKeepsTreeInv ==
    ASSUME TreeInv, IInv', NEW r \in Requests, NEW state, StillTrue(state), Goto(r, state)
    PROVE  TreeInv'
  <1>1. nodes' = nodes
    BY DEF Goto
  <1>2. ASSUME NEW q \in Requests PROVE StillTrue(req[q])'
    <2>1. req'[q] = req[q] \/ req'[q] = state
      BY DEF Goto, TreeInv, IInv, TypeOK
    <2>2. StillTrue(req[q]) /\ StillTrue(state)
      BY DEF TreeInv
    <2>3. PICK s : s = req'[q] /\ StillTrue(s)
      BY <2>1, <2>2
    <2>4. StillTrue(s)'
      BY <1>1, <2>3, ReadsStayTrue
    <2> QED
      BY <2>3, <2>4 DEF StillTrue
  <1> QED
    BY <1>1, <1>2 DEF TreeInv

(***************************************************************************)
(* A commit ends the only request: nothing that was read is left.          *)
(***************************************************************************)
LEMMA CommitKeepsTreeInv ==
    ASSUME TreeInv, OneAtATime, IInv', NEW r \in Requests, req[r].op # "none",
           req' = [req EXCEPT ![r] = Idle],
           DepthsRight(nodes'), NumbersRight(nodes')
    PROVE  TreeInv'
  <1>1. ASSUME NEW q \in Requests PROVE req'[q] = Idle
    <2>1. req[r] # Idle
      BY DEF Idle
    <2>2. q # r => req[q] = Idle
      BY <2>1 DEF OneAtATime
    <2> QED
      BY <2>2 DEF TreeInv, IInv, TypeOK
  <1>2. ASSUME NEW q \in Requests PROVE StillTrue(req[q])'
    BY <1>1 DEF StillTrue, Idle
  <1> QED
    BY <1>2 DEF TreeInv

\* What each read leaves in its request is true.
LEMMA ReadsGiveTreeInv ==
    ASSUME TreeInv, IInv', NEW r \in Requests,
           \/ CreateRead(r) \/ UpdateRead(r) \/ MoveReadTarget(r) \/ MoveReadParent(r)
           \/ MoveReadRows(r) \/ DeleteReadTarget(r) \/ DeleteReadRows(r) \/ ImportRead(r)
    PROVE  TreeInv'
  <1> DEFINE q == req[r]
  <1>0. /\ NULL \notin Live /\ q \in Request /\ StillTrue(q)
        /\ \A n \in Live : nodes[n] \in Row
    BY NullAssumption DEF Live, TreeInv, IInv, TypeOK
  <1>1. CASE CreateRead(r)
    <2>1. PICK p \in Projects, up \in Live \cup {NULL}, k \in Kinds :
              LET depth == IF up = NULL THEN 0 ELSE nodes[up].depth + 1
              IN  /\ depth < MaxTreeDepth
                  /\ Goto(r, [Idle EXCEPT !.op = "create", !.step = "commit",
                                          !.project = p, !.parent = up, !.kind = k,
                                          !.newDepth = depth])
      BY <1>1 DEF CreateRead
    <2> DEFINE depth == DepthBelow(up)
               s == [Idle EXCEPT !.op = "create", !.step = "commit", !.project = p,
                                 !.parent = up, !.kind = k, !.newDepth = depth]
    <2>2. depth < MaxTreeDepth /\ Goto(r, s)
      BY <2>1 DEF DepthBelow
    <2> HIDE DEF depth
    <2>3. /\ s.op = "create" /\ s.step = "commit" /\ s.parent = up /\ s.newDepth = depth
      BY DEF Idle
    <2> HIDE DEF s
    <2>4. StillTrue(s)
      BY <2>2, <2>3 DEF StillTrue, depth
    <2> QED
      BY <2>2, <2>4, ReadKeepsTreeInv
  <1>2. CASE UpdateRead(r)
    <2>1. PICK n \in Live, e \in 0..clock :
              /\ VersionMatches(nodes[n], e)
              /\ Goto(r, [Idle EXCEPT !.op = "update", !.step = "commit", !.id = n,
                                      !.project = nodes[n].project,
                                      !.expected = e, !.old = nodes[n]])
      BY <1>2 DEF UpdateRead
    <2> DEFINE s == [Idle EXCEPT !.op = "update", !.step = "commit", !.id = n,
                                 !.project = nodes[n].project,
                                 !.expected = e, !.old = nodes[n]]
    <2>2. /\ s.op = "update" /\ s.id = n /\ s.project = nodes[n].project
          /\ s.expected = e /\ s.old = nodes[n]
      BY DEF Idle
    <2>3. Goto(r, s) /\ nodes[n].updatedAt = e
      BY <2>1 DEF VersionMatches
    <2> HIDE DEF s
    <2>4. StillTrue(s)
      BY <2>2, <2>3 DEF StillTrue
    <2> QED
      BY <2>3, <2>4, ReadKeepsTreeInv
  <1>3. CASE MoveReadTarget(r)
    <2>1. PICK n \in Live, e \in 0..clock, up \in Live \cup {NULL},
               position \in 1..Cardinality(NodeIds) :
              /\ VersionMatches(nodes[n], e)
              /\ Goto(r, [Idle EXCEPT
                            !.op = "move",
                            !.step = IF up = NULL THEN "rows" ELSE "parent",
                            !.id = n, !.project = nodes[n].project, !.parent = up,
                            !.position = position, !.expected = e,
                            !.old = nodes[n]])
      BY <1>3 DEF MoveReadTarget
    <2> DEFINE step == IF up = NULL THEN "rows" ELSE "parent"
               s == [Idle EXCEPT !.op = "move", !.step = step,
                                 !.id = n, !.project = nodes[n].project, !.parent = up,
                                 !.position = position, !.expected = e,
                                 !.old = nodes[n]]
    <2>2. /\ step # "commit" /\ (step # "parent" => up = NULL)
          /\ Goto(r, s) /\ nodes[n].updatedAt = e
      BY <2>1 DEF VersionMatches
    <2> HIDE DEF step
    <2>3. /\ s.op = "move" /\ s.step = step /\ s.id = n /\ s.project = nodes[n].project
          /\ s.expected = e /\ s.old = nodes[n] /\ s.parent = up /\ s.newDepth = 0
      BY DEF Idle
    <2> HIDE DEF s
    <2>4. StillTrue(s)
      BY <2>2, <2>3 DEF StillTrue, DepthBelow
    <2> QED
      BY <2>2, <2>4, ReadKeepsTreeInv
  <1>4. CASE MoveReadParent(r)
    <2> DEFINE d == nodes[q.parent].depth + 1
               s == [q EXCEPT !.step = "rows", !.newDepth = d]
    <2>1. q.op = "move" /\ q.parent \in Live /\ Goto(r, s)
      BY <1>4 DEF MoveReadParent, At
    <2> HIDE DEF d, q
    <2>2. /\ s.op = q.op /\ s.project = q.project /\ s.parent = q.parent /\ s.id = q.id
          /\ s.old = q.old /\ s.expected = q.expected /\ s.step = "rows" /\ s.newDepth = d
      BY <1>0 DEF Request
    <2> HIDE DEF s
    <2>3. d = DepthBelow(q.parent)
      BY <1>0, <2>1 DEF DepthBelow, d
    <2>4. StillTrue(s)
      BY <1>0, <2>1, <2>2, <2>3 DEF StillTrue
    <2> QED
      BY <2>1, <2>4, ReadKeepsTreeInv
  <1>5. CASE MoveReadRows(r)
    <2> DEFINE below == Subtree(q.id)
               s == [q EXCEPT !.step = "commit", !.subtree = below]
    <2>1. /\ q.op = "move" /\ q.step = "rows" /\ Goto(r, s) /\ q.parent \notin below
          /\ \A d \in {q.old.depth} \cup {nodes[m].depth : m \in below \ {q.id}} :
                d + (q.newDepth - q.old.depth) < MaxTreeDepth
      BY <1>5 DEF MoveReadRows, At, NoCycle
    <2> HIDE DEF below, q
    <2>2. /\ s.op = q.op /\ s.project = q.project /\ s.parent = q.parent /\ s.id = q.id
          /\ s.old = q.old /\ s.expected = q.expected /\ s.step = "commit"
          /\ s.newDepth = q.newDepth /\ s.subtree = below
      BY <1>0 DEF Request
    <2> HIDE DEF s
    <2>3. StillTrue(s)
      BY <1>0, <2>1, <2>2 DEF StillTrue, below
    <2> QED
      BY <2>1, <2>3, ReadKeepsTreeInv
  <1>6. CASE DeleteReadTarget(r)
    <2>1. PICK n \in Live :
              Goto(r, [Idle EXCEPT !.op = "delete", !.step = "rows", !.id = n,
                                   !.project = nodes[n].project, !.old = nodes[n]])
      BY <1>6 DEF DeleteReadTarget
    <2> DEFINE s == [Idle EXCEPT !.op = "delete", !.step = "rows", !.id = n,
                                 !.project = nodes[n].project, !.old = nodes[n]]
    <2>2. /\ s.op = "delete" /\ s.id = n /\ s.project = nodes[n].project
          /\ s.step = "rows" /\ s.old = nodes[n]
      BY DEF Idle
    <2>3. Goto(r, s)
      BY <2>1
    <2> HIDE DEF s
    <2>4. StillTrue(s)
      BY <2>2 DEF StillTrue
    <2> QED
      BY <2>3, <2>4, ReadKeepsTreeInv
  <1>7. CASE DeleteReadRows(r)
    <2> DEFINE doomed == DoomedBy(q.id)
               s == [q EXCEPT !.step = "commit", !.subtree = doomed]
    <2>1. q.op = "delete" /\ Goto(r, s)
      BY <1>7 DEF DeleteReadRows, At
    <2> HIDE DEF doomed, q
    <2>2. /\ s.op = q.op /\ s.project = q.project /\ s.id = q.id
          /\ s.old = q.old /\ s.step = "commit" /\ s.subtree = doomed
      BY <1>0 DEF Request
    <2> HIDE DEF s
    <2>3. StillTrue(s)
      BY <1>0, <2>1, <2>2 DEF StillTrue, doomed
    <2> QED
      BY <2>1, <2>3, ReadKeepsTreeInv
  <1>8. CASE ImportRead(r)
    <2>1. PICK p \in Projects, csv \in CsvFiles :
              Goto(r, [Idle EXCEPT !.op = "import", !.step = "commit",
                                   !.project = p, !.csv = csv])
      BY <1>8 DEF ImportRead
    <2> DEFINE s == [Idle EXCEPT !.op = "import", !.step = "commit",
                                 !.project = p, !.csv = csv]
    <2>2. s.op = "import"
      BY DEF Idle
    <2>3. Goto(r, s)
      BY <2>1
    <2> HIDE DEF s
    <2>4. StillTrue(s)
      BY <2>2 DEF StillTrue
    <2> QED
      BY <2>3, <2>4, ReadKeepsTreeInv
  <1> QED
    BY <1>1, <1>2, <1>3, <1>4, <1>5, <1>6, <1>7, <1>8

(***************************************************************************)
(* What the only request in flight writes keeps the shape, is over what    *)
(* its client has seen, and leaves no child behind.                        *)
(***************************************************************************)
LEMMA CommitsKeepTheShape ==
    ASSUME TreeInv, NEW r \in Requests,
           \/ CreateCommit(r) \/ UpdateCommit(r) \/ MoveCommit(r)
           \/ DeleteCommit(r) \/ ImportCommit(r)
    PROVE  /\ DepthsRight(nodes') /\ NumbersRight(nodes')
           /\ LeftNoChild
           /\ req[r].op # "none" /\ req' = [req EXCEPT ![r] = Idle]
  <1> DEFINE q == req[r]
  <1>0. /\ NULL \notin Live /\ q \in Request /\ StillTrue(q) /\ CheckStaysTrue(q)
        /\ IInv /\ DepthsRight(nodes) /\ NumbersRight(nodes)
    BY NullAssumption DEF Live, TreeInv, IInv, TypeOK, ChecksStayTrue
  <1>1. req' = [req EXCEPT ![r] = Idle]
    BY DEF CreateCommit, UpdateCommit, MoveCommit, DeleteCommit, ImportCommit, Commit
  <1>2. q.op # "none"
    BY DEF CreateCommit, UpdateCommit, MoveCommit, DeleteCommit, ImportCommit, At
  <1>8. ASSUME Live \subseteq Live' PROVE LeftNoChild
    BY <1>8 DEF LeftNoChild
  <1>3. CASE CreateCommit(r)
    <2>1. /\ q.newDepth = IF q.parent = NULL THEN 0 ELSE nodes[q.parent].depth + 1
          /\ q.newDepth < MaxTreeDepth
      BY <1>0, <1>3 DEF CreateCommit, At, StillTrue, DepthBelow
    <2>2. Live \subseteq Live'
      <3>1. PICK n \in Fresh : \E row : nodes' = [nodes EXCEPT ![n] = row]
        BY <1>3 DEF CreateCommit, Commit
      <3>2. n \notin Live /\ nodes \in [NodeIds -> Row \cup {NULL}]
        BY <1>0, LiveHasHistory DEF Fresh, IInv, TypeOK
      <3> QED
        BY <3>1, <3>2 DEF Live
    <2> QED
      BY <1>0, <1>1, <1>2, <1>3, <1>8, <2>1, <2>2, CreateKeepsShape
  <1>4. CASE UpdateCommit(r)
    BY <1>0, <1>1, <1>2, <1>4, <1>8, UpdateKeepsShape
  <1>5. CASE MoveCommit(r)
    <2>1. nodes' = Moved(q) /\ q.op = "move" /\ q.step = "commit"
      BY <1>5 DEF MoveCommit, Commit, At
    <2>2. /\ q.id \in Live /\ q.position > 0 /\ q.old = nodes[q.id]
          /\ q.project = nodes[q.id].project /\ q.subtree = Subtree(q.id)
          /\ q.parent \in Live \cup {NULL} /\ q.parent \notin q.subtree
          /\ q.newDepth = IF q.parent = NULL THEN 0 ELSE nodes[q.parent].depth + 1
          /\ \A d \in {q.old.depth} \cup {nodes[m].depth : m \in q.subtree \ {q.id}} :
                d + (q.newDepth - q.old.depth) < MaxTreeDepth
      BY <1>0, <2>1 DEF StillTrue, DepthBelow, CheckStaysTrue
    <2> HIDE DEF q
    <2>3. DepthsRight(Moved(q))
      BY <1>0, <2>2, MoveKeepsDepths
    <2>4. NumbersRight(Moved(q))
      BY <1>0, <2>2, MoveKeepsNumbers
    <2>5. q.old \in Row
      BY <1>0, <2>2 DEF IInv, TypeOK, Live
    <2>6. \A m \in NodeIds : Moved(q)[m] = NULL <=> nodes[m] = NULL
      BY <1>0, <2>2, <2>5, MovedKeepsShape
    <2>7. Live \subseteq Live'
      BY <2>1, <2>6 DEF Live
    <2> QED
      BY <1>1, <1>2, <1>8, <2>1, <2>3, <2>4, <2>7 DEF q
  <1>6. CASE DeleteCommit(r)
    <2>1. /\ q.id \in Live /\ q.old = nodes[q.id] /\ q.project = nodes[q.id].project
          /\ q.subtree = DoomedBy(q.id)
      BY <1>0, <1>6 DEF DeleteCommit, At, StillTrue
    <2> QED
      BY <1>0, <1>1, <1>2, <1>6, <2>1, DeleteKeepsShape
  <1>7. CASE ImportCommit(r)
    BY <1>0, <1>1, <1>2, <1>7, ImportKeepsShape
  <1> QED
    BY <1>3, <1>4, <1>5, <1>6, <1>7

\* The inductive invariant says what the run checks.
LEMMA TreeInvShape == TreeInv => TreeInShape
  <1> SUFFICES ASSUME TreeInv PROVE TreeInShape
    OBVIOUS
  <1>1. Acyclic
    BY DepthsForbidCycles DEF TreeInv, IInv
  <1>2. DepthFollowsParent
    BY DEF TreeInv, DepthsRight, DepthFollowsParent, Live
  <1>3. ASSUME NEW p \in Projects, NEW q \in Live \cup {NULL}
        PROVE  {nodes[m].sortOrder : m \in Children(p, q)} = 1..Cardinality(Children(p, q))
    <2>1. Children(p, q) = ChildRows(nodes, p, q)
      BY DEF Children, ChildRows, Live
    <2> QED
      BY <2>1 DEF TreeInv, NumbersRight, IsNumbered, Live
  <1> QED
    BY <1>1, <1>2, <1>3 DEF TreeInShape, SortOrderContiguous

\* An empty database.
LEMMA InitTreeInv == Init => TreeInv /\ OneAtATime
  <1> SUFFICES ASSUME Init PROVE TreeInv /\ OneAtATime
    OBVIOUS
  <1>1. \A n \in NodeIds : nodes[n] = NULL
    BY DEF Init
  <1>2. DepthsRight(nodes)
    BY <1>1 DEF DepthsRight
  <1>3. ASSUME NEW p \in Projects, NEW q \in NodeIds \cup {NULL}
        PROVE  IsNumbered(nodes, ChildRows(nodes, p, q))
    <2>1. ChildRows(nodes, p, q) = {}
      BY <1>1 DEF ChildRows
    <2> QED
      BY <2>1, NoRowsAreNumbered
  <1>4. \A r \in Requests : req[r] = Idle
    BY DEF Init
  <1> QED
    BY <1>2, <1>3, <1>4, InitIInv, IdleStaysTrue DEF TreeInv, NumbersRight, OneAtATime

\* No step of a request that runs alone breaks the invariant.
LEMMA NextTreeInv == TreeInv /\ OneAtATime /\ [Next]_vars => TreeInv'
  <1> SUFFICES ASSUME TreeInv, OneAtATime, [Next]_vars PROVE TreeInv'
    OBVIOUS
  <1>0. IInv'
    BY NextIInv DEF TreeInv
  <1>1. ASSUME nodes' = nodes, req' = req \/ req' = [r \in Requests |-> Idle] PROVE TreeInv'
    <2>1. ASSUME NEW r \in Requests PROVE StillTrue(req[r])'
      <3>1. CASE req' = req
        <4>1. PICK s : s = req[r] /\ StillTrue(s)
          BY DEF TreeInv
        <4>2. StillTrue(s)'
          BY <1>1, <4>1, ReadsStayTrue
        <4> QED
          BY <3>1, <4>1, <4>2 DEF StillTrue
      <3>2. CASE req' = [s \in Requests |-> Idle]
        BY <3>2 DEF StillTrue, Idle
      <3> QED
        BY <1>1, <3>1, <3>2
    <2> QED
      BY <1>0, <1>1, <2>1 DEF TreeInv
  <1>2. CASE UNCHANGED vars
    BY <1>1, <1>2 DEF vars
  <1>3. CASE Restart
    BY <1>1, <1>3 DEF Restart
  <1>4. ASSUME NEW r \in Requests, Handler(r) PROVE TreeInv'
    <2>1. CASE \/ CreateRead(r) \/ UpdateRead(r) \/ MoveReadTarget(r) \/ MoveReadParent(r)
               \/ MoveReadRows(r) \/ DeleteReadTarget(r) \/ DeleteReadRows(r) \/ ImportRead(r)
      BY <1>0, <2>1, ReadsGiveTreeInv
    <2>2. CASE \/ CreateCommit(r) \/ UpdateCommit(r) \/ MoveCommit(r)
               \/ DeleteCommit(r) \/ ImportCommit(r)
      <3>1. /\ DepthsRight(nodes') /\ NumbersRight(nodes')
            /\ req[r].op # "none" /\ req' = [req EXCEPT ![r] = Idle]
        BY <2>2, CommitsKeepTheShape
      <3> QED
        BY <1>0, <3>1, CommitKeepsTreeInv
    <2>3. CASE Hang(r)
      BY <1>1, <2>3 DEF Hang
    <2>4. CASE Fail(r)
      <3>1. Goto(r, Idle)
        BY <2>4 DEF Fail, Goto
      <3> QED
        BY <1>0, <3>1, IdleStaysTrue, ReadKeepsTreeInv
    <2> QED
      BY <1>4, <2>1, <2>2, <2>3, <2>4 DEF Handler
  <1> QED
    BY <1>2, <1>3, <1>4 DEF Next

\* What a request that runs alone writes is what its client asked for.
LEMMA WritesAreAsked ==
    TreeInv /\ [Next]_vars => LostNothing /\ LeftNoChild
  <1> SUFFICES ASSUME TreeInv, [Next]_vars PROVE LostNothing /\ LeftNoChild
    OBVIOUS
  <1>1. LostNothing
    <2> SUFFICES ASSUME NEW r \in Requests, req[r].op \in {"update", "move"}
                 PROVE  nodes[req[r].id].updatedAt = req[r].expected
      BY DEF LostNothing
    <2> QED
      BY DEF TreeInv, StillTrue
  <1>2. ASSUME nodes' = nodes PROVE LeftNoChild
    BY <1>2 DEF LeftNoChild, Live
  <1>3. CASE UNCHANGED vars
    BY <1>1, <1>2, <1>3 DEF vars
  <1>4. CASE Restart
    BY <1>1, <1>2, <1>4 DEF Restart
  <1>5. ASSUME NEW r \in Requests, Handler(r) PROVE LeftNoChild
    <2>1. CASE \/ CreateRead(r) \/ UpdateRead(r) \/ MoveReadTarget(r) \/ MoveReadParent(r)
               \/ MoveReadRows(r) \/ DeleteReadTarget(r) \/ DeleteReadRows(r)
               \/ ImportRead(r) \/ Hang(r) \/ Fail(r)
      <3>1. nodes' = nodes
        BY <2>1 DEF CreateRead, UpdateRead, MoveReadTarget, MoveReadParent, MoveReadRows,
                    DeleteReadTarget, DeleteReadRows, ImportRead, Hang, Fail, Goto
      <3> QED
        BY <1>2, <3>1
    <2>2. CASE \/ CreateCommit(r) \/ UpdateCommit(r) \/ MoveCommit(r)
               \/ DeleteCommit(r) \/ ImportCommit(r)
      BY <2>2, CommitsKeepTheShape
    <2> QED
      BY <1>5, <2>1, <2>2 DEF Handler
  <1> QED
    BY <1>1, <1>3, <1>4, <1>5 DEF Next

(***************************************************************************)
(* As long as no two requests overlap, the tree has no cycle, the depths   *)
(* follow the parents and stay below the limit, and siblings are numbered  *)
(* without gap or repeat, whatever is created, moved, deleted or imported  *)
(* (nodes.service.ts, 276-456).                                            *)
(***************************************************************************)
THEOREM ShapeOneAtATime == Spec /\ []OneAtATime => []TreeInShape
  <1>1. Init => TreeInv
    BY InitTreeInv
  <1>2. TreeInv /\ OneAtATime /\ [Next]_vars => TreeInv'
    BY NextTreeInv
  <1>3. TreeInv => TreeInShape
    BY TreeInvShape
  <1> QED
    BY <1>1, <1>2, <1>3, PTL DEF Spec

(***************************************************************************)
(* As long as no two requests overlap, an update or a move is written only *)
(* over the version its client has seen, and a node goes with all that is  *)
(* below it (nodes.service.ts, 163-521).                                   *)
(***************************************************************************)
THEOREM AskedOneAtATime == Spec /\ []OneAtATime => NoLostUpdate /\ DeleteTakesSubtree
  <1>1. Init => TreeInv
    BY InitTreeInv
  <1>2. TreeInv /\ OneAtATime /\ [Next]_vars => TreeInv'
    BY NextTreeInv
  <1>3. TreeInv /\ [Next]_vars => [LostNothing]_vars /\ [LeftNoChild]_vars
    BY WritesAreAsked
  <1> QED
    BY <1>1, <1>2, <1>3, PTL DEF Spec, NoLostUpdate, DeleteTakesSubtree

-------------------------------------------------------------------------------
(* The run with the two parts                                              *)

MCInv == part = "alone" => TreeInv /\ OneAtATime

\* In the run the part "alone" is one of requests that do not overlap.
LEMMA MCInvHolds == MCSpec => []MCInv
  <1>1. MCInit => MCInv
    BY InitTreeInv DEF MCInit, MCInv
  <1>2. MCInv /\ [MCNext]_treeVars => MCInv'
    <2> SUFFICES ASSUME MCInv, [MCNext]_treeVars, part' = "alone"
                 PROVE  TreeInv' /\ OneAtATime'
      BY DEF MCInv
    <2>1. TreeInv /\ OneAtATime /\ [Next]_vars
      BY DEF MCInv, MCNext, treeVars
    <2>2. OneAtATime'
      BY <2>1 DEF MCNext, treeVars, vars, OneAtATime
    <2> QED
      BY <2>1, <2>2, NextTreeInv
  <1> QED
    BY <1>1, <1>2, PTL DEF MCSpec

(***************************************************************************)
(* The shape of the tree in the run (nodes.service.ts, 276-456).           *)
(***************************************************************************)
THEOREM ShapeIsKept == MCSpec => []TreeStaysInShape
  <1>1. MCInv => TreeStaysInShape
    BY TreeInvShape DEF MCInv, TreeStaysInShape
  <1> QED
    BY <1>1, MCInvHolds, PTL

(***************************************************************************)
(* What is written in the run (nodes.service.ts, 163-521).                 *)
(***************************************************************************)
THEOREM RequestsAreObeyed == MCSpec => RequestsDoAsAsked
  <1>1. MCInv /\ [MCNext]_treeVars => [part = "alone" => LostNothing /\ LeftNoChild]_vars
    BY WritesAreAsked DEF MCInv, MCNext, treeVars
  <1> QED
    BY <1>1, MCInvHolds, PTL DEF MCSpec, RequestsDoAsAsked
===============================================================================
