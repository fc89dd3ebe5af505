------------------------------ MODULE NodeLedger ------------------------------
(***************************************************************************)
(* What the schedule tree promises whoever reads it or its history, with   *)
(* no requests, orders, depths or versions: an id lives at most once; its  *)
(* project and kind are settled at birth; nodes are hung only below live   *)
(* GROUPs of their project, one at a time; and a child that outlives its   *)
(* parent becomes a root.  NodeTree implements it.                         *)
(***************************************************************************)
EXTENDS FiniteSets

CONSTANTS NodeIds, Projects, NULL

VARIABLES
    life,       \* unborn, live or gone
    label,      \* project and kind of a live node
    parent      \* its parent, NULL for a root

vars == <<life, label, parent>>

Label == [project : Projects, kind : {"GROUP", "ITEM"}]

LedgerInit ==
    /\ life = [n \in NodeIds |-> "unborn"]
    /\ label = [n \in NodeIds |-> NULL]
    /\ parent = [n \in NodeIds |-> NULL]

In(state) == {n \in NodeIds : life[n] = state}

\* With labels lab, node n may hang below q.
MayHang(lab, n, q) ==
    q # NULL => lab[q] = [project |-> lab[n].project, kind |-> "GROUP"]

(***************************************************************************)
(* Some nodes die and some are born in one step; the survivors keep their  *)
(* label and their parent, unless it died.                                 *)
(***************************************************************************)
Turnover(born, dead) ==
    /\ born \cup dead # {}
    /\ life' = [n \in NodeIds |-> IF n \in born THEN "live"
                                  ELSE IF n \in dead THEN "gone" ELSE life[n]]
    /\ \E lab \in [born -> Label] :
          label' = [n \in NodeIds |-> IF n \in born THEN lab[n]
                                      ELSE IF n \in dead THEN NULL ELSE label[n]]
    /\ \E par \in [born -> NodeIds \cup {NULL}] :
          /\ \A n \in born : MayHang(label', n, par[n])
          /\ parent' = [n \in NodeIds |->
                           IF n \in born THEN par[n]
                           ELSE IF n \in dead \/ parent[n] \in dead THEN NULL
                           ELSE parent[n]]

Rehang(n, q) ==
    /\ life[n] = "live"
    /\ MayHang(label, n, q)
    /\ parent' = [parent EXCEPT ![n] = q]
    /\ UNCHANGED <<life, label>>

LedgerNext ==
    \/ \E born \in SUBSET In("unborn"), dead \in SUBSET In("live") : Turnover(born, dead)
    \/ \E n \in NodeIds, q \in NodeIds \cup {NULL} : Rehang(n, q)

LedgerSpec == LedgerInit /\ [][LedgerNext]_vars
===============================================================================
