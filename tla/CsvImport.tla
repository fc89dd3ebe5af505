------------------------------ MODULE CsvImport ------------------------------
(***************************************************************************)
(* The pure part of importCsv (nodes.service.ts): how the rows of a CSV    *)
(* become a forest.  A row is abstracted to the column in which its title  *)
(* was found (its raw depth); the rows without a title are already gone.   *)
(* The operators are relations over the whole list of rows, so that the    *)
(* modules that use them need no recursion.                                *)
(***************************************************************************)
EXTENDS Integers, Sequences, FiniteSets, FiniteSetsExt

(***************************************************************************)
(* Corrections 1 and 2: the first row is a root, and a row goes at most    *)
(* one level below the row before it.                                      *)
(***************************************************************************)
IsCorrected(raw, depth) ==
    \A i \in 1..Len(raw) :
        depth[i] = IF i = 1 THEN 0 ELSE Min({raw[i], depth[i - 1] + 1})

(***************************************************************************)
(* The parent of a row is the nearest row above it that is one level       *)
(* shallower; 0 stands for "no parent".                                    *)
(***************************************************************************)
IsParentage(depth, parent) ==
    \A i \in DOMAIN depth :
        LET above == {j \in 1..(i - 1) : depth[j] = depth[i] - 1}
        IN  IF above = {} THEN parent[i] = 0
            ELSE parent[i] \in above /\ \A j \in above : j <= parent[i]

\* A row with children is a GROUP, every other row an ITEM.
RowKind(parent, i) ==
    IF \E j \in DOMAIN parent : parent[j] = i THEN "GROUP" ELSE "ITEM"

\* sortOrder counts the rows of one parent, in the order of the file.
RowSortOrder(parent, i) == Cardinality({j \in 1..i : parent[j] = parent[i]})
==============================================================================
