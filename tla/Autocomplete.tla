----------------------------- MODULE Autocomplete -----------------------------
(***************************************************************************)
(* The terms that the forms offer for a title (apps/api/src/autocomplete): *)
(* those an administrator makes (isSystem) and those that come from the    *)
(* titles of nodes, by collect after every write of a node and by an       *)
(* hourly synchronisation.                                                 *)
(*                                                                         *)
(* A key is a trimmed title of one kind; (title, kind) is unique, so a row *)
(* is found by its key.  The ids that a synchronisation or an edit has     *)
(* read are marks on the rows: they move with a row that is renamed.       *)
(*                                                                         *)
(* Left out: the queries that only list terms, and audit rows.             *)
(***************************************************************************)
EXTENDS Integers, FiniteSets

CONSTANTS
    Titles,     \* titles as nodes have them
    Keys,       \* trimmed titles
    Trim,       \* title -> key
    Admins,     \* each edits one term at a time
    MaxFaults,  \* bound on the errors and restarts that end a synchronisation
    NoTerm

ASSUME TrimAssumption == Trim \in [Titles -> Keys] /\ NoTerm \notin Keys

VARIABLES
    node,           \* titles that some node has
    collecting,     \* titles of nodes written, collect is still to come
    term,           \* key -> row or NoTerm
    sync,           \* the synchronisation that runs in this process
    edit,           \* admin -> the edit under way
    faults          \* errors and restarts so far

autocompleteVars == <<node, collecting, term, sync, edit, faults>>

\* seen: the key of the row when the synchronisation read it.
Row == [system : BOOLEAN, seen : Keys \cup {NoTerm}, target : SUBSET Admins]

\* phase is "idle" exactly when isSyncing is not set; overtaken is for the
\* properties: a node or a term was written since the reads began.
Sync == [phase : {"idle", "read", "delete", "insert", "rows"},
         left : SUBSET {"terms", "nodes"}, terms : SUBSET Keys, nodes : SUBSET Titles,
         rows : SUBSET Titles, overtaken : BOOLEAN]

NoSync == [phase |-> "idle", left |-> {}, terms |-> {}, nodes |-> {}, rows |-> {},
           overtaken |-> FALSE]
Edit == [step : {"idle", "check", "write"}, op : {"none", "create", "update", "delete"},
         key : Keys \cup {NoTerm}]

NoEdit == [step |-> "idle", op |-> "none", key |-> NoTerm]

Offered == {k \in Keys : term[k] # NoTerm}
Used    == {Trim[t] : t \in node}

NewRow(system) == [system |-> system, seen |-> NoTerm, target |-> {}]

Overtake == sync' = [sync EXCEPT !.overtaken = sync.phase # "idle"]

-------------------------------------------------------------------------------
(* Nodes, and collect after create and update (nodes.service.ts)           *)

AddNode ==
    /\ \E t \in Titles \ node :
          /\ node' = node \cup {t}
          /\ collecting' = collecting \cup {t}
    /\ Overtake
    /\ UNCHANGED <<term, edit, faults>>

DropNode ==
    /\ \E t \in node : node' = node \ {t}
    /\ UNCHANGED <<collecting, term, sync, edit, faults>>

\* An upsert that leaves an existing row alone; an error is only logged.
Collect(t) ==
    /\ t \in collecting
    /\ collecting' = collecting \ {t}
    /\ \/ term' = [term EXCEPT ![Trim[t]] = IF @ = NoTerm THEN NewRow(FALSE) ELSE @]
       \/ UNCHANGED term
    /\ UNCHANGED <<node, sync, edit, faults>>

-------------------------------------------------------------------------------
(* createAdminTerm, updateAdminTerm and deleteAdminTerm                    *)

Marked(a) == {k \in Offered : a \in term[k].target}

EndEdit(a, rows) ==
    /\ edit' = [edit EXCEPT ![a] = NoEdit]
    /\ term' = [k \in Keys |->
                   IF rows[k] = NoTerm THEN NoTerm ELSE [rows[k] EXCEPT !.target = @ \ {a}]]
    /\ UNCHANGED <<node, collecting, faults>>

\* DUPLICATE_TERM
CreateAdminTerm(a) ==
    /\ edit[a] = NoEdit
    /\ \E k \in Keys \ Offered :
          edit' = [edit EXCEPT ![a] = [step |-> "write", op |-> "create", key |-> k]]
    /\ UNCHANGED <<node, collecting, term, sync, faults>>

\* TERM_NOT_FOUND; an update that keeps the title needs no second query.
FindTerm(a) ==
    /\ edit[a] = NoEdit
    /\ \E k \in Offered, new \in Keys, op \in {"update", "delete"} :
          /\ edit' = [edit EXCEPT ![a] =
                         [step |-> IF op = "update" /\ new # k THEN "check" ELSE "write",
                          op |-> op, key |-> IF op = "update" THEN new ELSE NoTerm]]
          /\ term' = [term EXCEPT ![k].target = @ \cup {a}]
    /\ UNCHANGED <<node, collecting, sync, faults>>

\* DUPLICATE_TERM
FindDuplicate(a) ==
    /\ edit[a].step = "check"
    /\ edit[a].key \notin Offered
    /\ edit' = [edit EXCEPT ![a].step = "write"]
    /\ UNCHANGED <<node, collecting, term, sync, faults>>

InsertTerm(a) ==
    /\ edit[a].step = "write" /\ edit[a].op = "create"
    /\ edit[a].key \notin Offered
    /\ EndEdit(a, [term EXCEPT ![edit[a].key] = NewRow(TRUE)])
    /\ Overtake

\* Only the title: a term that came from a node stays one of that sort.
RenameTerm(a) ==
    /\ edit[a].step = "write" /\ edit[a].op = "update"
    /\ \E k \in Marked(a) :
          /\ edit[a].key \in (Keys \ Offered) \cup {k}
          /\ EndEdit(a, [[term EXCEPT ![k] = NoTerm] EXCEPT ![edit[a].key] = term[k]])
    /\ Overtake

DeleteTerm(a) ==
    /\ edit[a].step = "write" /\ edit[a].op = "delete"
    /\ \E k \in Marked(a) : EndEdit(a, [term EXCEPT ![k] = NoTerm])
    /\ UNCHANGED sync

\* A check refuses or a query fails.
EditFails(a) == edit[a] # NoEdit /\ EndEdit(a, term) /\ UNCHANGED sync

-------------------------------------------------------------------------------
(* syncDynamicTerms                                                        *)

\* By the hour or by hand; one that runs already is left to itself.
StartSync ==
    /\ sync.phase = "idle"
    /\ sync' = [NoSync EXCEPT !.phase = "read", !.left = {"terms", "nodes"}]
    /\ UNCHANGED <<node, collecting, term, edit, faults>>

\* The two queries are in flight at once (Promise.all).
Read(what) == [sync EXCEPT !.left = @ \ {what},
                           !.phase = IF sync.left = {what} THEN "delete" ELSE "read"]

ReadTerms ==
    /\ "terms" \in sync.left
    /\ sync' = [Read("terms") EXCEPT !.terms = Offered]
    /\ term' = [k \in Keys |-> IF term[k] = NoTerm THEN NoTerm ELSE [term[k] EXCEPT !.seen = k]]
    /\ UNCHANGED <<node, collecting, edit, faults>>

ReadNodes ==
    /\ "nodes" \in sync.left
    /\ sync' = [Read("nodes") EXCEPT !.nodes = node]
    /\ UNCHANGED <<node, collecting, term, edit, faults>>

\* A mistake the runs must catch: the trimmed titles of the terms are looked
\* for among the titles of the nodes as they are.
IsStaleRaw(row) == ~row.system /\ row.seen # NoTerm
                   /\ \A t \in sync.nodes : Trim[t] # row.seen \/ t # row.seen

IsStale(row) == ~row.system /\ row.seen # NoTerm /\ \A t \in sync.nodes : Trim[t] # row.seen

\* By the ids that were read, whatever the rows are called by now.
DeleteStale ==
    /\ sync.phase = "delete"
    /\ term' = [k \in Keys |-> IF term[k] # NoTerm /\ IsStale(term[k]) THEN NoTerm ELSE term[k]]
    /\ sync' = [sync EXCEPT !.phase = "insert"]
    /\ UNCHANGED <<node, collecting, edit, faults>>

EndSync(keys) ==
    /\ sync' = NoSync
    /\ term' = [k \in Keys |->
                   IF k \in keys /\ term[k] = NoTerm THEN NewRow(FALSE)
                   ELSE IF term[k] = NoTerm THEN NoTerm
                   ELSE [term[k] EXCEPT !.seen = NoTerm]]
    /\ UNCHANGED <<node, collecting, edit>>

\* A mistake the runs must catch: what cannot be inserted as a whole is given up.
GiveUp(missing) == EndSync({})

\* createMany fails as a whole when a row exists by now, or when two titles
\* have the same key; the rows are then inserted one by one.
FallBack(missing) ==
    /\ sync' = [sync EXCEPT !.phase = "rows", !.rows = missing]
    /\ UNCHANGED <<node, collecting, term, edit>>

InsertMissing ==
    /\ sync.phase = "insert"
    /\ LET missing == {t \in sync.nodes : Trim[t] \notin sync.terms}
       IN  IF \A t \in missing : /\ Trim[t] \notin Offered
                                 /\ \A u \in missing \ {t} : Trim[u] # Trim[t]
           THEN EndSync({Trim[t] : t \in missing})
           ELSE FallBack(missing)
    /\ UNCHANGED faults

NextRow(t, keys) ==
    IF sync.rows = {t} THEN EndSync(keys)
    ELSE /\ sync' = [sync EXCEPT !.rows = @ \ {t}]
         /\ term' = [k \in Keys |-> IF k \in keys /\ term[k] = NoTerm THEN NewRow(FALSE) ELSE term[k]]
         /\ UNCHANGED <<node, collecting, edit>>

InsertRow(t) ==
    /\ sync.phase = "rows" /\ t \in sync.rows
    /\ NextRow(t, {Trim[t]})
    /\ UNCHANGED faults

Fault == faults < MaxFaults /\ faults' = faults + 1

\* A row whose insert fails is passed over.
RowFails(t) ==
    /\ sync.phase = "rows" /\ t \in sync.rows
    /\ NextRow(t, {})
    /\ Fault

\* A mistake the runs must catch: isSyncing stays set after an error.
StaysSet == sync' = [NoSync EXCEPT !.phase = "stuck"] /\ UNCHANGED <<node, collecting, term, edit>>

ResetSyncing == EndSync({})

\* Any other query fails: the error is logged and isSyncing is reset.
SyncFails == sync.phase # "idle" /\ ResetSyncing /\ Fault

\* The server is stopped or dies and starts again.
RestartAutocomplete ==
    /\ sync' = NoSync
    /\ collecting' = {}
    /\ edit' = [a \in Admins |-> NoEdit]
    /\ term' = [k \in Keys |-> IF term[k] = NoTerm THEN NoTerm ELSE NewRow(term[k].system)]
    /\ Fault
    /\ UNCHANGED node

-------------------------------------------------------------------------------
AutocompleteInit ==
    /\ node = {} /\ collecting = {}
    /\ term = [k \in Keys |-> NoTerm]
    /\ sync = NoSync
    /\ edit = [a \in Admins |-> NoEdit]
    /\ faults = 0

EditTerm(a) == CreateAdminTerm(a) \/ FindTerm(a) \/ FindDuplicate(a) \/ InsertTerm(a)
               \/ RenameTerm(a) \/ DeleteTerm(a) \/ EditFails(a)

AutocompleteNext ==
    \/ AddNode \/ DropNode
    \/ \E t \in Titles : Collect(t) \/ InsertRow(t) \/ RowFails(t)
    \/ \E a \in Admins : EditTerm(a)
    \/ StartSync \/ ReadTerms \/ ReadNodes \/ DeleteStale \/ InsertMissing
    \/ SyncFails \/ RestartAutocomplete

\* The clock starts a synchronisation every hour, and its queries return.
AutocompleteFairness ==
    /\ WF_autocompleteVars(StartSync \/ ReadTerms \/ ReadNodes \/ DeleteStale \/ InsertMissing)
    /\ \A t \in Titles : WF_autocompleteVars(InsertRow(t))

AutocompleteSpec ==
    AutocompleteInit /\ [][AutocompleteNext]_autocompleteVars /\ AutocompleteFairness

-------------------------------------------------------------------------------
(* Properties                                                              *)

AutocompleteTypeOK ==
    /\ node \subseteq Titles /\ collecting \subseteq Titles
    /\ term \in [Keys -> Row \cup {NoTerm}]
    /\ sync \in Sync
    /\ edit \in [Admins -> Edit]
    /\ \A a \in Admins : \A j, k \in Marked(a) : j = k

\* The synchronisation deletes by ids it has read before: never a term of an
\* administrator, and one whose title is in use only when a node or a term was
\* written since it began to read (autocomplete.service.ts 345-358).
SyncSparesUsed ==
    [][sync.phase = "delete" /\ sync'.phase = "insert" =>
          \A k \in Offered : term'[k] = NoTerm =>
             ~term[k].system /\ (k \in Used => sync.overtaken)]_autocompleteVars

UsedIsOffered ==
    \A t \in Titles : <>[](t \in node) => []<>(Trim[t] \in Offered)

UnusedIsDropped ==
    \A k \in Keys : <>[](k \notin Used) => []<>(term[k] = NoTerm \/ term[k].system)

\* A title that stays in use is offered again and again, however often terms
\* are deleted, and whenever errors and restarts are over that made collect or
\* a synchronisation fail; one that no node has any more is at last not
\* offered, but for a term of an administrator (autocomplete.service.ts
\* 144-152, 345-358 and 376-389).
TermsFollowTitles == UsedIsOffered /\ UnusedIsDropped
===============================================================================
