# Verification of the scheduler

TLA+ models of the project scheduler in this repository (a NestJS API with
Prisma over SQLite, a React client, executables for Windows servers), TLC
configurations that check them on small instances, and proofs for TLAPS.

- [What the system is](#what-the-system-is)
- [The modules](#the-modules)
- [The runs](#the-runs)
- [What the runs found](#what-the-runs-found)
- [The proofs](#the-proofs)
- [Assumptions and limits](#assumptions-and-limits)
- [Plan](#plan)

Check a configuration with `tlc -config NodeTree.cfg MCNodeTree.tla`, a proof
with `tlapm NodeTreeProofs.tla`. `PROJECT.json` names, for each definition, the
lines of the source it stands for.

## What the system is

One server process (`apps/api/src/main.ts`) serves the API and the web client
and keeps everything in one SQLite file. JavaScript runs one handler at a time,
but each `await` lets any other handler run; most handlers read with one query,
decide, and write with another. A transaction of Prisma is atomic and SQLite has
one writer. Beside the server run, on the same file, `sp-migrate.exe`
(`migrate-main.ts`), `sp-reset-admin.exe` and `sp-backup.exe`
(`apps/api/scripts`). The service is restarted whenever it ends
(`deploy/compose.yaml`). The client keeps lists it has read (React Query), works
on them, and asks for them again after each write.

| Component | State | Operations | Talks to | What is hard |
|---|---|---|---|---|
| Schedule nodes (`nodes/nodes.service.ts`) | `schedule_nodes`: a tree per project with `parentId`, `sortOrder`, `depth`, `updatedAt`; `node_history` | create, update, move, hardDelete, importCsv | members (access), autocomplete (titles), the client through `updatedAt` | reads before the transaction; versions; the walk up the tree; cascades |
| Server notices (`server-notices`) | `server_notices`, rows of `audit_logs` | create, cancel, active, list; the start closes what is open | accounts (`createdBy`, `actorId`), the polling client | two administrators at once; a crash between a write and its audit row |
| Process lock (`common/process-lock.ts`, `prisma/lock-decision.ts`) | a file per role with a pid | acquireLock, removeLock | both executables, the backup tool | reads and writes of files interleave; killed processes; pids come back |
| Startup (`prisma/*`, `main.ts`, `migrate-main.ts`) | `_prisma_migrations`, the schema | decideBoot, decideMigrate, applyMigrations | the lock | a statement is committed as it runs; two programs look and write |
| Accounts (`users`, `bootstrap`, `reset-admin-cli.ts`) | `users` | create, update, retire, unretire, remove, resetPassword, bulk import | sessions; every table that names a user | rules on stale reads: the last administrator, retired accounts |
| Sessions (`auth`, `sessions`) | `sessions` | login, guard (touch, peek), extend, logout, changePassword, list | accounts | a login of four queries against an administrator's two |
| Members (`members`, `user-projects`) | `project_members` | add, addBulk, remove, removeBulk, updateRole, from two sides | accounts, projects | the last manager; a permission that is stale when used |
| Projects (`projects`, `clone-tree.ts`) | `projects` | create, update, archive, hardDelete, clone | members, nodes | versions; deletion of what was restored meanwhile; a clone of what changes |
| Groups (`groups`, `shared/user-groups.ts`) | `user_groups`, `user_group_members` | create, update, remove, addMembers, removeMember | accounts, members (coverage) | a tree checked before it is written |
| Comments, history (`nodes`) | `node_comments` | add, remove, the history of a project | members | a list put together from four reads |
| Autocomplete (`autocomplete`) | `autocomplete_terms`, `isSyncing` | collect, the hourly synchronisation, administration | nodes | both write the same rows |
| Backup (`backup`, `backup-cli*.ts`) | archives by day, `isRunning`; copies of the file | runBackup, cleanup; backup and restore of the tool | the database file, the lock | a failure between archive and checksum; a program beside the copy |
| Rate limit (`common/rate-limit.ts`) | a counter per address | check, reset, sweep | login | the edge of the window |
| Calculations (`shared`, `tree-aggregation.ts`) | none | progress, clone dates, groups, text of an import | nodes, projects, client | three places compute the same figures |
| Web client (`apps/web/src`) | lists, drafts, dialogs, timers | dragging, bulk changes, saving, dialogs that follow a change, polling | the API | old lists, lost answers, timers against answers |
| Other pages, plumbing, packaging | | lists, guards without state, build scripts | | |

What makes each component correct:

- **Nodes**: no cycle; the parent of a node is a live GROUP of its project;
  `depth` and `sortOrder` agree with the tree; the history tells the whole life
  of a node; no update over a version the client has not seen; a deletion takes
  the whole subtree; no item ends before it starts.
- **Notices**: at most one is open, none outlives the server that announced it,
  the list says truly who closed it, and a browser shows what is so.
- **Lock and startup**: one program at a time; a server that is up has the whole
  schema of its version, as far as no migration ran again, and keeps it; no finished
  migration runs again; nobody is refused, and no database called damaged, for a
  reason that is not there.
- **Accounts and sessions**: an administrator who can log in remains; a retired
  account is not active; whoever is turned off or reset has no old session left;
  an ended session stays ended.
- **Members**: every project keeps a manager. **Projects**: what was changed or
  restored in between is not deleted, and a clone is what its page showed.
  **Groups**: a forest of bounded depth, one group per user.
- **Autocomplete**: the terms follow the titles, and none that is needed or was
  made by an administrator is swept. **Backup**: a confirmed archive can be read
  and one remains; a copy reads as its original. **Rate limit**: the wait that was
  announced is enough, unless the counter was emptied and filled again meanwhile.
  **Calculations**: every place shows the same figures.
- **Client**: what a drop, a bulk change, a save or a tick announces is what the
  server does, whatever has changed since the list was read.

## The modules

| Module | Models | Extends |
|---|---|---|
| `CsvImport` | which kind, parent and order `importCsv` gives the rows of a file | |
| `NodeTree` | `NodesService`, every query and transaction of its five handlers | `CsvImport` |
| `NodeLedger` | what a client may rely on: nodes come, change and go, one atomic commit at a time | |
| `NodeDates` | the dates of an item: `NodeDetail.tsx`, the check and the write of `update`, the rows of an import | |
| `ServerNotices` | `ServerNoticesService`, `CloseNoticesBootstrap`, `AuditService.log`, the part of `UsersService.remove` that empties audit rows | |
| `Client` | session and notice in the browser: `auth.ts`, `session*.ts`, `serverNotice.ts`, the two dialogs | |
| `ProcessLock` | `acquireLock`, `removeLock`, kills and launches | |
| `Startup` | both programs from their start to serving or ending, over the lock | `ProcessLock` |
| `Accounts` | `UsersService`, `AuthService`, `AuthGuard`, `SessionsService`, the seeded administrator and `sp-reset-admin.exe` | |
| `GroupTree`, `Groups` | `user-groups.ts`; `GroupsService` query by query | `Groups` the other |
| `Members` | `MembersService`, `UserProjectsService`, and of `ProjectsService` everything but the nodes | |
| `ProjectClone` | `ProjectClonePage.tsx`, `member-drafts.ts`, `clone-dates.ts`, `clone-tree.ts`, `clone` | |
| `History` | `project-history.service.ts`, `comments.service.ts`, `history-utils.ts`, `ProjectHistoryPage.tsx` and its cache | |
| `Autocomplete` | `AutocompleteService` query by query | |
| `Backup`, `BackupCli` | `backup.service.ts`; `sp-backup.exe` | |
| `RateLimit` | `RateLimitService` as login uses it | |
| `Progress` | `expected-progress.ts`, `tree-aggregation.ts`, `ganttMath.ts`, `ganttAggregate.ts` | |
| `TreeView` | `ganttLayout.ts`, `treeDnd.ts`, `bulkSelection.ts`: functions | |
| `Outline` | dragging, moving, adding and deleting rows: `Timeline.tsx`, `ProjectDetailPage.tsx` | `TreeView` |
| `BulkEdit` | the loops over selected rows: `ProjectDetailPage.tsx`, `bulkResult.ts` | `TreeView` |
| `Drafts` | the dialog that edits a node, its comment, and a dragged bar | |
| `GroupSync` | the projects that follow a change of group: `AdminGroupsPage.tsx`, `groupSync.ts`, `GroupProjectSyncDialog.tsx` | |
| `UserImport` | the text of users and groups: parser, dialog, `bulkImport` | |
| `Chart` | folding, zoom and position of the chart: `Timeline.tsx`, `ganttZoom.ts` | |
| `MC*` | model values and symmetry; which part of the system a behaviour is about | see [The runs](#the-runs) |
| `*Proofs` | theorems | the modules they are about |

How state and actions correspond to the code:

**NodeTree.** `nodes` is the table, `history` the list of actions recorded for
each id, `clock` the stamp of the last commit (`@updatedAt`), `req` the local
variables of each handler in flight. A query outside the transaction is an
action (`MoveReadTarget`, `MoveReadParent`, `MoveReadRows`), the transaction is
one (`MoveCommit`), a throw or a failed transaction is `Fail`. A commit whose
rows are gone or whose foreign key fails does not happen. The loops that walk up
or down the tree end only on a tree: on a cycle the handler is `hung`, and
nothing but `Restart` follows. Titles, dates and progress are not told apart:
what an update changes is the stamp. `importCsv` keeps two phases, the checks
and the transaction. **NodeLedger** is the abstract specification: a node is
absent, live or deleted, and one step creates, changes or deletes a set of nodes
in one project; `NodeTree!ImplementsLedger` is the refinement. **NodeDates** has
what `NodeTree` leaves out: one item, the forms that have it open, the check of
`update` (a read) and its write as two steps. `overlapped` is a history
variable: another change went between the two.

**ServerNotices.** A notice is given by the start that created it, its creator
and the sequence of those who wrote `canceledAt`; the rows of `audit_logs` are a
set. `HookRead`, `HookClose` and `HookLog` are the loop of `closeOpenNotices`;
`Die` may come between any two. `Create` is one step with its check, because the
check and the insert run in one transaction; `CancelRead` and `CancelWrite` are
two. Writing the audit row is a step that may fail silently, as
`AuditService.log` swallows its errors. **Client.** `host` is what the server
knows, `me` and `active` what the queries of the browser hold, `call` and
`extension` the requests under way. `managing` is true while an administrator is
on the page where notices are managed (`Manage`, `LeavePage`): the dialog of a
notice stays away there (`ShowsNotice`) and the card of the page tells the time
instead (`ShowsCard`). A logout that fails is taken by the dialog of the session
for a session that is gone (`LogoutFails`), and an enquiry that is refused logs
the window out (`Unauthorized`). Time passes by half a minute (`TimeTicks`) when
all that is due has been done; `calm.parted` notes that an answer to an extension
was lost, or a logout failed, since the last login.

**ProcessLock.** One file per role. Each access to a file is a step, in the
order of `acquireLock`: look at the server's file, look at the other, write, read
back, look again. `Die` is a kill: the file stays. `Leave` and `Unlink` are
`removeLock`. **Startup.** `db` has the finished migrations and, for each
migration, how many of its statements are in effect; a statement is a step and a
kill may follow it. A statement that runs again may undo what came after it, in its
migration and in later ones (`AfterStatement`); `db.redone`, which no action reads,
names the migrations of which one did after they, or a later one, were finished. The
server takes the lock and then looks, with up to five
queries; `sp-migrate` looks, then takes the lock, then applies. Old and new
executables come with fewer or more migrations; `origin` remembers whether the
database was built from nothing.

**Accounts.** `account` and `session` are the tables, `req` the handlers. A login
reads the account, writes it, sweeps and creates the session; the guard reads
the session and updates it; an administrator's handler reads, counts, writes and
destroys sessions, each a step. When an account is deleted, requests that hold
its id hold an id of nobody (`Forget`). `Restart` is a crash of the server with
`InitialAdminBootstrap`, which seeds the administrator if it is gone.
**Groups.** `parent`, `name` and `member` are the two tables. The checks of depth
and cycle are steps that read, and the write is another; each request remembers
whether it was overtaken (`fresh`).

**Members.** `role` is `project_members`, `status` and `stamp` are the columns of
`projects` that decide something. A request is known by the check it has passed:
project exists, permission, target, count, write. What the body of a request asks
for is chosen in the step that first uses it. Both services write through the
same steps (`Insert`, `WriteRow`, `DeleteMany`), because they write the same
table with the same queries; `MayInsert` is the primary and the foreign key.
`fresh` turns false when somebody else writes to a project of the request, and no
action reads it. Inactive users are left out: `Refuse` may end any request. The
id of a deleted project is used again once no request names it, so that a small
supply is enough. **ProjectClone** begins where the page does: lists arrive in any
order, defaults are seeded from them, and the copy is made from what the server
has by then. **History** numbers all writes; the four reads of the service are
four steps of one request, and the page shows its cache until the answer is there.

**Autocomplete.** A row is found by its key. The ids that a synchronisation has
read are marks on the rows, which move with a row that is renamed. **Backup.** A
day has an archive and a checksum, each a version of the database, and a run
writes them step by step; `confirmed` is what a run that ended well has left.
**BackupCli.** A database is a main file and a write-ahead log. **RateLimit.** One
counter per address; `promised` is the first wait that was announced and when the
counter was last emptied since, by the success of another or by a restart
(`RestartLimit`). **Progress**
builds a list of rows one by one and compares what the server, the shared package
and the chart compute from it.

**Outline, BulkEdit, Drafts, GroupSync, UserImport, Chart.** Each is one screen
with the rows of the server that it is about, a copy of them as the screen has
read it, the request under way, and what others do meanwhile. What was promised
when the user acted (where a row was shown to land, what was typed, which boxes
were ticked) is kept until the answer. Effects of React that follow a render are
part of the step that causes it, except in `Chart`, which is about their order.

## The runs

The modules of a run share no state unless they extend one another: `part` says
which of them a behaviour is about, and the rest stays as it began. Such a
behaviour is one of the part's own specification (`BackupSpec`, `DraftsSpec` and
so on in the proof modules), which is what the theorems are about.

| Configuration | Parts | Question | Instance, and why it is enough |
|---|---|---|---|
| NodeTree | together, alone | what survives interleaved handlers (history, parents, the ledger); what holds of requests that do not overlap (shape of the tree, versions, subtrees) | together: 2 requests, 2 ids, 2 projects, 3 commits: every pair of handlers, and parents that would cross projects. Alone: 3 nodes, 4 commits, files of three rows: a chain of three and siblings |
| ServerNotices | server, client | one open notice, none outlives its server, the list is right; the screen tells the truth and recovers | 2 administrators, 3 notices, 2 starts, deletions: the hook closes several and dies between. A session of 3 units, warnings of 2, one outage, and visits (loads, logins, notices, the page of notices) that still let one follow another |
| Startup | programs, lock | the schema a server serves, who is refused and told what; the lock with failing writes and pids that return | 3 processes, 4 pids, 2 migrations of 2 statements, versions 1 and 2: half a migration, older and newer executables |
| Accounts | together, alone, groups | ended sessions; retirement, administrators and sessions one request at a time; the forest of groups | 2 administrators, 1 user, 2 sessions, 2 requests; 3 groups of depth 2, 2 requests |
| Members | members, clone, history | managers, roles, versions of projects; a clone; the history of a project and its cache | 2 requests, 2 projects, 2 users: two managers removed at once. Three trees to clone, one change by others. 2 nodes, 3 writes, limits of 1 and 2 rows so that both cut |
| Jobs | autocomplete, backup, cli, rate, figures | see the table of modules | 2 keys and a title with a blank, one fault; 3 days, 2 runs; 2 programs, 3 copies, 2 commits; 2 attempts a window; all forests of 5 rows over 3 works |
| Screens | outline, bulk, sync, drafts, import, chart, dates | what each screen promises | 4 rows and one write each of the user and of another; a group within another, 3 people, one change, one write of another, one lost request; 2 fields; 4 lines of text; 3 rows and 3 scales; 2 days and 2 forms |

Each run uses symmetry over model values that no action distinguishes, except
where a temporal property is about them. The bounds are constants: `MaxClock`
(commits), `MaxStarts`, `MaxFaults`, `MaxMishaps`, the supplies of ids. The
supplies are finite because ids are never used again; a request that finds none
does not begin, or, in `Accounts`, ends without a session. `Accounts.cfg` gives
`Sids` and `Names` the same values: they never meet. In the part groups a
behaviour ends when a request that was overtaken has left disorder: the
properties are about what happens to groups in order.

Deadlock is checked in `NodeTree`, `Startup` and `Accounts`, where there is always
a step. It is not in `ServerNotices` (the server may be down for good, and time
ends), `Members` and `HistoryImport` (a clone ends where it is saved, writes at
their bound), `Jobs` (days, clock and commits end) and `Screens` (the user may
stop).

Fairness is assumed in two places. `TermsFollowTitles` (`Autocomplete`): weak
fairness on the steps of the synchronisation and on `InsertRow`, the insert of
`collect`. It
runs every hour, a query returns or throws, and the faults that end one are
bounded by `MaxFaults`. `ComesBack` (`Client`): weak fairness on the requests of
the page (each is answered or fails, and the one that failed is tried again) and on
the restart of the server, because the page asks again every three seconds while
the server is away and the service is restarted whenever it ends. Nothing is
assumed of users.

The mutated definitions that show that each property can fail (`AnyVersion`,
`NoForeignKey`, `NeverLocked` and so on) stand in the modules next to the
definition they would replace, marked as mistakes the runs must catch.

## What the runs found

Five runs end in a counterexample and disagree with a comment or document quoted
in `PROJECT.json`:

| Configuration | Property | What happens |
|---|---|---|
| NodeTreeCycle | Acyclic | two moves, each below the other's node, both pass the check made before the transaction |
| LockRace | MutualExclusion | write, read back, write, read back: both go on |
| StartupReapply | NoReapply | `sp-migrate` decides before it has the lock; when its second pass over a finished migration is killed, the record still says finished |
| AccountsZombie | InactiveIsOut | a login in flight makes a session after all were destroyed |
| HistoryImport | OwnWorkShows | an import does not drop the cached history, which is drawn first |

The same causes break other properties once the constants of a passing run are
changed; no run is kept for them:

| Run and change | Property | What happens |
|---|---|---|
| NodeTree, part alone without its bound on requests | NoLostUpdate | two updates with one `expectedUpdatedAt` both pass |
| | DeleteTakesSubtree | a child that arrives after the subtree was collected survives as a root |
| | SortOrderContiguous | the gap is closed at a position that is stale |
| Startup, part lock, `MaxAcquiring = 2` | OnlyOwnFileRemoved | the file is overwritten between the read and the unlink of `removeLock` |
| Startup, pids may return in the part programs | RefusedByAnother | a program finds its own pid in the file of a killed predecessor |
| Accounts, part alone without its bound on requests | RetiredIsInactive | update and retire overlap |
| | SomeActiveAdmin | the count of the others is stale |
| Accounts, part alone with `sp-reset-admin.exe` | RetiredIsInactive | the recovery tool activates a retired administrator |
| Accounts, part alone with crashes | ResetIsOut | a crash between the new password and the end of the sessions |
| Jobs, `RetentionDays = 1` | LastBackupStays | the clean-up after a failed run deletes the only archive |

Some more are visible in the models and allowed by their properties. A second
`sp-migrate` that runs `m3_node_progress` again and is killed after it dropped
`schedule_nodes` (line 26 of its file) leaves the row that says finished, and the
next server starts on what is left (`boot-decision.ts:69`): `ServesCompleteSchema`
excepts `db.redone`, and without that exception TLC finds it, as it is the
consequence of NoReapply. A wait that was announced is not kept when another login
from the address succeeds and further ones fail: the counter is emptied, and who
tries next opens a new window. `WaitIsKept` excepts a window opened since the
counter was emptied; the comment at `rate-limit.ts:40` makes no such exception, and
without it TLC finds the case. Deleting the
account of an administrator who canceled a notice turns the cancel into a restart
in the list, although the comment of `autoClosedIds` says that no path deletes
from the audit log (`RestartReasonUnlessDeleted` names the exception). Two cancels
both pass the check in memory and the second overwrites `canceledAt`. A crash
between closing a notice and logging it turns a restart into a cancel. The table
of the migration history may appear between two queries of `sp-migrate`, which
then takes the database for a legacy one. The rehash of an argon2 hash in a login
overwrites a reset that came in between. Two removals of managers that overlap
leave a project without one (`LastManagerStays` names the exception: a request
that was overtaken), and a manager who loses the role after the check of the
permission still writes. Two changes of dates that overlap leave an item that ends
before it starts (`DatesStayInOrder`). The service of the history cuts each of its
reads at four times the limit and lets the topic choose afterwards
(`project-history.service.ts:59`), so a rare topic may come out empty although
`docs/superpowers/specs/2026-07-16-project-history-query-design.md` (lines 120 and
225) promises the newest of it. A text that is edited while its preview is under
way gets the preview of the old text (`UserBulkImportDialog.tsx:380`); the server
compares again, so what is made is what its answer says. A comment of
`schema.prisma` (line 209) says that the cascade from a group to its members never
fires; a member who is added after the check of `remove` goes by it.

Documents that are merely out of date: DESIGN.md gives depths 0..4 while
`MAX_TREE_DEPTH` is 10, and sessions of thirty sliding minutes while they last
twelve hours from the login or the last extension.

## The proofs

TLC shows a property for one instance, the theorems for all values of the
constants. Each argument is an inductive invariant, with a lemma for the initial
states and one for each action or group of actions. A property is seldom
inductive as it stands; what follows says what has to be added, and why.

| Module | Theorem | Property of a run | Assumes |
|---|---|---|---|
| NodeTreeProofs | NodeTreeTypes, StaleChecksHold | | |
| | ParentsStayGroups | ParentIsLiveGroup | |
| | HistoryIsComplete | HistoryTellsLife | |
| | TreeImplementsLedger | ImplementsLedger | |
| | ShapeOneAtATime (ShapeIsKept) | TreeStaysInShape | requests do not overlap |
| | AskedOneAtATime (RequestsAreObeyed) | RequestsDoAsAsked | requests do not overlap |
| ServerNoticesProofs | NoticeTypes | | |
| | OneNoticeAtATime, NoticesDieWithServer, RestartReasonHolds | AtMostOneOpen, NoNoticeOutlivesServer, RestartReasonUnlessDeleted | |
| | ScreensAreHonest | ScreenIsHonest | an active page polls at least as often as an idle one |
| ProcessLockProofs | LockTypes | | |
| | LockKept (with LockExcludes, LockNamesHolder, LockRemovesOwnFile) | LockIsKept | programs do not start together |
| | LockRefusesForAnother | a part of NobodyIsMisled | no pid of a lock file returns |
| StartupProofs | StartupTyped, StartupLocks | | (StartupLocks: the next line) |
| | ServedSchemaIsStill, ServedSchemaIsComplete | SchemaStillWhileServing, ServesCompleteSchema (but for what ran again) | programs do not start together, lock files can be written |
| | NoAlarmIsFalse, ServersSeeTheTruth | the other parts of NobodyIsMisled | the same |
| | NobodyIsEverMisled | NobodyIsMisled | programs do not start together |
| AccountsProofs | AccountTypes, OwnersExist | | |
| | EndedStays | EndedForGood | |
| | SomebodyCanLogIn | a part of SomebodyIsInCharge | requests do not overlap |
| | RetiredStayOut | the other part | requests do not overlap, no recovery tool |
| | ThrownOutStayOut | the parts of ThrownOutIsOut | the same, and the server stays up |
| | InChargeStays, OutStaysOut | SomebodyIsInCharge, ThrownOutIsOut | as the run: its part "alone" |
| | GroupsTyped | | |
| | OneGroupIsKept | OneGroupStays | |
| | GroupsKeepOrder | GroupsStayInOrder | |
| | ReparentingIsExact | | |
| MembersProofs | MemberTypes, MembersBelong | | |
| | LastManagerKept, RolesByRequest, ProjectsAsSeen | LastManagerStays, RolesChangeByRequest, ProjectsChangeAsSeen | |
| | OwnWorkIsSeen | OwnChangesShow | |
| | HistoryIsTrue | ListTellsTruth | more rows are read than are shown |
| | ClonesAreFaithful | CloneIsFaithful | no item of the source ends before it starts |
| JobsProofs | AutocompleteTyped | | |
| | SyncSpares | SyncSparesUsed | |
| | BackupConfirmed, BackupLeft | ConfirmedIsGood, LastBackupStays | two days of retention |
| | CliCopiesRead | CopiesReadAlike | |
| | RateWaitKept | WaitIsKept (but for a window opened after the counter was emptied) | |
| | FiguresAlwaysAgree | FiguresAgree | days are integers |
| ScreensProofs | ItemsEndAfterTheyStart | DatesStayInOrder | |
| | EditsAreFaithful | EditsKeepFaith | |
| | ProjectsFollowTheBoxes | SyncKeepsItsWord | |
| | ChartsKeepToWhatWasAsked | ChartIsAsAsked | the first scale is drawn in weeks |
| | MessagesAreTrue | BulkReportsTruly | the list is a tree |
| | TextsAreReadAsDrawn | ReadAsDrawn | |

"Programs do not start together" is `MaxAcquiring = 1`: one process at most is
between its look at the lock and the end of `acquireLock`. Without it the lock
does not exclude (LockRace), so the assumption is what the code needs of the
administrator. "Can be written" is `~WritesMayFail`, "no pid returns" is
`~StalePidsReturn`. The two days of retention are `RetentionAssumption` of
`Backup` (30 by default); with one, the property is false.
"Requests do not overlap" is `[]OneAtATime`, a hypothesis about the behaviour, not
about a constant: between its first read and its answer a request is alone. With
overlapping requests such properties fail (NodeTreeCycle, AccountsZombie), so the
theorems say how far the code is right. The theorems in brackets,
`NobodyIsEverMisled`, `InChargeStays` and `OutStaysOut` are about the specification
of the run, which takes one request (or one starting program) at a time in the part
they are about. The first scale is `UnitAssumption` of `Chart`. An item that ends
before it starts is what two changes of dates that overlap may leave (`NodeDates`); a
clone would move its end to its start.

- **NodeTreeProofs.** `IInv == TypeOK /\ ParentIsLiveGroup /\ HistoryTellsLife /\
  ChecksStayTrue`. `ParentIsLiveGroup` alone is not inductive: a create commits a
  parent that it checked long ago. What makes it work is that the kind and the
  project of a node never change (`ChecksStayTrue`: if the parent is still there,
  it is still fit) and that the foreign key refuses a parent that is gone.
  `TypeOK` needs an argument too: a stale shift moves only rows strictly later
  than a position of at least one, so no order falls below one. For
  `TreeImplementsLedger` each commit is mapped to a step of the ledger and every
  other step to a stutter. The invariant is needed for the foreign key: a node that
  is made under a live parent is of its project. When requests do not overlap,
  `TreeInv` adds that each depth is one more than the parent's (`DepthsRight`), that
  siblings are numbered without a gap (`NumbersRight`), and that what a request has
  read is still so when it commits (`StillTrue`). Depths forbid cycles, so a path
  upwards ends. The numbers are the long part: taking a row out, putting one in and
  moving one each shift the rows behind, and each is shown to number them again.
  Where a chain of parents asks for induction, the proof takes a least element.
- **ServerNoticesProofs.** `IInv` adds that nobody has a request while the server
  starts and that the hook has every open notice in hand. For `RestartReasonHolds`
  it adds `RowsTellTruth`: the actor of a cancel row wrote `canceledAt`, and a row
  without one is the trace of the starting server, alone, or of an account that is
  gone. For `ScreensAreHonest`, `CInv` says what the window knows: a notice that is not
  the server's is about to be asked for again (`NoticesKnown`), and a session that goes
  on for longer than the window knows is being asked for, unless the answer to an
  extension was lost or a logout failed (`SessionKnown`).
- **ProcessLockProofs.** `IInv` says what each step knows of its own file (`Alone`)
  and of every other process (`Apart`): of two living programs, the one further on
  has left its file where the other looks. `OwnInv`, for `LockRefusesForAnother`,
  needs no bound on who starts: a living process finds its own pid in its own file
  only, and only once it has written it.
- **StartupProofs.** `Startup` implements `ProcessLock` (every step is a step of the
  lock or leaves it alone), so what is proved of the lock holds here: nobody else is
  inside a migration while a server is up. `SchemaInv`, for what is served, says that
  a database is sound (a finished migration has all its statements, or it or an earlier
  one ran again) or untouched, what each query of a server has told it (`Knows`), and
  that a job stands where its statements are (`Honest`). The first migration never runs
  again, since its statements only create: so a database with a first table keeps it,
  and what was built from nothing is never called damaged. `TruthInv` adds what a
  program remembers of its queries (`Remembers`, `Sees`), which stays true because the
  database stands still while another holds the lock, and that a database built from
  nothing has its history before the first table and the first migration before the
  others (`Grown`). `NobodyIsEverMisled` joins both with `OwnInv` of the lock files.
- **AccountsProofs.** The first three theorems hold for any interleaving. `TypeOK`
  rests on `SessionsHaveOwners` (the guard reads the account of a session) and on
  the steps knowing their session (`GoodRequest`). The invariant of
  `RetiredStayOut` adds that a request about to activate an account has seen that it
  is not retired. `CInv`, for `SomebodyCanLogIn`, says what the check of the last
  administrator is worth when the write comes: another active one is still there
  (`InCharge`). `OInv`, for `ThrownOutStayOut`, says that a login that has passed its
  checks is of an active account with the password it was checked against, and that an
  update still knows whether the account was active (`Certain`); so no session appears
  after those of the account were deleted. `GroupsInv`, for the user groups, says of a
  request that was not overtaken what its reads still promise (`Knows`): who leaves
  which group, the row, that the name is free, that the group is empty, and that there
  is room for the group where it goes. For `GroupsKeepOrder` the rest is about the
  functions of `GroupTree`, on every tree. Each is defined along the forest, so it is
  first shown that there is such a function, step by step (`StepByStep`), and then what
  it comes to: the descendants are the least set that is closed downwards
  (`Descendants`), a depth is a number of steps from the top (`DepthFromTop`,
  `DepthIsLeast`), and a height leaves room for that of every child (`Heights`). Who does
  not go along is found from the top as before (`Carries`); who does is found below the
  new parent, as deep as the walk has gone. `ReparentingIsExact` adds the converse: a
  move that is refused would have made a cycle or too many levels.
- **MembersProofs.** `IInv` adds `Knows`: a request that is about to write and was
  not overtaken leaves a manager in its project, builds on the latest version,
  deletes what is archived. It is inductive because a write to a project makes every
  other request on it stale. `HInv`, for `OwnWorkIsSeen`, says that every list that is
  kept or on its way was asked for after one's last change that was answered
  (`NothingOld`). `CloneInv`, for `ClonesAreFaithful`, says that what was given by hand
  is in the drafts whatever arrives later (`ByHandStays`) and that the rows a request
  has read can be moved (`CanMove`). The rest is about operators: a finite set of days
  has a first and a last one (`EndsExist`), a stretched span keeps its ends and the
  order of its days (`StretchedFacts`), so the new span is the old one moved
  (`SpanIsMoved`), which is what the page announced (`PeriodIsAnnounced`).
  `ListInv`, for `HistoryIsTrue`: the rows of the history have times of their own, and a
  node that was ever there still is, or has a row that tells its deletion under a title
  it had (`Lives`). Of what a request has read: a row it has not is older than
  `ReadLimit` others (`NotLeftOut`), a node it has not was gone (`LiveRead`). Sorted, the
  list is the ranking by time (`NewestFirst`), so what is shown follows from ranks
  (`Shows`) and not from how a sort proceeds. That more rows are read than are shown was
  found by the proof: with as many, a row that is passed over would take the place of
  one that was not read.
- **JobsProofs.** `BackupInv`: who runs (`isRunning` is one call at most), what a day
  holds while it is written, and that a promise is the archive on disk until another
  run opens the day. `CliInv`: a main file that is gone has no log
  (`MainFirst`), and unless a program came, what has been copied or cleared so far is
  what is still there (`CliAlone`). `RateInv`: what was promised to an address is the
  end of the window its counter is in, or the counter is gone, or it was emptied and
  its window opened since.
  `AutocompleteInv`: who edits nothing has marked nothing (`MarksFollowEdits`), and
  until something is written the marks of the synchronisation name the rows as they
  are called, and the nodes it has read are those in use and more (`ReadsHold`).
  `FiguresAlwaysAgree` is about the functions of `Progress`. A sum may take its terms in
  any order (`SumTakesAny`) and part by part (`PartOfMany`); each recursive function is
  given a closed form, a sum over the tasks below a row (`TotalsAre`, `AccumulatorsAre`,
  `EffectiveAre`), by induction down or up the rows, which come one by one and parents
  first (`RowsInOrder`). Server and page then sum the same tasks.
- **ScreensProofs.** `DatesInv`: the row with the stamp of a form's copy is that copy
  (`IsKnown`), so a change that passes the check of versions is written over what it
  was typed for. `DraftsInv`: a copy with the version of the row is the row
  (`Copies`), what is under way is what was there when save was pressed
  (`SendingRight`), a comment that can still be sent was stored by lost answers only
  (`PostedRight`). `SyncInv`: every request is one of the offers (`OffersRight`), what
  is still to do is not done (`NotYet`), a role that changed follows from a box
  (`Explained`), what is done is so in the table (`DoneRight`), and every promise is
  still to do, denied or served (`PromiseRight`); `CalmRight` shows that nothing is
  offered on both sides as long as nobody else writes and no answer is lost. The
  last clause was found by the proof: the property first blamed somebody else's write
  alone, but a change whose answer was lost leaves the page with an old list, from
  which the next change computes who leaves. With one change (the bound of the run)
  TLC cannot see it; the property now names both causes. `ChartInv`: a scale to come
  waits together with its position (`ScaleRight`), what was revealed stays, as nothing
  to come moves it (`StaysRevealed`), and a row that is still due has not been looked
  for or is not drawn (`DueRight`). `BulkInv`: what the loop has counted so far is what
  it did (`LoopCounts`), as long as nobody else writes (`LoopCalm`), and no target of a
  deletion lies below another (`StandAlone`), so what one deletes no other misses. That
  the list is a tree is needed where the tables of descendants and of ancestors are
  unfolded: what is below a row is not above it. `TextsAreReadAsDrawn` is an induction
  over the text, line by line (`TextsAreReadRight`): the widths the parser keeps are
  those of the lines the latest one is drawn under, and no line since is less indented
  (`IsStack`); the path it keeps is that of the latest line, or of the groups a user's
  line stands under: what it has left over from before is never used, since a line below
  a user's is an issue (`PathFits`). So a line keeps the text clear exactly if it is drawn right
  (`ClearStep`, `LineIsRead`), and what is collected is what is drawn (`Collected`).

Some theorems state properties that no run lists by that name any more: a run
checks them as a part of a larger one (`LockIsKept` is three of `ProcessLock`).

Every invariant a run checks is a theorem. Only model-checked are two action
properties and two of liveness. `ImportIsAsShown` needs the paths along the forest of
groups together with the fold over the groups to be made, which grows the forest step by
step; `LandsWhereShown` compares three readings of the same tree (the rows drawn, the row
under the pointer, the siblings the server numbers); neither was attempted.
`TermsFollowTitles` and `ComesBack` are liveness under fairness, which this prover does
not reach. No induction theorem of the library can be used (they take an operator), but
`AllNumbers` is one for a set of numbers (from `WFMin`), and with it a recursive function
of one argument can be unfolded; a function of two arguments cannot be given to the SMT
solver, which is why those of `GroupTree` take them one after the other.

## Assumptions and limits

- A transaction is atomic and a failed one leaves nothing; a single query is
  atomic. Two commits get two `updatedAt` stamps.
- Requests are those of actors who passed the access check.
- `audit_logs` is modelled only where something reads it (the list of notices).
- Deleting a project deletes its nodes; `NodeTree` does not have it, only its
  members are deleted (`Members`).
- A statement of a migration that is applied again may fail, or succeed and undo any
  part of what came after it in this migration and in later ones. The first migration
  only creates and cannot run twice.
- A foreign process with the pid of a dead program is not modelled; a pid that
  comes back belongs to one of the two programs. `BackupCli` takes the lock files
  at their word.
- A wrong password changes only counters, which nothing reads; not modelled.
- `Client`: an answer comes or fails within half a minute; what a hidden window
  does to timers and a second window with the same cookie are left out. When the
  answer to an extension is lost, the page logs out at the old time. Notices are made
  and called off by somebody else than the user of the window.
- `UserImport`: blanks are spaces and tabs; others that the parser takes for blanks,
  such as a no-break space (`user-import.ts:76` to 85, 111), are left out.
- `History`: what React Query does with a query that was removed or is old is
  taken from its documentation (external); no two rows have the same time.
- `Chart`: a position is known by what it was computed from, not by pixels.
- `Progress`: forests only, quotients exact. `BulkEdit` and `Outline`: the list is a
  tree; `NodeTreeCycle` shows how it may cease to be one.
- Not modelled: lists and forms of one request (`ProjectsPage`, the user guide,
  exports), guards without state, logging, packaging, the search of terms, the layout
  of an exported CSV file.

## Plan

Every component of the table above has its modules, except the last line. What is
left is proof:

1. Of `ImportIsAsShown`, that the server makes the accounts its answer names.
2. `LandsWhereShown`, from closed forms of the rows of `TreeView`, as `Progress` has them
   for its sums.
