# A specification of itbox

TLA+ modules for the platform in `src/`: a Go backend that installs, updates,
publishes, backs up and restores self-hosted feature modules (compose stacks)
on one server, with the module services that ship with it. The modules are
checked with TLC on small instances; every safety property of the nine detailed
modules, and that the lifecycle implements its abstract specification, is proved
with TLAPS for every value of the constants (three under a hypothesis, section 5).

Paths below are relative to `src/`; `B/` is `backend/internal/`, `M/` is
`modules/`.

## 1. Inventory

| Part | State it keeps | Operations | Talks to | What is hard | What makes it correct |
|---|---|---|---|---|---|
| **Module lifecycle** `B/modules/lifecycle.go`, `install.go`, `compose_template.go` | `installed_modules` row (status, config, visibility, port), `module_config_archive`, rendered compose directory, `inFlight` claims in memory | Install, Enable, Disable, Uninstall, SetVisibility, Reinstall | database, Docker, reverse proxy; called by the API, the restore and the updates | requests interleave; every call may fail, sometimes after having had part of its effect; the process may die between any two calls; SetVisibility takes no claim | one operation per module; a status that is true when recorded; the secret a volume was initialised with is never lost; every claim is released |
| **Reverse proxy** `B/proxy/nginx.go` | vhost and snippet files, what nginx last loaded | SetRoutes, SetPathRoutes, RemoveRoutes, RemovePathRoutes, reload | lifecycle | a file written whose reload failed; a later removal that finds no file and does not reload | what is published is what is recorded |
| **Module updates and health** `B/modules/updates.go`, `update_safe.go`, `health.go`, `B/registryclient` | catalog on disk and in memory, kept copies, map of update entries | CheckUpdates, ApplyUpdate, rollback, WaitHealthy | registry repository, snapshots, lifecycle | a check replaces the map while an update runs; containers that crash-loop look healthy at single readings; failure at each of ten calls; restart in the middle | reported outcome is so; nothing changes before it is copied; an update never stays "updating" |
| **Database schema and snapshots** `B/db/db.go`, `snapshot.go` | schema, `core_schema_version`, dump files | Migrate, Snapshot, prune, Restore | startup, updates, restore | a crash between a migration and the record of the version; pruning | a way back exists; no downgrade |
| **Backup and restore** `B/api/backup.go` | `backup_runs`, the bucket | startRun, runBackup, runRestorePlatform, runRestore, scheduler | rclone, pg_dump/pg_restore, Docker volumes, lifecycle | parts fail one by one and the run goes on; the history table survives a restore of the database; a run whose process died | a run that says "success" is a backup; a run ends; a restore keeps a way back |
| **Docker client** `B/docker/client.go` | none | compose up/down, exec, pipe between two processes | all of the above | two processes joined by a pipe, either of which may end first | a call returns |
| **Wiki service** `M/wiki/service/internal/api/pages.go`, `attachments.go` | pages, revisions, permission rules, attachments; row locks; pool connections; the object store | save, delete, rename, set permissions, upload, remove and download files, search | PostgreSQL, object store | two queries on two connections inside one request; delete, rename and files without a transaction; two stores | no lost update; a listed page can be opened and its files downloaded; requests end |
| **Chat service** `M/chat/service/internal` | messages, files, groups, read state; the hub's connections and queues | send, attach, edit, delete, download, mark read, groups, live connection | PostgreSQL, object store, browser store `frontend/src/stores/chat.ts` | commit order differs from push order; queues of 32 that drop; reconnection and backfill; presence of several tabs | every message reaches every member who reconnects; a deleted message stays empty |
| **Users, groups and their logins** `B/api/users.go`, `groups.go`, `B/directory`, `B/webdavfs`, `B/radicalefs` | LDAP entries and groups, WebDAV logins and folder rules, Radicale users file, `disabled_users` | create, move, reset, disable, enable, delete; groups | LDAP, WebDAV, Radicale, sessions | one of many stores fails and the request goes on; read-modify-write of a group or of a file; a rule lists the folders known when it was written | a copy of a login follows the directory; nobody reaches a folder that is not theirs; disabled people stay out |
| **Admin and employee sessions** `B/auth`, `B/employee` | session rows, rate limiter | login, logout, revoke | database, LDAP | a login verified before and recorded after a revocation | no session outlives its account |
| **Audit log** `B/audit/audit.go` | hash chain of entries | record, verify, prune | every handler | entries ordered by lock but pruned by a time taken before it | the chain verifies |
| **VPN and internal gateway** `B/api/vpn.go`, `gateway.go`, `officenetwork.go`, `officeports.go`, `B/netbird` | `vpn_access`, the 2FA option, the office setting; in NetBird: keys, logins, devices, groups, routes, networks, policies | give and revoke access, approve and remove devices, move to the access policy, sync the routes and the office network | NetBird server | every request is several API calls that may fail one by one, and two run at once; only the move to the access policy is serialised | only admitted devices are on the VPN; every grant is on record; after a sync the office network is what the setting says |
| **Compute mesh** `B/compute` | devices in the database and in MeshCentral | enrol, remove | MeshCentral | two stores | no orphan |
| **Phone service** `M/voip/service` | extensions, line, menu; a greeting file; three rendered files; what Asterisk has loaded | create, update, reset, delete, menu, settings, upload, apply | PostgreSQL, Asterisk, a shared volume | rows change beside a render that reads them in three statements; either process restarts; the greeting is also recorded by phone | the files and Asterisk follow the rows; a replaced password is gone |
| **Calendars** | Radicale's own | pass through | Radicale | none in the platform beyond the users file above | |
| Health watch, samples, reports, system log; settings; registry service; frontend; installation scripts | see `PROJECT.json` | reads, records, displays | | | |

`PROJECT.json` lists each of these with its status and the reason when it is
not modelled, and every hazard with its line.

## 2. Modules

| Module | Models | Kind |
|---|---|---|
| `ModuleClaim` | what the lifecycle promises about a module: claim, announce, end with one outcome, forget at a restart | abstract specification |
| `ModuleLifecycle` | the lifecycle and the reverse proxy, call by call | detailed specification; refines `ModuleClaim` |
| `ModuleUpdate` | updates of one module beside checks, lifecycle operations, restarts | detailed specification |
| `WikiPages` | the wiki's pages and their files, locks and connection pool | detailed specification |
| `PlatformData` | migrations, snapshots, backups, platform restore | detailed specification |
| `ChatService` | a private group's messages, files and members; the hub and its connections | detailed specification |
| `Accounts` | employees' accounts in the directory, their copies elsewhere, sessions | detailed specification |
| `VpnAccess` | who is on the VPN: access, devices, the access policy, the 2FA option | detailed specification |
| `VpnGateway` | what the VPN reaches through the gateway: routes and the office network | detailed specification |
| `Phones` | the phone service, the files it renders, Asterisk | detailed specification |
| `X_proofs` | theorems about each detailed `X` above; those about `PlatformData` are in `ModuleUpdate_proofs`, as its instance `Data` | proofs |

### ModuleLifecycle

A request is a *worker* with a program counter: each action is one call of the
handler (`lifecycle.go:354-720`, `nginx.go:120-300`), with a disjunct for the
success, one for each way the call fails, and, for `docker compose up` and
`down`, one for a failure after the effect. `Abort` is the handler's error
path: an install goes on to `markError`, the other operations return.
`Return` is `done()`. `beginOp` is the claim. `SetVisibility` is the one
operation that does not call it.

State ↔ code: `status, secret, visibility` are the columns of
`installed_modules` (`secret` stands for `config`), `archive` is
`module_config_archive`, `dir` the rendered `.env`, `ctr` and `vol` the
environment of the running containers and the one the volume was initialised
with, `vhost/snippet` the files, `liveHost/livePath` what nginx loaded.

Abstractions. Of a module's configuration only the generated secret is kept:
it is the one field whose loss nothing repairs. A route file is written (or
removed) in one step and nginx reloaded in another: `proxy.Manager` has no
mutex, so another request's files and reload, or a crash, fall between them. A
reload loads the files of every module as they are then; one that fails may
have loaded them too. The files of a module's several routes are written, and
removed, together. A render that fails leaves the directory as it was. The
private port of a module is not modelled (the race in its allocation is in the
hazard list). Containers are either those of one `up` or absent.

### ModuleUpdate

One update at a time (the claim), checks by `Checkers`, and the other
lifecycle operations as single steps. That they may be single steps is what
`OneOperationPerModule` and the theorem `MutualExclusion` of the lifecycle
show: they hold the same claim for their whole run. A directory is the pair
(version of its manifest, version of its code), with 0 for missing, so that
half an extraction and half a restore are states of their own. `restoreFiles`
ignores the errors of both its calls: `Restored` is, of each part, the copy's,
what was there before, or nothing, and the update goes on with that (history
`torn`). Versions have a
*quality* fixed in the initial state: `good`, `looping` (down at least once in
any `Needed` readings), `dead`, `invalid` (its manifest does not load).
`Enable` in this module starts the code of the module's directory.

### WikiPages

A save is one transaction: `Begin` takes a connection, `LockPage` the row,
`CheckAccess` a second connection for the length of a query,
`WriteAndCommit` gives everything back. `INSERT` and `UPDATE ... SET path`
wait for an uncommitted row at the same path, as the unique index does.
The other requests make one query at a time on any idle connection. Those of
their queries that may have to wait for a row take it first (`Acquire`) and keep
it while they wait: the DELETE, the UPDATE of a rename, the INSERT of a file with
its foreign key, and the transaction that sets rules, which clears them
(`ClearRules`) and then inserts new ones, whose foreign key waits for the page
(`SetPermissions`). Where a delete and a rules change wait for each other
PostgreSQL ends one of them; here it is the rules change. All
employees are of one group, so permission rules are a set of writable pages.
`WriteAndCommit` joins the insert of the revision, the title and the commit:
nobody else sees them before the commit.

A file is uploaded to the object store (`Upload`) and then recorded
(`RecordFile`); removing one deletes the row first (`RemoveFile`) and then the
object (`SweepObject`); deleting a page takes the objects first
(`RemoveObjects`), then the row, whose attachments go with it by cascade. A
request to the store may fail; one to the database does not. What readers see
is operators over the same state: `Listed` and `Searchable` pages, the page
`Shown` at a path, its `History`, the files `Attached` to it and whether each is
`Downloadable`.

### PlatformData

Startup (`Boot` to `ClearInterrupted`), the runs (`startRun` to `finish`), and
the world around them (`WriteData`, `LifecycleOperation`, `UpdateSnapshot`).
The database is its schema, the version recorded and the install records; a
dump or an archive also carries the moment of a clock that moves with every
change, which is what "no older than" means in the properties. A volume is
whole or left broken by half a restore. The two UPDATEs that end a run's row, in
`finish` and, for a process that died, in `ClearInterrupted`, may fail (fault
`"row"`); the platform goes on, and the history `unwritten` names those rows.

### ChatService

Two halves that meet in `Push`. The requests make one query at a time
(`CheckMember` to `RouteEvent`), as the code does: only creating a group is a
transaction, and the model starts after it. A tab's connection is a reader
(`Register` to `BroadcastOffline`, the body of `hub.Serve`), a writer
(`NextEvent` to `Ping`, its goroutine) and the queue between them; whatever the
hub does under its mutex is one step. A socket is up, closed, or silent (the
network is gone without a close), and only a ping or a write that fails ends
the wait on a silent one. Events keep the message they carry, 0 for the
others; texts are "sent", "edited" or empty. `said` and `reach` are history:
the last presence announced of somebody, and who has been a member since a
message was stored. A message's file is in two places: a row (`attached`) and
the storage (`objects`). `Upload` and `RecordFile` fill them in this order,
after the message is stored; `UnlinkFile` and `UnrecordFile` empty them, before
its text goes; the storage fails at will, with or without effect. `condemned`
is history: the messages whose sender has begun to delete them. What a member
reads is an operator on the state (`History`, `ShownWithFile`, `Downloads`). A
message and the row of its file are read in one step where the code takes two
queries (`LoadMessage`). Before each of its queries a request may end (`Abandon`:
the query fails, or the client goes away); what it has done stays done. History
`abandoned` says that one ended so after it had taken out the last member. Left
out: channels and direct messages (their members
come from the directory), search, replies, read state, typing notices, the
browser's own store.

### Accounts

One admin request at a time, each a program of calls (`Program`, the order of
the calls in the handler) with one action per call: the call succeeds, or, if
its service is the one that is `flaky` in this behaviour, it fails, before or
after its effect where the code can tell neither. What a failure does next is
the handler's: return the error, or log it and go on. An employee signs in
(`Verify`, `OpenSession`, then the personal calendar in `FindCalendar` and
`ProvisionCalendar`, which rewrites the users file an admin request rewrites)
and out beside it. Passwords are numbers, new each time; `told` is the set of
those somebody has seen, and `lag` remembers which copies a failed call left
out of step, so that the properties speak of everything else. Every call to the
file share or the calendar first looks whether the module runs, and returns
without an error where it does not (`Skipped`); an admin stops and starts the two
modules beside everything else (`Disable`, `Enable`), nothing is synced at the
start, and what was skipped is in `lag` as well. Left out:
`update-user`'s name and e-mail address, the VPN devices of a deleted account
(the NetBird calls of a delete are the revocation of `VpnAccess`), quotas and
the list of users.

### VpnAccess

Each `Worker` runs one request of `vpn.go` call by call: giving and revoking
access, approving and removing a device, the 2FA option, and a sync. Devices
enrol beside them (`Enrol`) and setup keys expire. `Policy` to `DropDefault` is
`ensureAccessPolicy`, the one part under a mutex (`mu`). A grant is a setup
key (one device, which waits for approval) or a login (any number, which NetBird
lets in because of the code). `admitted` is history: the devices an admin, a
code or the move of the account let in.

### VpnGateway

A sync (`Load` to `Finish`) is `syncGatewayRoutes` with `syncOfficeNetwork`,
`SetRulePolicies` and `DeletePoliciesWithPrefix`, one API call per action; any
call may fail (`Fault`) and an object another sync removed makes the call fail
(`Missing`). A save does not try again, a start and an install do (`GiveUp`).
A sync needs the VPN module to run and the account's stored token
(`netbirdClient`): without them it returns having done nothing, and without an
error; with a token of an account that is gone every call fails (`NoPeer`). The
module is stopped and started with its account kept (`Disable`, `Enable`), which
starts no sync; calls due while it is stopped fail (`Unreachable`).
`Reinstall` puts a fresh account in place between two syncs. What the devices
on the VPN reach is computed from the objects (`Reached`) and compared with
what the setting allows (`Allowed`).

### Phones

A request writes its rows and runs `Apply`, which reads the extensions, the
settings and the menu in three statements, writes three files in any order and
has Asterisk reload them in a fixed one. `Render` is `pbx.Render` as far as the
properties tell files apart: who has a password, who rings with the main
number, the outside line, whom the menu rings, who records the greeting, who
has a mailbox. `Stop` and `Start` are the service (which applies the rows before
it serves), `AsteriskStops` and `AsteriskStarts` the PBX, which reads the files
one after another; `RecordByPhone` is the recorder's call that overwrites the
greeting without an `Apply`. `unapplied`, `recorded` and `unloaded` name the
three ways in which the code itself accepts that files or Asterisk lag behind.

## 3. Runs

Each pass run also fires every action. `CHECK_DEADLOCK FALSE` is in every cfg
because the system really may stop: nobody has to send another request, and
the bounds on requests, failures and clocks end a behaviour.

| Run | Question | Bounds | Result |
|---|---|---|---|
| `lifecycle_routed` | Do two requests at a time, with any call failing and crashes anywhere, keep the claims, the rows, the secrets and the statuses in order? | 1 module with a host name, 2 workers, 3 secrets | holds |
| `lifecycle_paths` | Does every operation end and release its module, and is the lifecycle an implementation of `ModuleClaim`? | 1 module under a path, 2 workers, also reads that fail; no crash | holds |
| `lifecycle_secrets` | Does a new install reuse the secret its volume was initialised with? (`lifecycle.go:442-444`) | only publishing may fail | **violated** |
| `module_update` | Is what an update reports so, is everything copied first, does "updating" end? | 3 states of the world to begin with × qualities, 2 versions, `Needed` 2 of 3 readings, one check beside the update | holds |
| `wiki_pages` | No lost update, listed pages can be opened and their files downloaded, every request ends | 2 employees, 2 paths, 2 requests at once of 3 (so at most 3 pages, revisions, files), 3 connections | holds |
| `platform_data` | Does a way back exist whenever data is replaced, is a successful backup a backup, does every run end? | 1 module, 1 backup and 1 restore at a time, 2 versions, 2 changes, 2 runs, 2 failures | holds |
| `chat_service` | Do events reach only whom they should, can a file that is shown be downloaded, do connections, presence and empty groups go? | 2 employees, 2 requests at once, 2 tabs of one of them, 3 calls (requests, connections opened, sessions ended) in all, queue of 1 | holds |
| `accounts` | Do the copies of a login follow the directory, are people confined to their folders, do the disabled stay out? | 2 people, 2 groups, any one of 4 services failing at will, or one of the two modules stopped once, 3 admin requests, 1 sign-in, 4 passwords | holds |
| `vpn_access` | Is only who was admitted on the VPN, is every grant on record, does the move to the access policy lose anybody? | 2 people, 2 requests at once of 3, 3 grants, 3 devices, database or NetBird failing at will | holds |
| `vpn_gateway` | Does a sync leave exactly the setting, does a start that finds the VPN running repair what a failure left? | 2 subnets, 2 entries in the list of ports, 1 sync at a time, 4 requests (saves, restarts, installs, stops of the module), 2 failures | holds |
| `office_converges` | Is it safe to run a sync any time? (`gateway.go:100-101`) | 2 syncs at once, nothing fails | **violated** |
| `phones` | Do the files and Asterisk follow the rows, is a replaced password gone? | 2 numbers, 2 requests at once, one of database, files and AMI failing at will, 1 restart or recording; symmetric in numbers and workers | holds |

### Counterexamples kept beside the runs

These configurations are not among the runs; each checks one property that a
comment of the code states and TLC refutes in seconds
(`tlc -config X.cfg M`). They are kept as the shortest description of what
goes wrong, and their hazards in `PROJECT.json` name them. For three of them
section 5 proves the converse: what has to happen for the property to break.

| Configuration | Module | Property | What happens |
|---|---|---|---|
| `LifecycleVisibility.cfg` | `ModuleLifecycle` | `VisibilityIsHonoured` (`lifecycle.go:314-316`) | `SetVisibility` takes no claim; an install publishes the visibility it read before |
| `UpdateRollback.cfg` | `ModuleUpdate` | `FailedMeansOldVersionIsBack` (`updates.go:32-34`) | a manifest that does not load ends the update without rolling back the files |
| `UpdateRestore.cfg` | `ModuleUpdate` | `RolledBackIsBack` (`update_safe.go:101`) | the old files are not put back, which `restoreFiles` does not report; what is there starts and the update says "rolled back" |
| `WikiPool.cfg` | `WikiPages` | `SavesEnd` | as many requests as connections: two saves each hold one and wait for a second, or a save does while a rules change holds the other and waits for the save's row |
| `NoDowngrades.cfg` | `PlatformData` | `NoDowngrades` (`README.md:364-366`) | a crash before the version is recorded leaves a newer schema that older code accepts |
| `ChatDeleted.cfg` | `ChatService` | `DeletedStaysEmpty` (`0003_edit_delete.sql:1-6`) | an edit or an upload that overlaps a delete puts text into the deleted message, or a file on it |
| `ChatAbandoned.cfg` | `ChatService` | `EmptyGroupsAreDropped` (`customgroups.go:234`) | the last member is taken out, and the request ends on an error before the group is dropped |
| `AccountsStopped.cfg` | `Accounts` | `DisabledStayOutOnceStarted` (`users.go:646-688`) | somebody is disabled while the file share is stopped; after its start their password works there |
| `AccountsCutOff.cfg` | `Accounts` | `CutOff` (`employee/auth.go`, `RevokeAll`) | a sign-in verified before somebody is deleted opens its session after |
| `VpnCodes.cfg` | `VpnAccess` | `LoginsNeedCodes` (`vpn.go:294-296`) | the 2FA option is turned off while a login is made that no row names yet |
| `VpnStopped.cfg` | `VpnGateway` | `StartRepairsForGood` (`gateway.go:102-105`) | a start finds the VPN module stopped and does nothing; the module is started later and no sync runs |

### The properties

*Lifecycle.* `OneOperationPerModule`: the claim is held exactly while one
operation is under way, through every early return. `InstallOwnsItsRow`: the
unchecked UPDATEs at the end of an install always hit the row the install
recorded. `DeployedSecretsAgree`: a recorded secret is the one rendered and
the one the containers run with, also when an operation stopped half-way.
`ConfigSurvivesUninstall`: a recorded secret leaves the row only once the
archive holds it. `StatusIsTrueWhenRecorded`: "running" and "stopped" are true
of containers and nginx at the moment they are written. `ClaimsAreReleased`
and `ImplementsModuleClaim`: every operation ends with one of the outcomes of
`ModuleClaim` in the step that releases the module. Crashes are left out of that
run because to `ModuleClaim` a restart is a step that drops any claim without an
outcome: with it allowed, an operation that forgets its outcome would look like
a restart of a platform with one module.

*Updates.* `OutcomeIsTrue`: "updated" and "rolled back" are true of disk, catalog
and containers; that the files are exactly the old ones is said unless
`restoreFiles` failed to put them back (`torn`), which the code cannot tell.
`CopiesBeforeChanges`, `UpdatingEnds`.

*Wiki.* `NoLostUpdate` relates each revision to the one its editor had seen;
`PagesAreWhole` says that what is listed can be had: a page's path shows that
page and no other, search and list agree, a recorded file belongs to a listed
page and is in the store until the page's deletion has begun, although rows and
objects change one at a time and any of the storage's calls may fail;
`RequestsEnd`.

*Data.* `WayBack` (a snapshot not older than the restore, or of the schema
before an upgrade not older than this start, is on disk at the step that
replaces data), `BackupHolds`, `RunsEnd` (but for a row whose last UPDATE
failed).

*Chat.* `NothingAfterSessionEnds`: a connection stays registered after its
session has ended, so what keeps an event from it is the check before each
write. `PushesReachMembers`: members change between a request's check, its
insert and its push. `GoneIsShownGone`: in whatever order tabs open and close,
the last announcement about somebody without a connection is "offline".
`GroupIsWhole`: leaving is two queries, and two may leave at once; and a file
takes two calls each way, either of which may fail, beside deletions of the
message, of the group, and a second deletion of the same message. A group emptied
by a request that was cut off right after (`abandoned`) is exempt, since the code
leaves it there.
`ConnectionsEnd`: silent tabs and ended sessions are noticed.

*Accounts.* All between two requests. `LoginsFollow`: after any sequence of
requests, a login at the file share or the calendar has the directory's
password or is gone, unless a call of that person's last request failed or found
the module stopped. `RulesConfine`: rules are lists of what is denied, written when people and
groups were fewer; still nobody's login reaches somebody else's folder, unless
rules were due while the file share was stopped and nothing has rebuilt them
since. `DisabledStayOut`: also when enabling fails half-way; at the file share it
excepts a removal of the login that failed or found the module stopped.

*VPN.* `OnlyAdmitted` and `NobodyLosesAccess` are the two halves of the move off
NetBird's Default policy, with devices enrolling and requests running in the
middle of it. `AccessIsRecorded`: revoking somebody finds everything that lets
them in. `OfficeFollows`: a sync that succeeded leaves exactly the LAN and the
ports of the setting, from whatever an earlier one that failed half-way left
behind; `StartRepairs`: and a start gets there, unless it finds the VPN module
stopped or the module is stopped while it is at it.

*Phones.* `ConfigFollows`: two requests write rows, read them in three
statements and write three files; when nothing is in progress, files and
Asterisk agree with the rows. `RetiredStaysOut`: a password that an admin was
told is replaced is in no file and not loaded.

### Why the bounds are enough

Claims, rows, directories and routes are per module, and no action of one
module reads another's, apart from the nginx reload, which loads every file:
one module is enough to interleave its requests, and the theorems cover any
number. Two workers are the smallest number that races; a third adds only
another `SetVisibility`. Three secrets: the row's, the archive's, a fresh one.
An update involves a version, the one before, and the one published meanwhile.
`Needed` is 2 where the code wants 4 readings in a row: 2 is the least number
for which a streak can be broken. `keepSnapshots` is 2 for the code's 5, with
one module update. More updates than snapshots are kept would prune the
restore's own before it replaces the database; `WayBackIsKept` shows that this
costs nothing, since each of those was taken later and the newest is never pruned.
One connection more than there are requests at a time is the fewest with which
no ring closes: each request holds one at most while it waits, and a save's
access check takes the one left. With as many as there are requests one does
(`WikiPool.cfg`), and so it does at any size of the pool.
In `chat_service` each property breaks within three calls if it breaks through
two actors: two members leaving at once; an upload and a deletion; a tab, a
removal and a message; two tabs of one employee, or one and the end of its
session. A queue of 1 (the code
has 32) is full at the second event. A request takes any idle worker, and a
connection any idle tab: they are alike, so the model takes one of them.
In `accounts` three requests are the create, change and undo in which rules and
copies can fall behind; one service fails at will in a behaviour, since what two
failing ones leave behind is the union of what each leaves. A module is stopped
at most once, and only in behaviours in which no service fails: the two together
would multiply the states and add no new kind of step. In `vpn_access` two
people make the difference between one's devices and everybody's; three grants
are an old one, its replacement, and one of somebody else. In `vpn_gateway` the
two entries are one per policy, so that a shorter list leaves one over, and two
failures are one in a sync and one in the sync that repairs it. One worker,
because with two `OfficeConverges` is violated and so `OfficeFollows` excludes
what follows. In `phones` two requests that overlap are what the mutex is for;
the third password is the second one's replacement.

### Fairness

Weak fairness of the steps of accepted work only, never of requests, crashes,
publications or data. Handlers run to their end: `longOp` detaches an install
or an update from the client's connection and a timeout ends each call, so a
step is eventually taken or fails. The platform's container is started again
whenever it is down (`restart: unless-stopped` in `docker-compose.yaml`), which
justifies `WF(Startup)`. `RunsEnd` does not claim anything about a version that
refuses to start. PostgreSQL hands over locks and the pool hands over
connections to somebody; with finitely many requests weak fairness is enough.
In `ChatService` the reader and the writer of a connection are goroutines that
run whenever they can, and the writer's ticker never stops ticking while it
waits (`hub.go:216`, `237`); requests and clients owe nothing.
In `VpnGateway` a sync goes on or its call fails: the sync at a start runs in a
goroutine of its own that nothing cancels, and failures are bounded by less
than the 20 attempts it has.

### What the failures leave out

`lifecycle_routed` lets every call fail but the UPDATE of `markError` (the row
then says "installing" until the next operation, a hazard with no property) and
the read of the stored configuration, after which `DeployedSecretsAgree` would
not hold; `lifecycle_paths` includes that read. The admin leaves the secret
field empty in both; a typed secret replaces the stored one by request.
`platform_data` lets every call fail, two in a behaviour, the UPDATEs of `finish`
and `ClearInterrupted` included.

`accounts` lets one service fail in a behaviour, before or after it did what it
was asked; the calendar server's write, its restart and the making of the
calendar are one step; the file share is stopped and started, not uninstalled.
`wiki_pages` lets the object store fail and not the
database. `vpn_gateway` installs the VPN module again only between two syncs.
`phones` lets one upload run at a time: two would share one temporary file
(`ivr.go:175`).

## 4. Findings

1. `lifecycle_secrets`: secrets are recorded by the last statement of
   `doInstall`; an install that fails after `compose up` leaves a row without
   them, and the next install generates new ones for the old volume.
2. `office_converges`: two syncs that both find no office network make two;
   later syncs look after one and report success. After a change of the subnet
   the other one still routes the old subnet, and the devices reach it on the
   ports allowed for the new one. Switching the office network off closes both,
   since it deletes every office policy; the second network itself remains.

The counterexamples of section 3 are further disagreements between what a
comment, a name or a message promises and what the code does.

### Further hazards

Read in the code, not in `PROJECT.json`'s list, and covered by no property. A
module allocates `MAX(port)+1` without a lock (`lifecycle.go:368`). A row says
"installing" after the process of its install died (`lifecycle.go:465`). A
bundle is packed in Go's map order, so that its checksum changes with every
fetch (`registryclient/client.go:154`). A failed backup counts as the last one for the scheduler
(`backup.go:325`). The second process of a Docker pipe ends first
(`docker/client.go:278`). A save that changes only a title adds no revision
(`pages.go:280`). An audit entry takes its time before the chain's lock
(`audit.go:236`). Moving a user leaves the old group before the new one is
known to exist (`users.go:520`). The WebDAV and calendar users files are read,
changed and written back (`webdavfs/sync.go:126`, `radicalefs/sync.go:175`).
Two uploads of a greeting share one file (`ivr.go:175`). A chat upload that
fails leaves its message without the file, and nobody is pushed it
(`chat/.../attachments.go:131`); dropping a group leaves its files in the
storage (`customgroups.go:235`). After a reload that failed, `RemoveRoutes`
finds no file left and returns without reloading (`nginx.go:271`).

## 5. Proofs

`X_proofs.tla` holds the theorems about `X.tla`, and `ModuleUpdate_proofs.tla`
also those about `PlatformData.tla` (`Data`), which takes the safety snapshot of
every update. Each rests on the assumptions that `X` makes of its constants and
on nothing else, unless the table names a hypothesis, so that it speaks of any
number of requests, people, modules, pages, numbers, devices and faults. Three
of the hypotheses are those of the runs; the other three belong to properties
that the code does not keep (section 3), and say what breaks them.

| Theorem | Says |
|---|---|
| **Lifecycle** `TypeCorrect` | `Spec => []TypeOK` |
| `MutualExclusion` | `Spec => []OneOperationPerModule` |
| `InstallKeepsItsRow` | `Spec => []InstallOwnsItsRow` |
| `ConfigIsKept` | `Spec => ConfigSurvivesUninstall` |
| `StatusIsTrue` | `Spec => StatusIsTrueWhenRecorded` |
| `SecretsAgree` | `Spec => []DeployedSecretsAgree`, if the secret field is left empty and the stored configuration can be read (`BlankForm`) |
| `ManagerImplementsClaims` | `Spec => ImplementsModuleClaim`, if the UPDATE in `markError` does not fail |
| **Updates** `UpdateTypeCorrect` | `Spec => []TypeOK` |
| `OutcomesAreTrue` | `Spec => []OutcomeIsTrue` |
| `CopiesComeFirst` | `Spec => []CopiesBeforeChanges` |
| `ShownUpdatesAreUnderWay` | while an entry says "updating" the module is claimed |
| **Data** `DataTypeCorrect` | `Data!Spec => []Data!TypeOK` |
| `WayBackIsKept` | `Data!Spec => Data!WayBack` |
| `BackupsHold` | `Data!Spec => []Data!BackupHolds`, if one backup runs at a time |
| `CompletedStartsPreventDowngrades` | `Data!Spec => []Data!NoDowngrades`, if nothing cuts a start short (`"crash"`, `"migration"`, `"db"` not in `Faults`) and nothing is restored |
| **Wiki** `WikiTypeCorrect` | `Spec => []TypeOK` |
| `NoUpdateIsLost` | `Spec => []NoLostUpdate` |
| `PagesStayWhole` | `Spec => []PagesAreWhole` |
| **Chat** `ChatTypeCorrect` | `Spec => []TypeOK` |
| `NothingShownAfterSession` | `Spec => []NothingAfterSessionEnds` |
| `GoneAreShownGone` | `Spec => []GoneIsShownGone` |
| `EventsReachMembers` | `Spec => []PushesReachMembers` |
| `GroupsAreWhole` | `Spec => []GroupIsWhole` |
| `DeletedAreEmpty` | `Spec => []DeletedStaysEmpty`, as long as no employee has two requests under way (`[]OneEach`) |
| **Accounts** `AccountsTypeCorrect` | `Spec => []TypeOK` |
| `LoginsStayInStep` | `Spec => []LoginsFollow` |
| `FoldersStayConfined` | `Spec => []RulesConfine` |
| `DisabledAreOut` | `Spec => []DisabledStayOut` |
| **VPN access** `VpnTypeCorrect` | `Spec => []TypeOK` |
| `OnlyAdmittedJoin` | `Spec => []OnlyAdmitted` |
| `AccessOnRecord` | `Spec => []AccessIsRecorded` |
| `NobodyIsLeftOut` | `Spec => NobodyLosesAccess` |
| `CodesAreKept` | `Spec => [](blurred = {} => LoginsNeedCodes)`, if one request runs at a time and the database answers |
| **VPN gateway** `GatewayTypeCorrect` | `Spec => []TypeOK` |
| `OfficeIsFollowed` | `Spec => []OfficeFollows` |
| **Phones** `PhonesTypeCorrect` | `Spec => []TypeOK` |
| `ConfigurationFollows` | `Spec => []ConfigFollows` |
| `OldPasswordsStayOut` | `Spec => []RetiredStaysOut` |

The assumptions on the constants say that sets that are chosen from are not
empty, that bounds are numbers (and leave room for the first password, device,
object id), and that the value that stands for "nobody" or "nothing" is none of
the people, subnets or secrets it is told from. TLC evaluates them on every run.

### The arguments

None of the properties is inductive by itself: each is about the end of a
request, and what has to be known is what the request has achieved at each of
its calls. Every inductive invariant is therefore a conjunction of a part per
table or server and a part per request under way, indexed by the call it stands
at. Where a handler has many calls, a lemma (`Effects`, `Turns`, `Steps`) first
says that each step is one of the few things a call can do.

*Lifecycle.* A step must be known to belong to its operation: `ControlInv` ties
each operation to the calls it makes; with `TypeOK` and `OneOperationPerModule`
it is inductive (`ControlOK`), and `Exclusion` turns it into the fact used
afterwards: two operations under way are on two modules. `ProgressInv` says what
an operation has achieved: its row is there, its directory rendered, its
containers up, its files written, its routes loaded (`ProgressStep`). Without
`Exclusion` another request would undo it; a reload of another request does not,
since it loads files that are there (`PublishedInv` says so of the files too).
`RowWriters` (five calls write the row or the archive) gives the action
properties. `SecretInv` adds that an install carries the secret that is
recorded.

*The lifecycle implements `ModuleClaim`.* The mapping shows a claim as the
operation that holds it; `ClaimsShow` says by `MutualExclusion` that this is one.
Then step by step: `BeginsAsPromised`, `CallUnseen` (a call within an operation
changes nothing that is promised), `EndsAsPromised` (the last call sets one of
the outcomes and gives the claim up), `AbortsAsPromised`, `VisibilityUnseen`.
The hypothesis that the UPDATE of `markError` goes through is needed: without
it an install that failed ends as "installing", which is not an outcome. The
runs say the same (section 3, "What the failures leave out").

*Updates.* The claim lasts from `Claim` to `Report` (`ClaimInv`), so what was
saved stays saved (`CopiesInv`) and the new and the old version get as far as
the calls say (`NewInv`, `OldInv`). `CountersInv` is the heart of
`OutcomesAreTrue`: at each reading the containers have been up for exactly the
streak `WaitHealthy` has counted, so a version that goes down at least once in
`Needed` readings never reaches a full streak (`GoodStreak`).
A restore that nothing checks (`torn`) leaves `catalog` and `running` what is on
disk, whatever that is, since both are read from it afterwards.
`ShownUpdatesAreUnderWay` (a check that replaces the map of entries brings back
no status of an update that has ended) is part of what makes `UpdatingEnds` true.

*Data.* `TablesInv` and `JobsInv` type the database, the files, the bucket and
the calls of each kind of run: `JobsInv` also says that runs make calls only
while the platform serves. `WayBack` is about one particular snapshot that others
may prune, so that no invariant about that one is inductive. What is: the newest
snapshot on disk is at least as recent as the moment a restore began
(`RestoreInv`), or, before a start changes a schema that was in use, as that
start, and of the schema it found (`StartInv`). Updates only add newer ones, and
pruning drops the oldest (`SnapshotTaken`, `SavedStays`). `BackupInv`: at each
call of a backup that has not failed so far, the dump and the archives it has
behind it are in the bucket and not older than the backup. `BucketWritten` says
that only a backup writes there, and here the hypothesis comes in: two at once
replace each other's dump, and the older one may come last. `RecordedInv`: but
in the middle of a start the recorded version is the schema's, if no start ends
in between; then the check at the next start sees every schema that is newer
than the code.

*Wiki.* A save about to write holds the row lock of its page and has seen the
last revision of its history, or it creates a page whose path and number nobody
else has (`SavesInv`); what others do leaves that alone (`OthersSave`), so the
base that was compared is still the last one when the revision is added.
`FilesInv` says that every recorded file is in the store unless the deletion of
its page has begun, and that a file about to be recorded is in nobody else's
hands. `CountsInv` counts the requests that have yet to take an id, and those
that hold a connection.

*Chat.* What is on its way to a client is bounded by `Allowed`, the pairs of a
message and somebody who was a member at some time since it was stored:
`ConnsOK` says so of the queues, `JobInv` of a message about to be pushed, and
what they rely on only grows until the group is gone (`GrowStep`). While a
session is valid nothing in its queue is late, and the check before each write
keeps what became late from being written. `SaidInv`: whoever was last
announced as online has a tab, or one that has yet to announce its end;
`EmptyInv`: who leaves an empty group behind has yet to drop it, or was cut off.

For `DeletedAreEmpty`, `Changing` ties each call that changes a message to what
it relies on: the message is its employee's, not deleted where something is put
into it, without a file where it is about to be deleted. Other people's requests
are about other messages (`OthersChanging`), and `OneEach` excludes a second one
of the same person. It is a hypothesis about the behaviour, not the constants,
so that any number of people may write at once.

*Accounts.* `LoginsInv`, `RulesInv`, `PasswordInv` and `DisabledInv` hold in the
middle of requests too: each exempts the user of the request under way exactly
between the calls that take the directory and the copy out of step
(`DavOpen`, `CalOpen`, `RulesOpen`, `Withheld`). The calendar's users file is
read and written back in two calls, and between them nothing may change it
(`FileRead`): the property, and the invariant, speak of the calendar only as
long as nobody has signed in, which rewrites the file beside the requests. A password
that a disabled person once had is not among those told (`PasswordInv`), since
each is given out once (`DirectoryInv`). A call that finds its module
stopped adds to `lag` what a failed one would, and stopping and starting a
module changes nothing the invariants speak of.

*VPN access.* `MoveInv` says of the one request that holds `mu` which devices it
has listed and which of them are approved: all that were there when the move
began and still are there are, at the call that drops the Default policy; and
nobody approves a single device before that. `AdmitInv`: whoever is approved,
or on a list read and about to be written back, was admitted. `AccessInv` says
of the one request about a user at which of its calls the user's grants are
those of the row, or none; users about whom two requests overlapped, or one
failed half-way, are exempt (`blurred`), as in the property.
`CodesInv` adds, for one request at a time, that the option is on wherever there
is a login or one is about to be made, and that the request that turns it off
has read that there is none; it takes from `AccessInv` that grants and rows
agree. A query that fails reads as "no login", which is why the database must
answer.

*VPN gateway.* Without overlaps (`SyncInv`) no name in NetBird stands for two
objects (`NamesApart`), and a sync has brought in line, by the call it stands
at, the routes (`RoutesDone`), then the network (`NetworkDone`), then the
policies, slot by slot (`PoliciesDone`), from whatever an earlier sync left.
`RulesExact` is about `parseOfficePorts`: the rules it makes open exactly the
ports listed, and `EndsInLine` adds up what the devices then reach. Ids given out
in order keep two objects apart. Whether the module runs decides which calls
are made and nothing about what they leave, so `running` has a part of its own
(`RunningInv`). Once `overlapped` is true the invariant says
nothing but types, as `OfficeConverges` is then violated.

*Phones.* The mutex makes one request at a time read the rows, write the files
and reload Asterisk (`MutexInv`), but rows change meanwhile. Either what it has
read is what the rows say, or somebody who changed them still waits for the
mutex (`Pending`, `ViewOK`, `AppliedInv`): the last one to leave has read
everything. For passwords, a request that has replaced one keeps it out
of the rows, of what it reads then, of the file it writes and of what is loaded
from that (`OldOK`), while no other request can bring it back: nobody is in
`Apply` with an older view, and no password is given out twice.

### Only model-checked

- Liveness under fairness, which is out of the prover's reach:
  `ClaimsAreReleased`, `UpdatingEnds`, `RequestsEnd`, `RunsEnd`,
  `ConnectionsEnd`, `StartRepairs`. The invariants above are the safety half of
  the argument for them.
- The properties that are violated, and the bounds' sufficiency (section 3).
- `FailedMeansOldVersionIsBack`, `VisibilityIsHonoured` and `CutOff` have no
  converse proved here.

## 6. Plan

In this order:

1. **The chat's other end** (`ChatClient`, composed with `ChatService`): messages
   committed and pushed in different orders, the browser's cursor and backfill,
   edits missed while away. Abstract specification: a log each member reads
   without gaps, which `messages.go:27-28` promises and the ids may not keep.
   Then channels, direct messages, search and read state.
2. **Two admin requests at once** in `Accounts`, with the lost change of a group
   (`directory/groups.go:156`) and of the users files; the admin's own sessions.
3. **Audit** (`AuditLog`): the chain under concurrent records, prune, verify.
4. **Docker pipe**, the WebDAV files in `PlatformData`, then the mesh.
5. **More proofs**: the converses of the remaining counterexamples, and of the
   two findings (one sync at a time is already in `OfficeIsFollowed`).

## 7. Not modelled

Text: virtual hosts, compose files, manifests, API payloads. Which port is
allocated. The copy of WebDAV files and `runRestore` (an additive copy), when
the scheduler wakes up, two backups at once. Certificates. Which group a wiki
rule names. Events in calendars. Calls. How the two processes of a Docker pipe
end. The parts with status
`not_modelled` in `PROJECT.json`.
