---------------------------- MODULE PlatformData ----------------------------
(***************************************************************************)
(* What keeps the platform's data: the migrations at startup with their    *)
(* safety snapshot, the backup of the database and of the modules' volumes *)
(* to a bucket, and the restore of the whole platform from it, while users *)
(* and modules go on writing, the platform crashes, and the admin changes  *)
(* the platform's version.                                                 *)
(*                                                                         *)
(* Of the data, the model keeps what decides the outcome: the schema, the  *)
(* version recorded, the install records, and whether a volume is whole. A *)
(* dump or an archive also carries the moment it was taken, on a clock     *)
(* that moves with every change. The tables backupKeepTables names are not *)
(* part of a dump: here that is runs, the history of runs.                 *)
(***************************************************************************)
EXTENDS Integers, Sequences

CONSTANTS
    Modules,       \* modules with a volume to back up
    Backups,       \* backups at a time
    Restores,      \* restores of the platform at a time
    Versions,      \* versions of the platform: 1 .. Versions, a migration each
    keepSnapshots, \* safety snapshots kept on disk (5)
    Faults,        \* the calls that may fail
    MaxClock,      \* bound: changes to the data
    MaxRuns,       \* bound: runs ever started
    MaxFaults,     \* bound: failures, crashes and changes of version
    MaxUpdates,    \* bound: safety snapshots taken by module updates
    None,          \* no dump, no archive
    Broken         \* a dump or an archive cut off half-way

VARIABLES
    code,       \* the version of the platform that is installed
    phase,      \* where the platform's process is: down, starting, serving
    db,         \* the database: its schema, core_schema_version, install records
    runs,       \* backup_runs
    snapshots,  \* the safety snapshots, oldest first
    vols,       \* each module's volume: whole, or broken by half a restore
    up,         \* the modules whose containers run
    bucket,     \* the backup: a dump of the database, an archive of each volume
    job,        \* each run: its next call, its row, what it still has to do
    clock, faults, updates,  \* counters behind the bounds
    booted,     \* history: the clock and the schema when this start began
    unwritten   \* history: the runs whose row this process could not write

vars == <<code, phase, db, runs, snapshots, vols, up, bucket, job, clock, faults, updates,
          booted, unwritten>>

Workers == Backups \union Restores
Times == 0 .. MaxClock

Schemas   == 0 .. Versions
Databases == [schema : Schemas, recorded : Schemas, rows : SUBSET Modules]
Volumes   == {"whole", "broken"}
Dumps     == [db : Databases, at : Times]
Archives  == [volume : Volumes, at : Times]

ASSUME DataConstants ==
    /\ {Versions, keepSnapshots} \subseteq Nat \ {0}
    /\ {MaxClock, MaxRuns, MaxFaults, MaxUpdates} \subseteq Nat
    /\ Backups \intersect Restores = {}
    /\ {None, Broken} \intersect (Dumps \union Archives) = {}

Idle == [pc |-> "idle", run |-> 0, todo |-> {}, ids |-> {}, failed |-> FALSE, since |-> 0,
         dump |-> None]

TypeOK ==
    /\ code \in 1 .. Versions
    /\ phase \in {"down", "check", "snapshot", "migrate", "record", "clear", "serving"}
    /\ db \in Databases
    /\ Len(runs) <= MaxRuns
    /\ \A r \in DOMAIN runs : runs[r] \in {"running", "success", "error"}
    /\ Len(snapshots) <= keepSnapshots
    /\ \A i \in DOMAIN snapshots : snapshots[i] \in [schema : Schemas, at : Times]
    /\ vols \in [Modules -> Volumes]
    /\ up \in SUBSET Modules
    /\ bucket.db \in Dumps \union {None, Broken}
    /\ bucket.vols \in [Modules -> Archives \union {None, Broken}]
    /\ \A w \in Workers :
        /\ job[w].pc \in {"idle", "start", "remote", "dump", "upload", "list", "volume",
                          "snapshot", "replace", "reinstall", "finish"}
        /\ job[w].run \in 0 .. MaxRuns
        /\ job[w].todo \subseteq job[w].ids /\ job[w].ids \subseteq Modules
        /\ job[w].since \in Times
    /\ clock \in Times
    /\ faults \in 0 .. MaxFaults
    /\ updates \in 0 .. MaxUpdates
    /\ unwritten \subseteq 0 .. MaxRuns

NotStarting == [at |-> 0, schema |-> 0]

\* A new server, its first start still to come.
Init ==
    /\ code = 1
    /\ phase = "down"
    /\ db = [schema |-> 0, recorded |-> 0, rows |-> {}]
    /\ runs = <<>>
    /\ snapshots = <<>>
    /\ vols = [m \in Modules |-> "whole"]
    /\ up = {}
    /\ bucket = [db |-> None, vols |-> [m \in Modules |-> None]]
    /\ job = [w \in Workers |-> Idle]
    /\ clock = 0 /\ faults = 0 /\ updates = 0
    /\ booted = NotStarting
    /\ unwritten = {}

----------------------------------------------------------------------------

\* The call fails, as far as the bound on failures goes.
Fails(call) ==
    /\ call \in Faults
    /\ faults < MaxFaults
    /\ faults' = faults + 1

Works == UNCHANGED faults

Tick ==
    /\ clock < MaxClock
    /\ clock' = clock + 1

\* Mutant: nothing is pruned.
Snapshot_Unpruned == snapshots' = Append(snapshots, [schema |-> db.schema, at |-> clock])

\* db.Snapshot: a dump of everything, and the oldest ones are pruned.
Snapshot ==
    LET all == Append(snapshots, [schema |-> db.schema, at |-> clock]) IN
    snapshots' = IF Len(all) > keepSnapshots THEN Tail(all) ELSE all

----------------------------------------------------------------------------
(* Startup: Migrate, and the rows of interrupted runs.                     *)

Boot ==
    /\ phase = "down"
    /\ phase' = "check"
    /\ booted' = [at |-> clock, schema |-> db.schema]
    /\ unwritten' = {}
    /\ UNCHANGED <<code, db, runs, snapshots, vols, up, bucket, job, clock, faults, updates>>

\* Older code refuses a database a newer version recorded itself in. An empty
\* database needs no snapshot.
CheckSchema ==
    /\ phase = "check"
    /\ phase' = IF db.recorded > code THEN "down"
                ELSE IF db.schema >= code THEN "record"
                ELSE IF db.schema > 0 THEN "snapshot"
                ELSE "migrate"
    /\ UNCHANGED <<code, db, runs, snapshots, vols, up, bucket, job, clock, faults, updates,
                   booted, unwritten>>

\* Mutant: a failed snapshot does not stop the upgrade.
SnapshotBeforeUpgrade_BestEffort ==
    /\ phase = "snapshot"
    /\ \/ Snapshot /\ Works
       \/ UNCHANGED snapshots /\ Fails("snapshot")
    /\ phase' = "migrate"
    /\ UNCHANGED <<code, db, runs, vols, up, bucket, job, clock, updates, booted,
                   unwritten>>

SnapshotBeforeUpgrade ==
    /\ phase = "snapshot"
    /\ \/ Snapshot /\ phase' = "migrate" /\ Works
       \/ UNCHANGED snapshots /\ phase' = "down" /\ Fails("snapshot")
    /\ UNCHANGED <<code, db, runs, vols, up, bucket, job, clock, updates, booted,
                   unwritten>>

\* One migration, in a transaction of its own; a failed one stops the start.
ApplyMigration ==
    /\ phase = "migrate"
    /\ \/ /\ db' = [db EXCEPT !.schema = @ + 1]
          /\ phase' = IF db.schema + 1 = code THEN "record" ELSE "migrate"
          /\ Works
       \/ UNCHANGED db /\ phase' = "down" /\ Fails("migration")
    /\ UNCHANGED <<code, runs, snapshots, vols, up, bucket, job, clock, updates, booted,
                   unwritten>>

RecordVersion ==
    /\ phase = "record"
    /\ \/ db' = [db EXCEPT !.recorded = code] /\ phase' = "clear" /\ Works
       \/ UNCHANGED db /\ phase' = "down" /\ Fails("db")
    /\ UNCHANGED <<code, runs, snapshots, vols, up, bucket, job, clock, updates, booted,
                   unwritten>>

Running(r) == IF r \in DOMAIN runs THEN runs[r] = "running" ELSE FALSE

\* Mutant: runs the last process left behind keep their row as it is.
ClearInterrupted_Skipped ==
    /\ phase = "clear"
    /\ UNCHANGED runs
    /\ phase' = "serving"
    /\ booted' = NotStarting
    /\ UNCHANGED <<code, db, snapshots, vols, up, bucket, job, clock, faults, updates, unwritten>>

\* That it failed is only logged: the platform serves all the same.
ClearInterrupted ==
    /\ phase = "clear"
    /\ \/ /\ runs' = [r \in DOMAIN runs |-> IF runs[r] = "running" THEN "error" ELSE runs[r]]
          /\ UNCHANGED unwritten
          /\ Works
       \/ /\ unwritten' = {r \in 1 .. MaxRuns : Running(r)}
          /\ UNCHANGED runs
          /\ Fails("row")
    /\ phase' = "serving"
    /\ booted' = NotStarting
    /\ UNCHANGED <<code, db, snapshots, vols, up, bucket, job, clock, updates>>

\* The process dies, and with it every run. Containers go on.
Crash ==
    /\ phase # "down"
    /\ Fails("crash")
    /\ phase' = "down"
    /\ job' = [w \in Workers |-> Idle]
    /\ UNCHANGED <<code, db, runs, snapshots, vols, up, bucket, clock, updates, booted,
                   unwritten>>

\* The admin installs another version of the platform, newer or older.
ChangeVersion ==
    /\ phase \in {"down", "serving"}
    /\ Fails("version")
    /\ code' \in (1 .. Versions) \ {code}
    /\ phase' = "down"
    /\ job' = [w \in Workers |-> Idle]
    /\ UNCHANGED <<db, runs, snapshots, vols, up, bucket, clock, updates, booted,
                   unwritten>>

----------------------------------------------------------------------------
(* What goes on meanwhile.                                                 *)

\* Users and modules write to the database and the volumes, also while the
\* platform is down.
WriteData ==
    /\ db.schema > 0
    /\ Tick
    /\ UNCHANGED <<code, phase, db, runs, snapshots, vols, up, bucket, job, faults, updates,
                   booted, unwritten>>

\* A module is installed, or uninstalled; its volume stays.
LifecycleOperation ==
    /\ phase = "serving"
    /\ Tick
    /\ \E m \in Modules :
        \/ m \notin db.rows /\ db' = [db EXCEPT !.rows = @ \union {m}] /\ up' = up \union {m}
        \/ m \in db.rows /\ db' = [db EXCEPT !.rows = @ \ {m}] /\ up' = up \ {m}
    /\ UNCHANGED <<code, phase, runs, snapshots, vols, bucket, job, faults, updates, booted,
                   unwritten>>

\* A module update takes its own safety snapshot.
UpdateSnapshot ==
    /\ phase = "serving"
    /\ updates < MaxUpdates
    /\ updates' = updates + 1
    /\ Snapshot
    /\ UNCHANGED <<code, phase, db, runs, vols, up, bucket, job, clock, faults, booted, unwritten>>

----------------------------------------------------------------------------
(* A run, of either kind.                                                  *)

Goto(w, next) == job' = [job EXCEPT ![w].pc = next]

\* A part that failed is noted, and the run goes on.
Failed(w, next) == job' = [job EXCEPT ![w].pc = next, ![w].failed = TRUE]

\* The button, or for a backup the scheduler.
Request(w) ==
    /\ phase = "serving"
    /\ job[w].pc = "idle"
    /\ Len(runs) < MaxRuns
    /\ job' = [job EXCEPT ![w] = [Idle EXCEPT !.pc = "start"]]
    /\ UNCHANGED <<code, phase, db, runs, snapshots, vols, up, bucket, clock, faults, updates,
                   booted, unwritten>>

startRun(w) ==
    /\ job[w].pc = "start"
    /\ \/ /\ Len(runs) < MaxRuns
          /\ runs' = Append(runs, "running")
          /\ job' = [job EXCEPT ![w].pc = "remote", ![w].run = Len(runs) + 1, ![w].since = clock]
          /\ Works
       \/ /\ job' = [job EXCEPT ![w] = Idle]
          /\ UNCHANGED runs
          /\ Fails("db")
    /\ UNCHANGED <<code, phase, db, snapshots, vols, up, bucket, clock, updates, booted,
                   unwritten>>

\* The destination may not be configured, or its module not be running.
rcloneRemote(w) ==
    /\ job[w].pc = "remote"
    /\ \/ Goto(w, IF w \in Backups THEN "dump" ELSE "snapshot") /\ Works
       \/ Failed(w, "finish") /\ Fails("remote")
    /\ UNCHANGED <<code, phase, db, runs, snapshots, vols, up, bucket, clock, updates, booted,
                   unwritten>>

\* pg_dump sees the database as of its start.
DumpDatabase(w) ==
    /\ job[w].pc = "dump"
    /\ job' = [job EXCEPT ![w].pc = "upload", ![w].dump = [db |-> db, at |-> clock]]
    /\ UNCHANGED <<code, phase, db, runs, snapshots, vols, up, bucket, clock, faults, updates,
                   booted, unwritten>>

\* The bucket's dump is replaced when the upload ends. A dump that stops
\* half-way ends the upload too.
UploadDump(w) ==
    /\ job[w].pc = "upload"
    /\ \/ /\ bucket' = [bucket EXCEPT !.db = job[w].dump]
          /\ job' = [job EXCEPT ![w].pc = "list", ![w].dump = None]
          /\ Works
       \/ /\ \/ bucket' = [bucket EXCEPT !.db = Broken]
             \/ UNCHANGED bucket
          /\ job' = [job EXCEPT ![w].pc = "list", ![w].dump = None, ![w].failed = TRUE]
          /\ Fails("dump")
    /\ UNCHANGED <<code, phase, db, runs, snapshots, vols, up, clock, updates, booted,
                   unwritten>>

\* InstalledIDs. A backup goes on without it, a restore does not.
ListModules(w) ==
    /\ job[w].pc = "list"
    /\ \/ /\ job' = [job EXCEPT ![w].pc = "volume", ![w].todo = db.rows, ![w].ids = db.rows]
          /\ Works
       \/ Failed(w, "finish") /\ Fails("db")
    /\ UNCHANGED <<code, phase, db, runs, snapshots, vols, up, bucket, clock, updates, booted,
                   unwritten>>

\* The modules are taken in the order of their ids.
Current(w) == CHOOSE m \in job[w].todo : TRUE

\* Mutant: a volume that could not be saved is not noted.
BackupVolume_Unnoted(w) ==
    /\ job[w].pc = "volume"
    /\ w \in Backups
    /\ job[w].todo # {}
    /\ LET m == Current(w) IN
        /\ job' = [job EXCEPT ![w].todo = @ \ {m}]
        /\ \/ /\ bucket' = [bucket EXCEPT !.vols[m] = [volume |-> vols[m], at |-> clock]]
              /\ Works
           \/ UNCHANGED bucket /\ Fails("volume")
    /\ UNCHANGED <<code, phase, db, runs, snapshots, vols, up, clock, updates, booted,
                   unwritten>>

BackupVolume(w) ==
    /\ job[w].pc = "volume"
    /\ w \in Backups
    /\ job[w].todo # {}
    /\ LET m == Current(w) IN
        \/ /\ bucket' = [bucket EXCEPT !.vols[m] = [volume |-> vols[m], at |-> clock]]
           /\ job' = [job EXCEPT ![w].todo = @ \ {m}]
           /\ Works
        \/ /\ \/ bucket' = [bucket EXCEPT !.vols[m] = Broken]
              \/ UNCHANGED bucket
           /\ job' = [job EXCEPT ![w].todo = @ \ {m}, ![w].failed = TRUE]
           /\ Fails("volume")
    /\ UNCHANGED <<code, phase, db, runs, snapshots, vols, up, clock, updates, booted,
                   unwritten>>

\* A restore keeps a way back, and does not proceed without one.
SnapshotBeforeRestore(w) ==
    /\ job[w].pc = "snapshot"
    /\ \/ Snapshot /\ Goto(w, "replace") /\ Works
       \/ UNCHANGED snapshots /\ Failed(w, "finish") /\ Fails("snapshot")
    /\ UNCHANGED <<code, phase, db, runs, vols, up, bucket, clock, updates, booted,
                   unwritten>>

\* pg_restore in a single transaction: everything in the dump, or nothing.
ReplaceDatabase(w) ==
    /\ job[w].pc = "replace"
    /\ \/ /\ bucket.db \notin {None, Broken}
          /\ db' = bucket.db.db
          /\ Goto(w, "list")
          /\ Works
       \/ /\ bucket.db \in {None, Broken}
          /\ Failed(w, "finish")
          /\ UNCHANGED <<db, faults>>
       \/ /\ Failed(w, "finish")
          /\ Fails("restore")
          /\ UNCHANGED db
    /\ UNCHANGED <<code, phase, runs, snapshots, vols, up, bucket, clock, updates, booted,
                   unwritten>>

\* A volume is unpacked over what is there, then its module is started; a
\* volume that could not be restored is noted, and its module started all the
\* same.
RestoreVolume(w) ==
    /\ job[w].pc = "volume"
    /\ w \in Restores
    /\ job[w].todo # {}
    /\ LET m == Current(w) archive == bucket.vols[m] IN
        \/ /\ archive \notin {None, Broken}
           /\ vols' = [vols EXCEPT ![m] = archive.volume]
           /\ Goto(w, "reinstall")
           /\ Works
        \/ /\ archive \in {None, Broken}
           /\ vols' = IF archive = None THEN vols ELSE [vols EXCEPT ![m] = "broken"]
           /\ Failed(w, "reinstall")
           /\ Works
        \/ /\ vols' = [vols EXCEPT ![m] = "broken"]
           /\ Failed(w, "reinstall")
           /\ Fails("volume")
    /\ UNCHANGED <<code, phase, db, runs, snapshots, up, bucket, clock, updates, booted,
                   unwritten>>

Reinstall(w) ==
    /\ job[w].pc = "reinstall"
    /\ LET m == Current(w) IN
        \/ /\ up' = up \union {m}
           /\ job' = [job EXCEPT ![w].pc = "volume", ![w].todo = @ \ {m}]
           /\ Works
        \/ /\ UNCHANGED up
           /\ job' = [job EXCEPT ![w].pc = "volume", ![w].todo = @ \ {m}, ![w].failed = TRUE]
           /\ Fails("install")
    /\ UNCHANGED <<code, phase, db, runs, snapshots, vols, bucket, clock, updates, booted,
                   unwritten>>

EndOfList(w) ==
    /\ job[w].pc = "volume"
    /\ job[w].todo = {}
    /\ Goto(w, "finish")
    /\ UNCHANGED <<code, phase, db, runs, snapshots, vols, up, bucket, clock, faults, updates,
                   booted, unwritten>>

\* The row says how it went; a row that cannot be written stays as it is, and
\* nothing writes it again before the next start.
finish(w) ==
    /\ job[w].pc = "finish"
    /\ \/ /\ runs' = [runs EXCEPT ![job[w].run] = IF job[w].failed THEN "error" ELSE "success"]
          /\ UNCHANGED unwritten
          /\ Works
       \/ /\ unwritten' = unwritten \union {job[w].run}
          /\ UNCHANGED runs
          /\ Fails("row")
    /\ job' = [job EXCEPT ![w] = Idle]
    /\ UNCHANGED <<code, phase, db, snapshots, vols, up, bucket, clock, updates, booted>>

----------------------------------------------------------------------------

Startup ==
    \/ Boot \/ CheckSchema \/ SnapshotBeforeUpgrade \/ ApplyMigration \/ RecordVersion
    \/ ClearInterrupted

Run(w) ==
    \/ startRun(w) \/ rcloneRemote(w) \/ DumpDatabase(w) \/ UploadDump(w) \/ ListModules(w)
    \/ BackupVolume(w) \/ SnapshotBeforeRestore(w) \/ ReplaceDatabase(w) \/ RestoreVolume(w)
    \/ Reinstall(w) \/ EndOfList(w) \/ finish(w)

Next ==
    \/ Startup \/ Crash \/ ChangeVersion
    \/ WriteData \/ LifecycleOperation \/ UpdateSnapshot
    \/ \E w \in Workers : Request(w) \/ Run(w)

\* Docker starts the platform again whenever it is down, and a run goes on.
Spec ==
    /\ Init /\ [][Next]_vars
    /\ WF_vars(Startup)
    /\ \A w \in Workers : WF_vars(Run(w))

----------------------------------------------------------------------------
(* Properties.                                                             *)

\* There is always a way back: when a restore replaces the database, a safety
\* snapshot no older than the restore is on disk, whatever other snapshots
\* were taken and pruned meanwhile; and when a migration changes the schema of
\* a database that was in use, one of the schema before, no older than this
\* start of the platform.
KeptWayBack ==
    /\ \A w \in Restores :
        job[w].pc = "replace" /\ job'[w].pc = "list" =>
            \E i \in DOMAIN snapshots : snapshots[i].at >= job[w].since
    /\ phase = "migrate" /\ db'.schema > db.schema /\ booted.schema > 0 =>
            \E i \in DOMAIN snapshots :
                snapshots[i].at >= booted.at /\ snapshots[i].schema = booted.schema

WayBack == [][KeptWayBack]_vars

\* A backup that ends as a success is a backup: the bucket then holds a dump
\* of the database and an archive of every module it listed that are no older
\* than the run, although every part is attempted after another one failed.
BackupHolds ==
    \A w \in Backups :
        job[w].pc = "finish" /\ ~job[w].failed =>
            /\ bucket.db \notin {None, Broken} /\ bucket.db.at >= job[w].since
            /\ \A m \in job[w].ids :
                bucket.vols[m] \notin {None, Broken} /\ bucket.vols[m].at >= job[w].since

\* The history never says "running" for ever: a run ends, or its process did
\* and the next one says so, unless that one refuses to start. What remains is
\* a row whose last UPDATE failed, as the end of the run or at the start after
\* it: it stays until the platform starts again.
RunsEnd ==
    \A r \in 1 .. MaxRuns : Running(r) ~> (~Running(r) \/ db.recorded > code \/ r \in unwritten)

\* Older code never runs against a schema it does not know.
NoDowngrades == phase = "serving" => db.schema <= code

=============================================================================
