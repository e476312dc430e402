---------------------------- MODULE ModuleUpdate ----------------------------
(***************************************************************************)
(* Updating one module from the registry: checking for updates, and        *)
(* applyBundle's safety copies, extraction, restart, health check and      *)
(* rollback, with the checks of the Module Store page and of the daily     *)
(* watch running at any moment, any call failing, and the platform         *)
(* restarting at any moment.                                               *)
(*                                                                         *)
(* The other lifecycle operations hold the same claim for their whole run  *)
(* (ModuleLifecycle shows it), so here each of them is one step. A module  *)
(* directory is kept as the versions its manifest and the rest of its      *)
(* files come from, 0 for what is missing.                                 *)
(***************************************************************************)
EXTENDS Integers

CONSTANTS
    MaxVersion,   \* versions the registry may publish: 1 .. MaxVersion
    Needed,       \* good readings in a row that WaitHealthy wants (4)
    MaxChecks,    \* health readings within updateHealthTimeout
    Checkers,     \* concurrent update checks
    Faults        \* the calls that may fail

ASSUME UpdateConstants ==
    /\ MaxVersion \in Nat \ {0}
    /\ Needed \in Nat \ {0}
    /\ MaxChecks \in Nat \ {0}

VARIABLES
    index,        \* the latest version in the registry
    quality,      \* what each version is like once started
    files,        \* the module's directory in the catalog
    kept,         \* the copy of the old files that this update would restore
    catalog,      \* the version the registry holds in memory, 0 for none
    status,       \* installed_modules.status, "none" without a row
    running,      \* the version its containers run, 0 for none
    upFor,        \* readings in a row the containers have been up for
    claimed,      \* beginOp's claim on the module
    entry, offer, \* updateEntries and the status in updates
    pc,           \* the update's next call
    want, old,    \* the version to apply, and the one it replaces
    live,         \* whether the module was installed when the update looked
    copied,       \* whether the database and the volumes were saved
    streak, checks, result,
    before,       \* history: the module's directory when the update began
    torn,         \* history: the rollback did not put back all of the copy
    cpc, cidx, cfound  \* each check: its next step, what it read, what it found

deployVars == <<files, catalog, running, upFor>>
taskVars   == <<pc, want, old, live, copied, streak, checks, result, before, torn>>
checkVars  == <<cpc, cidx, cfound>>
vars == <<index, quality, deployVars, kept, status, claimed, entry, offer, taskVars,
          checkVars>>

Versions == 1 .. MaxVersion
MaybeVersion == 0 .. MaxVersion
Files == [manifest : MaybeVersion, code : MaybeVersion]
NoFiles == [manifest |-> 0, code |-> 0]
FilesOf(v) == [manifest |-> v, code |-> v]

\* "good": comes up and stays up; "looping": crashes and restarts; "dead":
\* never comes up; "invalid": its manifest cannot be loaded.
Qualities == {"good", "looping", "dead", "invalid"}

PCs == {"idle", "claim", "download", "status", "copies", "keep", "extract", "reload", "up",
        "health", "undo", "reload2", "up2", "health2", "report"}
Results == {"none", "updated", "fetched", "refused", "not extracted", "not loaded",
            "rolled back", "broken"}

TypeOK ==
    /\ index \in Versions
    /\ quality \in [Versions -> Qualities]
    /\ files \in Files
    /\ kept \in Files
    /\ catalog \in MaybeVersion
    /\ status \in {"none", "running", "stopped", "error"}
    /\ running \in MaybeVersion
    /\ upFor \in 0 .. Needed
    /\ claimed \in BOOLEAN
    /\ entry \in MaybeVersion
    /\ offer \in {"none", "offered", "updating", "failed"}
    /\ pc \in PCs
    /\ want \in MaybeVersion
    /\ old \in MaybeVersion
    /\ live \in BOOLEAN
    /\ copied \in BOOLEAN
    /\ streak \in 0 .. Needed
    /\ checks \in 0 .. MaxChecks
    /\ result \in Results
    /\ before \in Files
    /\ torn \in BOOLEAN
    /\ cpc \in [Checkers -> {"idle", "compare", "swap"}]
    /\ cidx \in [Checkers -> MaybeVersion]
    /\ cfound \in [Checkers -> BOOLEAN]

\* A deployment with the module installed at its first version, or with a
\* catalog that does not have the module yet.
Init ==
    /\ index = 1
    /\ quality \in {q \in [Versions -> Qualities] : q[1] = "good"}
    /\ \/ /\ files = FilesOf(1)
          /\ catalog = 1
          /\ status = "running"
          /\ running = 1
       \/ /\ files = NoFiles
          /\ catalog = 0
          /\ status = "none"
          /\ running = 0
    /\ kept = NoFiles
    /\ upFor = 0
    /\ claimed = FALSE
    /\ entry = 0
    /\ offer = "none"
    /\ pc = "idle"
    /\ want = 0 /\ old = 0 /\ live = FALSE /\ copied = FALSE
    /\ streak = 0 /\ checks = 0
    /\ result = "none"
    /\ before = NoFiles
    /\ torn = FALSE
    /\ cpc = [c \in Checkers |-> "idle"]
    /\ cidx = [c \in Checkers |-> 0]
    /\ cfound = [c \in Checkers |-> FALSE]

Fails(call) == call \in Faults

----------------------------------------------------------------------------
(* The registry, and the checks for updates.                               *)

\* A new version is pushed to the repository.
Publish ==
    /\ index < MaxVersion
    /\ index' = index + 1
    /\ UNCHANGED <<quality, deployVars, kept, status, claimed, entry, offer, taskVars,
                   checkVars>>

FetchIndex(c) ==
    /\ cpc[c] = "idle"
    /\ cidx' = [cidx EXCEPT ![c] = index]
    /\ cpc' = [cpc EXCEPT ![c] = "compare"]
    /\ UNCHANGED <<index, quality, deployVars, kept, status, claimed, entry, offer,
                   taskVars, cfound>>

\* Up to date, or ahead: nothing found.
CompareWithCatalog(c) ==
    /\ cpc[c] = "compare"
    /\ cfound' = [cfound EXCEPT ![c] = catalog = 0 \/ catalog < cidx[c]]
    /\ cpc' = [cpc EXCEPT ![c] = "swap"]
    /\ UNCHANGED <<index, quality, deployVars, kept, status, claimed, entry, offer,
                   taskVars, cidx>>

\* Mutant: an entry found again starts without the status it had, except that
\* a found module is taken to be still updating.
SwapUpdates_Sticky(c) ==
    /\ cpc[c] = "swap"
    /\ entry' = cidx[c]
    /\ offer' = IF pc # "idle" THEN "updating" ELSE "offered"
    /\ cpc' = [cpc EXCEPT ![c] = "idle"]
    /\ cidx' = [cidx EXCEPT ![c] = 0]
    /\ cfound' = [cfound EXCEPT ![c] = FALSE]
    /\ UNCHANGED <<index, quality, deployVars, kept, status, claimed, taskVars>>

\* Under updatesMu: the new map takes over the status of entries it keeps.
SwapUpdates(c) ==
    /\ cpc[c] = "swap"
    /\ entry' = cidx[c]
    /\ offer' = IF ~cfound[c] THEN "none"
                ELSE IF offer = "none" THEN "offered" ELSE offer
    /\ cpc' = [cpc EXCEPT ![c] = "idle"]
    /\ cidx' = [cidx EXCEPT ![c] = 0]
    /\ cfound' = [cfound EXCEPT ![c] = FALSE]
    /\ UNCHANGED <<index, quality, deployVars, kept, status, claimed, taskVars>>

----------------------------------------------------------------------------
(* The update itself.                                                      *)

setUpdateState(s) == offer' = IF offer = "none" THEN offer ELSE s

Finish(r) ==
    /\ result' = r
    /\ pc' = "report"
    /\ UNCHANGED <<want, old, live, copied, streak, checks, before, torn>>

Goto(next) ==
    /\ pc' = next
    /\ UNCHANGED <<want, old, live, copied, streak, checks, result, before, torn>>

\* The update to apply is looked up before the module is claimed.
ApplyUpdate ==
    /\ pc = "idle"
    /\ entry # 0
    /\ want' = entry
    /\ pc' = "claim"
    /\ UNCHANGED <<index, quality, deployVars, kept, status, claimed, entry, offer, old,
                   live, copied, streak, checks, result, before, torn, checkVars>>

\* No lifecycle operation can be under way: here each of them is one step.
ClaimModule ==
    /\ pc = "claim"
    /\ claimed' = TRUE
    /\ setUpdateState("updating")
    /\ before' = files
    /\ pc' = "download"
    /\ UNCHANGED <<index, quality, deployVars, kept, status, entry, want, old, live,
                   copied, streak, checks, result, torn, checkVars>>

Download ==
    /\ pc = "download"
    /\ \/ Goto("status")
       \/ Fails("download") /\ Finish("refused")
    /\ UNCHANGED <<index, quality, deployVars, kept, status, claimed, entry, offer,
                   checkVars>>

GetInstalled ==
    /\ pc = "status"
    /\ \/ /\ old' = catalog
          /\ live' = (catalog # 0 /\ status # "none")
          /\ pc' = IF live' THEN "copies" ELSE "extract"
          /\ UNCHANGED <<want, copied, streak, checks, result, before, torn>>
       \/ Fails("db") /\ Finish("refused")
    /\ UNCHANGED <<index, quality, deployVars, kept, status, claimed, entry, offer,
                   checkVars>>

\* Mutant: a failed safety copy is only logged.
SafetyCopies_BestEffort ==
    /\ pc = "copies"
    /\ \E ok \in BOOLEAN : copied' = ok
    /\ pc' = "keep"
    /\ UNCHANGED <<want, old, live, streak, checks, result, before, torn>>
    /\ UNCHANGED <<index, quality, deployVars, kept, status, claimed, entry, offer,
                   checkVars>>

\* The database snapshot, and a tar of every volume that is backed up.
SafetyCopies ==
    /\ pc = "copies"
    /\ \/ /\ copied' = TRUE
          /\ pc' = "keep"
          /\ UNCHANGED <<want, old, live, streak, checks, result, before, torn>>
       \/ Fails("copy") /\ Finish("refused")
    /\ UNCHANGED <<index, quality, deployVars, kept, status, claimed, entry, offer,
                   checkVars>>

\* In place of the copy an earlier update filed under the same version; those
\* under other versions stay on disk, but nothing reads them again.
KeepFiles ==
    /\ pc = "keep"
    /\ \/ /\ kept' = files
          /\ Goto("extract")
       \/ /\ Fails("copy")
          /\ kept' = NoFiles
          /\ Finish("refused")
    /\ UNCHANGED <<index, quality, deployVars, status, claimed, entry, offer, checkVars>>

\* What restoreFiles can leave: it ignores that what is there was not removed
\* and that the copy was not copied, so of each part perhaps what was there,
\* the copy's, or nothing.
Restored(there, copy) ==
    {copy} \union
        (IF Fails("restore")
         THEN [manifest : {there.manifest, copy.manifest, 0}, code : {there.code, copy.code, 0}]
         ELSE {})

\* A failed extraction leaves a part of the new files; they are replaced by
\* the kept copy where there is one, and the catalog is not reloaded.
ExtractBundle ==
    /\ pc = "extract"
    /\ \/ /\ files' = FilesOf(want)
          /\ Goto("reload")
       \/ /\ Fails("extract")
          /\ \E part \in {files, [files EXCEPT !.manifest = want], [files EXCEPT !.code = want]} :
                files' \in IF live THEN Restored(part, kept) ELSE {part}
          /\ Finish("not extracted")
    /\ UNCHANGED <<index, quality, catalog, running, upFor, kept, status, claimed, entry,
                   offer, checkVars>>

Loads == IF files.manifest = 0 THEN TRUE ELSE quality[files.manifest] # "invalid"

\* registry.Reload: one manifest that cannot be loaded, this module's or
\* another's, and the whole catalog stays as it was.
ReloadCatalog ==
    /\ pc = "reload"
    /\ \/ /\ Loads
          /\ catalog' = files.manifest
          /\ IF live THEN Goto("up") ELSE Finish("fetched")
       \/ /\ ~Loads \/ Fails("reload")
          /\ UNCHANGED catalog
          /\ Finish("not loaded")
    /\ UNCHANGED <<index, quality, files, running, upFor, kept, status, claimed, entry,
                   offer, checkVars>>

\* doInstall, as far as an update sees it: it starts the containers from the
\* module's directory and records "running".
doInstall ==
    /\ files.code # 0
    /\ running' = files.code
    /\ upFor' = 0
    /\ status' = "running"

\* It failed somewhere: before or after the containers were started.
doInstallFails ==
    /\ Fails("up") \/ files.code = 0
    /\ \/ UNCHANGED <<running, upFor>>
       \/ files.code # 0 /\ running' = files.code /\ upFor' = 0
    /\ UNCHANGED status

StartNewVersion ==
    /\ pc = "up"
    /\ \/ /\ doInstall
          /\ Goto("health")
       \/ /\ doInstallFails
          /\ Goto("undo")
    /\ UNCHANGED <<index, quality, files, catalog, kept, claimed, entry, offer, checkVars>>

\* What the containers can look like at a reading: a version that crashes and
\* restarts is down at least once in any Needed readings.
Reading ==
    IF running = 0 THEN {FALSE}
    ELSE CASE quality[running] = "good" -> {TRUE, FALSE}
           [] quality[running] = "looping" -> {FALSE, upFor < Needed - 1}
           [] OTHER -> {FALSE}

\* Mutant: the streak survives a bad reading.
nextStreak_NoReset(up) == IF up THEN streak + 1 ELSE streak

nextStreak(up) == IF up THEN streak + 1 ELSE 0

\* Mutant: WaitHealthy waits for as long as it takes.
WaitHealthy_NoDeadline(here, healthy, unhealthy) ==
    /\ pc = here
    /\ \E up \in Reading :
        \/ /\ nextStreak(up) < Needed
           /\ streak' = nextStreak(up)
           /\ checks' = checks + 1
           /\ upFor' = IF up THEN upFor + 1 ELSE 0
           /\ UNCHANGED <<pc, result>>
        \/ /\ nextStreak(up) >= Needed
           /\ IF nextStreak(up) >= Needed THEN healthy ELSE unhealthy
           /\ streak' = 0 /\ checks' = 0 /\ upFor' = 0
    /\ UNCHANGED <<want, old, live, copied, before, torn>>
    /\ UNCHANGED <<index, quality, files, catalog, running, kept, status, claimed, entry,
                   offer, checkVars>>

\* One reading of WaitHealthy's loop; its counters are gone once it returns.
WaitHealthy(here, healthy, unhealthy) ==
    /\ pc = here
    /\ \E up \in Reading :
        \/ /\ nextStreak(up) < Needed
           /\ checks + 1 < MaxChecks
           /\ streak' = nextStreak(up)
           /\ checks' = checks + 1
           /\ upFor' = IF up THEN upFor + 1 ELSE 0
           /\ UNCHANGED <<pc, result>>
        \/ /\ nextStreak(up) >= Needed \/ checks + 1 = MaxChecks
           /\ IF nextStreak(up) >= Needed THEN healthy ELSE unhealthy
           /\ streak' = 0 /\ checks' = 0 /\ upFor' = 0
    /\ UNCHANGED <<want, old, live, copied, before, torn>>
    /\ UNCHANGED <<index, quality, files, catalog, running, kept, status, claimed, entry,
                   offer, checkVars>>

Ends(r) == pc' = "report" /\ result' = r

CheckNewVersion ==
    WaitHealthy("health", Ends("updated"), pc' = "undo" /\ UNCHANGED result)

\* Mutant: the rollback leaves the new files in place.
RestoreFiles_Forgotten ==
    /\ pc = "undo"
    /\ UNCHANGED files
    /\ Goto("reload2")
    /\ UNCHANGED <<index, quality, catalog, running, upFor, kept, status, claimed, entry,
                   offer, checkVars>>

RestoreFiles ==
    /\ pc = "undo"
    /\ files' \in Restored(files, kept)
    /\ torn' = (files' # kept)
    /\ pc' = "reload2"
    /\ UNCHANGED <<want, old, live, copied, streak, checks, result, before>>
    /\ UNCHANGED <<index, quality, catalog, running, upFor, kept, status, claimed, entry,
                   offer, checkVars>>

ReloadOldCatalog ==
    /\ pc = "reload2"
    /\ \/ /\ Loads
          /\ catalog' = files.manifest
          /\ IF catalog' # 0 THEN Goto("up2") ELSE Finish("broken")
       \/ /\ ~Loads \/ Fails("reload")
          /\ UNCHANGED catalog
          /\ Finish("broken")
    /\ UNCHANGED <<index, quality, files, running, upFor, kept, status, claimed, entry,
                   offer, checkVars>>

StartOldVersion ==
    /\ pc = "up2"
    /\ \/ /\ doInstall
          /\ Goto("health2")
       \/ /\ Fails("up") \/ files.code = 0
          /\ status' = "error"
          /\ \/ UNCHANGED <<running, upFor>>
             \/ files.code # 0 /\ running' = files.code /\ upFor' = 0
          /\ Finish("broken")
    /\ UNCHANGED <<index, quality, files, catalog, kept, claimed, entry, offer, checkVars>>

CheckOldVersion == WaitHealthy("health2", Ends("rolled back"), Ends("broken"))

\* The entry of a finished update goes, that of a failed one says so.
Report ==
    /\ pc = "report"
    /\ IF result \in {"updated", "fetched"} THEN offer' = "none" ELSE setUpdateState("failed")
    /\ claimed' = FALSE
    /\ pc' = "idle"
    /\ want' = 0 /\ old' = 0 /\ live' = FALSE /\ copied' = FALSE
    /\ streak' = 0 /\ checks' = 0 /\ result' = "none"
    /\ before' = NoFiles
    /\ torn' = FALSE
    /\ kept' = NoFiles
    /\ UNCHANGED <<index, quality, deployVars, status, entry, checkVars>>

----------------------------------------------------------------------------
(* The rest of the platform.                                               *)

\* Install, Enable, Disable and Uninstall, between updates.
LifecycleOperation ==
    /\ ~claimed
    /\ catalog # 0
    /\ \/ status # "running" /\ doInstall
       \/ status = "running" /\ status' = "stopped" /\ running' = 0 /\ upFor' = 0
       \/ status # "none" /\ status' = "none" /\ running' = 0 /\ upFor' = 0
    /\ UNCHANGED <<index, quality, files, catalog, kept, claimed, entry, offer, taskVars,
                   checkVars>>

\* The platform restarts, and reads the catalog again before it serves.
Restart ==
    /\ Fails("restart")
    /\ Loads
    /\ catalog' = files.manifest
    /\ claimed' = FALSE
    /\ entry' = 0
    /\ offer' = "none"
    /\ pc' = "idle"
    /\ want' = 0 /\ old' = 0 /\ live' = FALSE /\ copied' = FALSE
    /\ streak' = 0 /\ checks' = 0 /\ result' = "none"
    /\ before' = NoFiles
    /\ torn' = FALSE
    /\ cpc' = [c \in Checkers |-> "idle"]
    /\ cidx' = [c \in Checkers |-> 0]
    /\ cfound' = [c \in Checkers |-> FALSE]
    /\ kept' = NoFiles
    /\ UNCHANGED <<index, quality, files, status, running, upFor>>

----------------------------------------------------------------------------

UpdateStep ==
    \/ ClaimModule \/ Download \/ GetInstalled \/ SafetyCopies \/ KeepFiles
    \/ ExtractBundle \/ ReloadCatalog \/ StartNewVersion \/ CheckNewVersion
    \/ RestoreFiles \/ ReloadOldCatalog \/ StartOldVersion \/ CheckOldVersion \/ Report

Check == \E c \in Checkers : FetchIndex(c) \/ CompareWithCatalog(c) \/ SwapUpdates(c)

Next ==
    \/ Publish \/ Check \/ ApplyUpdate \/ UpdateStep
    \/ LifecycleOperation \/ Restart

\* The update runs on a context of its own: nothing but a restart stops it.
Spec == Init /\ [][Next]_vars /\ WF_vars(UpdateStep)

----------------------------------------------------------------------------
(* Properties.                                                             *)

\* What an update reports is so. "Updated": the new version is on disk, in the
\* catalog and in the containers, and it is one that stays up, however it
\* looked at single readings. "Rolled back": the catalog and the containers are
\* what is on disk, and it stays up; and that is what was there before, but for
\* a restoreFiles that did not put back all of the copy, which nothing reports.
\* Refused: nothing was touched.
OutcomeIsTrue ==
    /\ result = "updated" =>
         files = FilesOf(want) /\ catalog = want /\ running = want
           /\ quality[want] = "good"
    /\ result = "rolled back" =>
         /\ ~torn => files = before
         /\ catalog = files.manifest
         /\ running = files.code
         /\ quality[running] = "good"
    /\ result = "refused" => files = before

\* Nothing an installed module already holds is at risk: by the time its files
\* differ from what they were, the database and the volumes have been saved
\* and the old files are kept, and they stay kept until the update is over.
CopiesBeforeChanges ==
    pc # "idle" /\ live /\ files # before => copied /\ kept = before

\* An update never shows as in progress for ever: whatever fails, and whatever
\* checks run meanwhile, the entry stops saying "updating", and an update the
\* page shows as in progress is one that is.
UpdatingEnds ==
    /\ (offer = "updating" ~> offer # "updating")
    /\ [](offer = "updating" => pc \notin {"idle", "claim"})

\* "was rolled back to %s" says that the old version is back.
RolledBackIsBack == result = "rolled back" => files = before

\* "failed" on an update entry means that the old version is back: what is on
\* disk is what the platform runs the module from.
FailedMeansOldVersionIsBack ==
    offer = "failed" /\ pc = "idle" /\ status # "none" => files.manifest = catalog

=============================================================================
