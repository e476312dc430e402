------------------------ MODULE ModuleUpdate_proofs ------------------------
(***************************************************************************)
(* Proofs about ModuleUpdate, for any number of versions, of checks and of *)
(* readings, and any set of calls that may fail; and, in the second half,  *)
(* about PlatformData, whose safety snapshots every update takes too: its  *)
(* instance Data stands for any platform, with any number of versions,     *)
(* modules, runs and snapshots kept.                                       *)
(***************************************************************************)
EXTENDS ModuleUpdate, SequenceTheorems, TLAPS

----------------------------------------------------------------------------
(* The inductive invariant, one part per thing an update relies on.        *)

\* From its claim to its report, the update keeps the module to itself.
ClaimInv == pc \notin {"idle", "claim"} => claimed

\* Outside the waits nothing is counted; inside, the containers have been up
\* for exactly the streak that WaitHealthy has seen.
CountersInv ==
    /\ upFor < Needed /\ streak < Needed /\ checks < MaxChecks
    /\ IF pc \in {"health", "health2"} THEN upFor = streak ELSE streak = 0 /\ checks = 0

\* Only a report has a result to give.
ResultInv == pc # "report" => result = "none"

\* The calls that follow the decision that the module is installed.
LivePCs == {"copies", "keep", "up", "health", "undo", "reload2", "up2", "health2"}

\* The calls that follow KeepFiles.
KeptPCs == {"extract", "reload", "up", "health", "undo", "reload2", "up2", "health2"}

\* What has been saved at each call of an update of an installed module.
CopiesInv ==
    /\ pc \in {"idle", "claim", "download", "status"} => ~live
    /\ pc \in LivePCs => live
    /\ live => old # 0
    /\ pc = "keep" => copied
    /\ live /\ pc \in KeptPCs => copied /\ kept = before
    /\ pc \in {"download", "status", "copies", "keep", "extract"} => files = before
    /\ live /\ pc = "report" /\ files # before => copied /\ kept = before

\* How far the new version has got.
NewInv ==
    /\ pc \in {"reload", "up", "health"} => files = FilesOf(want)
    /\ pc \in {"up", "health"} => catalog = want
    /\ pc = "health" => running = want

\* How far the old version has come back: all of it, but for a restoreFiles that
\* was cut short, and what is on disk is what is loaded and then started.
OldInv ==
    /\ pc \in {"reload2", "up2", "health2"} => torn \/ files = before
    /\ pc \in {"up2", "health2"} => catalog = files.manifest
    /\ pc = "health2" => running = files.code

\* An update the page shows as in progress is one that has claimed the module.
ShownInv == offer = "updating" => pc \notin {"idle", "claim"}

UpdateInv ==
    /\ TypeOK /\ ClaimInv /\ CountersInv /\ ResultInv /\ CopiesInv /\ NewInv /\ OldInv
    /\ OutcomeIsTrue /\ ShownInv

----------------------------------------------------------------------------
(* The helpers.                                                            *)

\* What the parts of a module directory are.
LEMMA FilesFields ==
    /\ \A f \in Files : f.manifest \in MaybeVersion /\ f.code \in MaybeVersion
    /\ \A v \in MaybeVersion : FilesOf(v).manifest = v /\ FilesOf(v).code = v
    /\ NoFiles.code = 0
  BY DEF NoFiles, Files, FilesOf

\* A module directory with one part replaced or missing is still one.
LEMMA FilesType ==
    /\ NoFiles \in Files
    /\ \A v \in MaybeVersion : FilesOf(v) \in Files
    /\ \A f \in Files, v \in MaybeVersion :
          [f EXCEPT !.code = v] \in Files /\ [f EXCEPT !.manifest = v] \in Files
  BY UpdateConstants DEF NoFiles, Files, FilesOf, MaybeVersion

\* Whatever of the copy restoreFiles put back, it is a module directory.
LEMMA RestoredFiles ==
    ASSUME NEW there \in Files, NEW copy \in Files, NEW f \in Restored(there, copy)
    PROVE  f \in Files
  <1>1. f = copy \/ f \in [manifest : {there.manifest, copy.manifest, 0},
                           code : {there.code, copy.code, 0}]
    BY Zenon DEF Restored
  <1>2. 0 \in MaybeVersion
    BY UpdateConstants DEF MaybeVersion
  <1> QED
    BY <1>1, <1>2 DEF Files

\* A streak ends below Needed, or the containers run a version that stays up:
\* one that crashes and restarts cannot be up for Needed readings in a row.
LEMMA GoodStreak ==
    ASSUME TypeOK, CountersInv, pc \in {"health", "health2"}, NEW up \in Reading
    PROVE  /\ nextStreak(up) \in 0 .. Needed
           /\ nextStreak(up) = IF up THEN upFor + 1 ELSE 0
           /\ nextStreak(up) >= Needed => running # 0 /\ quality[running] = "good"
  <1>1. nextStreak(up) = IF up THEN upFor + 1 ELSE 0
    BY DEF nextStreak, CountersInv
  <1>2. nextStreak(up) \in 0 .. Needed
    BY <1>1, UpdateConstants DEF TypeOK, CountersInv
  <1>3. ASSUME nextStreak(up) >= Needed PROVE running # 0 /\ quality[running] = "good"
    <2>1. up /\ ~(upFor < Needed - 1)
      BY <1>1, <1>3, UpdateConstants DEF TypeOK
    <2>2. running # 0 /\ quality[running] \in {"good", "looping"}
      BY <2>1, Zenon DEF Reading
    <2>3. quality[running] = "looping" => upFor < Needed - 1
      BY <2>1, Zenon DEF Reading
    <2> QED
      BY <2>1, <2>2, <2>3
  <1> QED
    BY <1>1, <1>2, <1>3

\* The names of calls and of results that the actions use.
LEMMA Names ==
    /\ "idle" \in PCs /\ "claim" \in PCs /\ "download" \in PCs /\ "status" \in PCs
    /\ "copies" \in PCs /\ "keep" \in PCs /\ "extract" \in PCs /\ "reload" \in PCs
    /\ "up" \in PCs /\ "health" \in PCs /\ "undo" \in PCs /\ "reload2" \in PCs
    /\ "up2" \in PCs /\ "health2" \in PCs /\ "report" \in PCs
    /\ "none" \in Results /\ "updated" \in Results /\ "fetched" \in Results
    /\ "refused" \in Results /\ "not extracted" \in Results /\ "not loaded" \in Results
    /\ "rolled back" \in Results /\ "broken" \in Results
  BY DEF PCs, Results

----------------------------------------------------------------------------
(* The steps.                                                              *)

\* The type invariant in three parts: what is deployed, what the update keeps,
\* what the checks keep; what is TRUE or FALSE apart from the rest.
WorldType ==
    /\ index \in Versions /\ quality \in [Versions -> Qualities]
    /\ files \in Files /\ kept \in Files
    /\ catalog \in MaybeVersion /\ running \in MaybeVersion
    /\ status \in {"none", "running", "stopped", "error"}

TaskType ==
    /\ upFor \in 0 .. Needed /\ streak \in 0 .. Needed /\ checks \in 0 .. MaxChecks
    /\ want \in MaybeVersion /\ old \in MaybeVersion /\ before \in Files
    /\ pc \in PCs /\ result \in Results

CheckType ==
    /\ entry \in MaybeVersion /\ offer \in {"none", "offered", "updating", "failed"}
    /\ cpc \in [Checkers -> {"idle", "compare", "swap"}]
    /\ cidx \in [Checkers -> MaybeVersion]
    /\ cfound \in [Checkers -> BOOLEAN]

BoolType ==
    claimed \in BOOLEAN /\ live \in BOOLEAN /\ copied \in BOOLEAN /\ torn \in BOOLEAN

\* Together the parts are the type invariant.
LEMMA TypeParts == TypeOK <=> WorldType /\ TaskType /\ CheckType /\ BoolType
  BY Zenon DEF TypeOK, WorldType, TaskType, CheckType, BoolType

\* Every call leaves what is deployed in its type.
LEMMA WorldStep ==
    WorldType /\ TaskType /\ CopiesInv /\ [Next]_vars => WorldType'
  <1> SUFFICES ASSUME WorldType, TaskType, CopiesInv, [Next]_vars PROVE WorldType'
    OBVIOUS
  <1> USE DEF WorldType, TaskType, Versions, MaybeVersion, CopiesInv, LivePCs,
              deployVars, taskVars
  <1>1. CASE Publish
    BY <1>1, UpdateConstants DEF Publish
  <1>2. CASE ApplyUpdate
    BY <1>2 DEF ApplyUpdate
  <1>3. CASE ClaimModule
    BY <1>3 DEF ClaimModule, setUpdateState
  <1>4. CASE Download
    BY <1>4 DEF Download, Goto, Finish
  <1>5. CASE GetInstalled
    BY <1>5 DEF GetInstalled, Finish
  <1>6. CASE SafetyCopies
    BY <1>6 DEF SafetyCopies, Finish
  <1>7. CASE KeepFiles
    BY <1>7, FilesType DEF KeepFiles, Goto, Finish
  <1>8. CASE ExtractBundle
    <2>1. /\ UNCHANGED <<index, quality, kept, catalog, running, status>>
          /\ \/ files' = FilesOf(want)
             \/ \E part \in {files, [files EXCEPT !.manifest = want],
                             [files EXCEPT !.code = want]} :
                   files' = part \/ files' \in Restored(part, kept)
      BY <1>8, Zenon DEF ExtractBundle
    <2>2. {files, [files EXCEPT !.manifest = want], [files EXCEPT !.code = want]}
             \subseteq Files
      BY FilesType
    <2>3. files' \in Files
      BY <2>1, <2>2, FilesType, RestoredFiles
    <2> QED
      BY <2>1, <2>3
  <1>9. CASE ReloadCatalog
    BY <1>9, FilesFields DEF ReloadCatalog, Goto, Finish
  <1>10. CASE StartNewVersion
    BY <1>10, FilesFields DEF StartNewVersion, doInstall, doInstallFails, Goto
  <1>11. CASE CheckNewVersion
    BY <1>11 DEF CheckNewVersion, WaitHealthy, Ends
  <1>12. CASE RestoreFiles
    <2>1. /\ files' \in Restored(files, kept)
          /\ UNCHANGED <<index, quality, kept, catalog, running, status>>
      BY <1>12, Zenon DEF RestoreFiles
    <2>2. files' \in Files
      BY <2>1, RestoredFiles
    <2> QED
      BY <2>1, <2>2
  <1>13. CASE ReloadOldCatalog
    BY <1>13, FilesFields DEF ReloadOldCatalog, Goto, Finish
  <1>14. CASE StartOldVersion
    BY <1>14, FilesFields DEF StartOldVersion, doInstall, Goto, Finish
  <1>15. CASE CheckOldVersion
    BY <1>15 DEF CheckOldVersion, WaitHealthy, Ends
  <1>16. CASE Report
    BY <1>16, FilesType DEF Report, setUpdateState
  <1>17. CASE LifecycleOperation
    BY <1>17, FilesFields, UpdateConstants DEF LifecycleOperation, doInstall
  <1>18. CASE Restart
    BY <1>18, FilesFields, FilesType DEF Restart
  <1>19. CASE Check
    BY <1>19 DEF Check, FetchIndex, CompareWithCatalog, SwapUpdates
  <1>20. CASE UNCHANGED vars
    BY <1>20 DEF vars
  <1> QED
    BY <1>1, <1>2, <1>3, <1>4, <1>5, <1>6, <1>7, <1>8, <1>9, <1>10, <1>11, <1>12,
       <1>13, <1>14, <1>15, <1>16, <1>17, <1>18, <1>19, <1>20 DEF Next, UpdateStep

\* Every call leaves the update's own variables in their type.
LEMMA TaskStep ==
    TypeOK /\ CountersInv /\ [Next]_vars => TaskType'
  <1> SUFFICES ASSUME TypeOK, CountersInv, [Next]_vars PROVE TaskType'
    OBVIOUS
  <1>0. TaskType /\ files \in Files /\ entry \in MaybeVersion /\ catalog \in MaybeVersion
    BY TypeParts DEF WorldType, CheckType
  <1> USE DEF TaskType, MaybeVersion, deployVars, taskVars
  <1>1. CASE Publish
    BY <1>0, <1>1 DEF Publish
  <1>2. CASE ApplyUpdate
    BY <1>0, <1>2, Names DEF ApplyUpdate
  <1>3. CASE ClaimModule
    BY <1>0, <1>3, Names DEF ClaimModule, setUpdateState
  <1>4. CASE Download
    BY <1>0, <1>4, Names DEF Download, Goto, Finish
  <1>5. CASE GetInstalled
    BY <1>0, <1>5, Names DEF GetInstalled, Finish
  <1>6. CASE SafetyCopies
    BY <1>0, <1>6, Names DEF SafetyCopies, Finish
  <1>7. CASE KeepFiles
    BY <1>0, <1>7, Names DEF KeepFiles, Goto, Finish
  <1>8. CASE ExtractBundle
    BY <1>0, <1>8, Names DEF ExtractBundle, Goto, Finish
  <1>9. CASE ReloadCatalog
    BY <1>0, <1>9, Names DEF ReloadCatalog, Goto, Finish
  <1>10. CASE StartNewVersion
    <2>1. /\ UNCHANGED <<want, old, streak, checks, before>>
          /\ pc' \in {"health", "undo"} /\ (result' = result \/ result' = "broken")
          /\ (upFor' = upFor \/ upFor' = 0)
      BY <1>10, Zenon DEF StartNewVersion, doInstall, doInstallFails, Goto, Finish
    <2>2. pc' \in PCs /\ result' \in Results
      BY <1>0, <2>1, Names
    <2>3. upFor' \in 0 .. Needed
      BY <1>0, <2>1, UpdateConstants
    <2> QED
      BY <1>0, <2>1, <2>2, <2>3
  <1>11. CASE CheckNewVersion
    <2>1. /\ pc = "health" /\ UNCHANGED <<want, old, before>>
          /\ pc' \in {"health", "report", "undo"} /\ result' \in {result, "updated"}
      BY <1>11, Zenon DEF CheckNewVersion, WaitHealthy, Ends
    <2>2. \/ \E up \in Reading :
               /\ nextStreak(up) < Needed /\ checks + 1 < MaxChecks
               /\ streak' = nextStreak(up) /\ checks' = checks + 1
               /\ upFor' = IF up THEN upFor + 1 ELSE 0
          \/ streak' = 0 /\ checks' = 0 /\ upFor' = 0
      BY <1>11, Zenon DEF CheckNewVersion, WaitHealthy
    <2>3. upFor' \in 0 .. Needed /\ streak' \in 0 .. Needed /\ checks' \in 0 .. MaxChecks
      <3>1. \A up \in Reading : nextStreak(up) \in 0 .. Needed
                                /\ nextStreak(up) = IF up THEN upFor + 1 ELSE 0
        BY <2>1, GoodStreak
      <3> QED
        BY <1>0, <2>2, <3>1, UpdateConstants
    <2> QED
      BY <1>0, <2>1, <2>3, Names
  <1>12. CASE RestoreFiles
    BY <1>0, <1>12, Names DEF RestoreFiles, Goto
  <1>13. CASE ReloadOldCatalog
    BY <1>0, <1>13, Names DEF ReloadOldCatalog, Goto, Finish
  <1>14. CASE StartOldVersion
    <2>1. /\ UNCHANGED <<want, old, streak, checks, before>>
          /\ pc' \in {"health2", "report"} /\ (result' = result \/ result' = "broken")
          /\ (upFor' = upFor \/ upFor' = 0)
      BY <1>14, Zenon DEF StartOldVersion, doInstall, doInstallFails, Goto, Finish
    <2>2. pc' \in PCs /\ result' \in Results
      BY <1>0, <2>1, Names
    <2>3. upFor' \in 0 .. Needed
      BY <1>0, <2>1, UpdateConstants
    <2> QED
      BY <1>0, <2>1, <2>2, <2>3
  <1>15. CASE CheckOldVersion
    <2>1. /\ pc = "health2" /\ UNCHANGED <<want, old, before>>
          /\ pc' \in {"health2", "report"} /\ result' \in {result, "rolled back", "broken"}
      BY <1>15, Zenon DEF CheckOldVersion, WaitHealthy, Ends
    <2>2. \/ \E up \in Reading :
               /\ nextStreak(up) < Needed /\ checks + 1 < MaxChecks
               /\ streak' = nextStreak(up) /\ checks' = checks + 1
               /\ upFor' = IF up THEN upFor + 1 ELSE 0
          \/ streak' = 0 /\ checks' = 0 /\ upFor' = 0
      BY <1>15, Zenon DEF CheckOldVersion, WaitHealthy
    <2>3. upFor' \in 0 .. Needed /\ streak' \in 0 .. Needed /\ checks' \in 0 .. MaxChecks
      <3>1. \A up \in Reading : nextStreak(up) \in 0 .. Needed
                                /\ nextStreak(up) = IF up THEN upFor + 1 ELSE 0
        BY <2>1, GoodStreak
      <3> QED
        BY <1>0, <2>2, <3>1, UpdateConstants
    <2> QED
      BY <1>0, <2>1, <2>3, Names
  <1>16. CASE Report
    <2>1. /\ pc' = "idle" /\ result' = "none" /\ before' = NoFiles /\ want' = 0 /\ old' = 0
          /\ streak' = 0 /\ checks' = 0 /\ UNCHANGED upFor
      BY <1>16, Zenon DEF Report, deployVars
    <2>2. pc' \in PCs /\ result' \in Results /\ before' \in Files
      BY <2>1, Names, FilesType, Zenon
    <2>3. want' \in MaybeVersion /\ old' \in MaybeVersion
      BY <2>1, UpdateConstants
    <2>4. upFor' \in 0 .. Needed /\ streak' \in 0 .. Needed /\ checks' \in 0 .. MaxChecks
      BY <1>0, <2>1, UpdateConstants
    <2> QED
      BY <2>2, <2>3, <2>4
  <1>17. CASE LifecycleOperation
    BY <1>0, <1>17, UpdateConstants DEF LifecycleOperation, doInstall
  <1>18. CASE Restart
    <2>1. /\ pc' = "idle" /\ result' = "none" /\ before' = NoFiles /\ want' = 0 /\ old' = 0
          /\ streak' = 0 /\ checks' = 0 /\ UNCHANGED upFor
      BY <1>18, Zenon DEF Restart, deployVars
    <2>2. pc' \in PCs /\ result' \in Results /\ before' \in Files
      BY <2>1, Names, FilesType, Zenon
    <2>3. want' \in MaybeVersion /\ old' \in MaybeVersion
      BY <2>1, UpdateConstants
    <2>4. upFor' \in 0 .. Needed /\ streak' \in 0 .. Needed /\ checks' \in 0 .. MaxChecks
      BY <1>0, <2>1, UpdateConstants
    <2> QED
      BY <2>2, <2>3, <2>4
  <1>19. CASE Check
    BY <1>0, <1>19 DEF Check, FetchIndex, CompareWithCatalog, SwapUpdates
  <1>20. CASE UNCHANGED vars
    BY <1>0, <1>20 DEF vars
  <1> QED
    BY <1>1, <1>2, <1>3, <1>4, <1>5, <1>6, <1>7, <1>8, <1>9, <1>10, <1>11, <1>12,
       <1>13, <1>14, <1>15, <1>16, <1>17, <1>18, <1>19, <1>20 DEF Next, UpdateStep

\* Every call leaves the checks' variables in their type.
LEMMA CheckStep ==
    WorldType /\ CheckType /\ [Next]_vars => CheckType'
  <1> SUFFICES ASSUME WorldType, CheckType, [Next]_vars PROVE CheckType'
    OBVIOUS
  <1> USE DEF WorldType, CheckType, Versions, MaybeVersion, checkVars
  <1>1. CASE Publish
    BY <1>1 DEF Publish
  <1>2. CASE ApplyUpdate
    BY <1>2 DEF ApplyUpdate
  <1>3. CASE ClaimModule
    BY <1>3 DEF ClaimModule, setUpdateState
  <1>4. CASE Download
    BY <1>4 DEF Download, Goto, Finish
  <1>5. CASE GetInstalled
    BY <1>5 DEF GetInstalled, Finish
  <1>6. CASE SafetyCopies
    BY <1>6 DEF SafetyCopies, Finish
  <1>7. CASE KeepFiles
    BY <1>7 DEF KeepFiles, Goto, Finish
  <1>8. CASE ExtractBundle
    BY <1>8 DEF ExtractBundle, Goto, Finish
  <1>9. CASE ReloadCatalog
    BY <1>9 DEF ReloadCatalog, Goto, Finish
  <1>10. CASE StartNewVersion
    BY <1>10 DEF StartNewVersion, doInstall, doInstallFails, Goto
  <1>11. CASE CheckNewVersion
    BY <1>11 DEF CheckNewVersion, WaitHealthy, Ends
  <1>12. CASE RestoreFiles
    BY <1>12 DEF RestoreFiles, Goto
  <1>13. CASE ReloadOldCatalog
    BY <1>13 DEF ReloadOldCatalog, Goto, Finish
  <1>14. CASE StartOldVersion
    BY <1>14 DEF StartOldVersion, doInstall, Goto, Finish
  <1>15. CASE CheckOldVersion
    BY <1>15 DEF CheckOldVersion, WaitHealthy, Ends
  <1>16. CASE Report
    BY <1>16 DEF Report, setUpdateState
  <1>17. CASE LifecycleOperation
    BY <1>17 DEF LifecycleOperation, doInstall
  <1>18. CASE Restart
    BY <1>18, UpdateConstants DEF Restart
  <1>19. CASE Check
    <2>1. ASSUME NEW c \in Checkers, FetchIndex(c) PROVE CheckType'
      BY <2>1 DEF FetchIndex
    <2>2. ASSUME NEW c \in Checkers, CompareWithCatalog(c) PROVE CheckType'
      BY <2>2 DEF CompareWithCatalog
    <2>3. ASSUME NEW c \in Checkers, SwapUpdates(c) PROVE CheckType'
      <3>1. offer' \in {"none", "offered", "updating", "failed"}
        BY <2>3, Zenon DEF SwapUpdates
      <3>2. entry' \in MaybeVersion /\ cfound' \in [Checkers -> BOOLEAN]
        BY <2>3 DEF SwapUpdates
      <3>3. /\ cpc' \in [Checkers -> {"idle", "compare", "swap"}]
            /\ cidx' \in [Checkers -> MaybeVersion]
        BY <2>3, UpdateConstants DEF SwapUpdates
      <3> QED
        BY <3>1, <3>2, <3>3
    <2> QED
      BY <1>19, <2>1, <2>2, <2>3 DEF Check
  <1>20. CASE UNCHANGED vars
    BY <1>20 DEF vars
  <1> QED
    BY <1>1, <1>2, <1>3, <1>4, <1>5, <1>6, <1>7, <1>8, <1>9, <1>10, <1>11, <1>12,
       <1>13, <1>14, <1>15, <1>16, <1>17, <1>18, <1>19, <1>20 DEF Next, UpdateStep

\* Every call leaves what is TRUE or FALSE so.
LEMMA BoolStep == BoolType /\ [Next]_vars => BoolType'
  <1> SUFFICES ASSUME BoolType, [Next]_vars PROVE BoolType'
    OBVIOUS
  <1> USE DEF BoolType, taskVars
  <1>1. CASE UpdateStep
    BY <1>1, Zenon DEF UpdateStep, ClaimModule, Download, GetInstalled, SafetyCopies,
       KeepFiles, ExtractBundle,
       ReloadCatalog, StartNewVersion, CheckNewVersion, RestoreFiles, ReloadOldCatalog,
       StartOldVersion, CheckOldVersion, Report, Goto, Finish, WaitHealthy
  <1>2. CASE Publish \/ ApplyUpdate \/ LifecycleOperation \/ Restart
    BY <1>2, Zenon DEF Publish, ApplyUpdate, LifecycleOperation, Restart
  <1>3. CASE Check
    BY <1>3, Zenon DEF Check, FetchIndex, CompareWithCatalog, SwapUpdates
  <1>4. CASE UNCHANGED vars
    BY <1>4, Zenon DEF vars
  <1> QED
    BY <1>1, <1>2, <1>3, <1>4, Zenon DEF Next

\* Every call keeps every variable in its type.
LEMMA TypeStep == TypeOK /\ CountersInv /\ CopiesInv /\ [Next]_vars => TypeOK'
  <1>1. TypeOK' <=> WorldType' /\ TaskType' /\ CheckType' /\ BoolType'
    BY Zenon DEF TypeOK, WorldType, TaskType, CheckType, BoolType
  <1> QED
    BY <1>1, TypeParts, WorldStep, TaskStep, CheckStep, BoolStep

\* The claim is taken before the update's first call and given back after its last.
LEMMA ClaimStep ==
    ClaimInv /\ [Next]_vars => ClaimInv'
  <1> SUFFICES ASSUME ClaimInv, [Next]_vars PROVE ClaimInv'
    OBVIOUS
  <1> USE DEF ClaimInv, deployVars, taskVars, checkVars
  <1>1. CASE Publish
    BY <1>1 DEF Publish
  <1>2. CASE ApplyUpdate
    BY <1>2 DEF ApplyUpdate
  <1>3. CASE ClaimModule
    BY <1>3 DEF ClaimModule, setUpdateState
  <1>4. CASE Download
    BY <1>4 DEF Download, Goto, Finish
  <1>5. CASE GetInstalled
    BY <1>5 DEF GetInstalled, Finish
  <1>6. CASE SafetyCopies
    BY <1>6 DEF SafetyCopies, Finish
  <1>7. CASE KeepFiles
    BY <1>7 DEF KeepFiles, Goto, Finish
  <1>8. CASE ExtractBundle
    BY <1>8 DEF ExtractBundle, Goto, Finish
  <1>9. CASE ReloadCatalog
    BY <1>9 DEF ReloadCatalog, Goto, Finish
  <1>10. CASE StartNewVersion
    BY <1>10 DEF StartNewVersion, doInstall, doInstallFails, Goto
  <1>11. CASE CheckNewVersion
    BY <1>11 DEF CheckNewVersion, WaitHealthy, Ends
  <1>12. CASE RestoreFiles
    BY <1>12 DEF RestoreFiles, Goto
  <1>13. CASE ReloadOldCatalog
    BY <1>13 DEF ReloadOldCatalog, Goto, Finish
  <1>14. CASE StartOldVersion
    BY <1>14 DEF StartOldVersion, doInstall, Goto, Finish
  <1>15. CASE CheckOldVersion
    BY <1>15 DEF CheckOldVersion, WaitHealthy, Ends
  <1>16. CASE Report
    BY <1>16 DEF Report, setUpdateState
  <1>17. CASE LifecycleOperation
    BY <1>17 DEF LifecycleOperation, doInstall
  <1>18. CASE Restart
    BY <1>18 DEF Restart
  <1>19. CASE Check
    BY <1>19 DEF Check, FetchIndex, CompareWithCatalog, SwapUpdates
  <1>20. CASE UNCHANGED vars
    BY <1>20 DEF vars
  <1> QED
    BY <1>1, <1>2, <1>3, <1>4, <1>5, <1>6, <1>7, <1>8, <1>9, <1>10, <1>11, <1>12,
       <1>13, <1>14, <1>15, <1>16, <1>17, <1>18, <1>19, <1>20 DEF Next, UpdateStep

\* A wait begins with nothing counted and counts both alike.
LEMMA CountersStep ==
    TypeOK /\ ClaimInv /\ CountersInv /\ [Next]_vars => CountersInv'
  <1> SUFFICES ASSUME TypeOK, ClaimInv, CountersInv, [Next]_vars PROVE CountersInv'
    OBVIOUS
  <1> USE DEF TypeOK, ClaimInv, CountersInv, deployVars, taskVars, checkVars
  <1>1. CASE Publish
    BY <1>1 DEF Publish
  <1>2. CASE ApplyUpdate
    BY <1>2 DEF ApplyUpdate
  <1>3. CASE ClaimModule
    BY <1>3 DEF ClaimModule, setUpdateState
  <1>4. CASE Download
    BY <1>4 DEF Download, Goto, Finish
  <1>5. CASE GetInstalled
    BY <1>5 DEF GetInstalled, Finish
  <1>6. CASE SafetyCopies
    BY <1>6 DEF SafetyCopies, Finish
  <1>7. CASE KeepFiles
    BY <1>7 DEF KeepFiles, Goto, Finish
  <1>8. CASE ExtractBundle
    BY <1>8 DEF ExtractBundle, Goto, Finish
  <1>9. CASE ReloadCatalog
    BY <1>9 DEF ReloadCatalog, Goto, Finish
  <1>10. CASE StartNewVersion
    BY <1>10, UpdateConstants DEF StartNewVersion, doInstall, doInstallFails, Goto
  <1>11. CASE CheckNewVersion
    <2>1. /\ pc = "health" /\ UNCHANGED claimed
          /\ \E up \in Reading :
               \/ /\ nextStreak(up) < Needed /\ checks + 1 < MaxChecks
                  /\ streak' = nextStreak(up) /\ checks' = checks + 1
                  /\ upFor' = (IF up THEN upFor + 1 ELSE 0) /\ pc' = pc
               \/ streak' = 0 /\ checks' = 0 /\ upFor' = 0
      BY <1>11, Zenon DEF CheckNewVersion, WaitHealthy
    <2> QED
      BY <2>1, GoodStreak, UpdateConstants
  <1>12. CASE RestoreFiles
    BY <1>12 DEF RestoreFiles, Goto
  <1>13. CASE ReloadOldCatalog
    BY <1>13 DEF ReloadOldCatalog, Goto, Finish
  <1>14. CASE StartOldVersion
    BY <1>14, UpdateConstants DEF StartOldVersion, doInstall, Goto, Finish
  <1>15. CASE CheckOldVersion
    <2>1. /\ pc = "health2" /\ UNCHANGED claimed
          /\ \E up \in Reading :
               \/ /\ nextStreak(up) < Needed /\ checks + 1 < MaxChecks
                  /\ streak' = nextStreak(up) /\ checks' = checks + 1
                  /\ upFor' = (IF up THEN upFor + 1 ELSE 0) /\ pc' = pc
               \/ streak' = 0 /\ checks' = 0 /\ upFor' = 0
      BY <1>15, Zenon DEF CheckOldVersion, WaitHealthy
    <2> QED
      BY <2>1, GoodStreak, UpdateConstants
  <1>16. CASE Report
    BY <1>16, UpdateConstants DEF Report, setUpdateState
  <1>17. CASE LifecycleOperation
    BY <1>17, UpdateConstants DEF LifecycleOperation, doInstall
  <1>18. CASE Restart
    BY <1>18, UpdateConstants DEF Restart
  <1>19. CASE Check
    BY <1>19 DEF Check, FetchIndex, CompareWithCatalog, SwapUpdates
  <1>20. CASE UNCHANGED vars
    BY <1>20 DEF vars
  <1> QED
    BY <1>1, <1>2, <1>3, <1>4, <1>5, <1>6, <1>7, <1>8, <1>9, <1>10, <1>11, <1>12,
       <1>13, <1>14, <1>15, <1>16, <1>17, <1>18, <1>19, <1>20 DEF Next, UpdateStep

\* A result is set on the way to the report and cleared by it.
LEMMA ResultStep ==
    ResultInv /\ [Next]_vars => ResultInv'
  <1> SUFFICES ASSUME ResultInv, [Next]_vars PROVE ResultInv'
    OBVIOUS
  <1> USE DEF ResultInv, deployVars, taskVars, checkVars
  <1>1. CASE Publish
    BY <1>1 DEF Publish
  <1>2. CASE ApplyUpdate
    BY <1>2 DEF ApplyUpdate
  <1>3. CASE ClaimModule
    BY <1>3 DEF ClaimModule, setUpdateState
  <1>4. CASE Download
    BY <1>4 DEF Download, Goto, Finish
  <1>5. CASE GetInstalled
    BY <1>5 DEF GetInstalled, Finish
  <1>6. CASE SafetyCopies
    BY <1>6 DEF SafetyCopies, Finish
  <1>7. CASE KeepFiles
    BY <1>7 DEF KeepFiles, Goto, Finish
  <1>8. CASE ExtractBundle
    BY <1>8 DEF ExtractBundle, Goto, Finish
  <1>9. CASE ReloadCatalog
    BY <1>9 DEF ReloadCatalog, Goto, Finish
  <1>10. CASE StartNewVersion
    BY <1>10 DEF StartNewVersion, doInstall, doInstallFails, Goto
  <1>11. CASE CheckNewVersion
    BY <1>11 DEF CheckNewVersion, WaitHealthy, Ends
  <1>12. CASE RestoreFiles
    BY <1>12 DEF RestoreFiles, Goto
  <1>13. CASE ReloadOldCatalog
    BY <1>13 DEF ReloadOldCatalog, Goto, Finish
  <1>14. CASE StartOldVersion
    BY <1>14 DEF StartOldVersion, doInstall, Goto, Finish
  <1>15. CASE CheckOldVersion
    BY <1>15 DEF CheckOldVersion, WaitHealthy, Ends
  <1>16. CASE Report
    BY <1>16 DEF Report, setUpdateState
  <1>17. CASE LifecycleOperation
    BY <1>17 DEF LifecycleOperation, doInstall
  <1>18. CASE Restart
    BY <1>18 DEF Restart
  <1>19. CASE Check
    BY <1>19 DEF Check, FetchIndex, CompareWithCatalog, SwapUpdates
  <1>20. CASE UNCHANGED vars
    BY <1>20 DEF vars
  <1> QED
    BY <1>1, <1>2, <1>3, <1>4, <1>5, <1>6, <1>7, <1>8, <1>9, <1>10, <1>11, <1>12,
       <1>13, <1>14, <1>15, <1>16, <1>17, <1>18, <1>19, <1>20 DEF Next, UpdateStep

\* Every call that may change an installed module follows its copies.
LEMMA CopiesStep ==
    TypeOK /\ ClaimInv /\ CopiesInv /\ [Next]_vars => CopiesInv'
  <1> SUFFICES ASSUME TypeOK, ClaimInv, CopiesInv, [Next]_vars PROVE CopiesInv'
    OBVIOUS
  <1> USE DEF TypeOK, ClaimInv, CopiesInv, LivePCs, KeptPCs, deployVars, taskVars,
              checkVars
  <1>1. CASE Publish
    BY <1>1 DEF Publish
  <1>2. CASE ApplyUpdate
    BY <1>2 DEF ApplyUpdate
  <1>3. CASE ClaimModule
    BY <1>3 DEF ClaimModule, setUpdateState
  <1>4. CASE Download
    BY <1>4 DEF Download, Goto, Finish
  <1>5. CASE GetInstalled
    BY <1>5 DEF GetInstalled, Finish
  <1>6. CASE SafetyCopies
    BY <1>6 DEF SafetyCopies, Finish
  <1>7. CASE KeepFiles
    <2>1. /\ pc = "keep" /\ UNCHANGED <<live, old, copied, before, files>>
          /\ \/ kept' = files /\ pc' = "extract"
             \/ pc' = "report"
      BY <1>7, Zenon DEF KeepFiles, Goto, Finish
    <2>2. live /\ copied /\ files = before
      BY <2>1
    <2>3. pc' = "extract" => kept' = before
      BY <2>1, <2>2
    <2> QED
      BY <2>1, <2>2, <2>3
  <1>8. CASE ExtractBundle
    <2>1. /\ pc = "extract" /\ pc' \in {"reload", "report"}
          /\ UNCHANGED <<live, old, kept, copied, before>>
      BY <1>8, Zenon DEF ExtractBundle, Goto, Finish
    <2> QED
      BY <2>1
  <1>9. CASE ReloadCatalog
    <2>1. /\ pc = "reload" /\ pc' \in {"up", "report"} /\ (pc' = "up" => live)
          /\ UNCHANGED <<live, old, kept, copied, before, files>>
      BY <1>9, Zenon DEF ReloadCatalog, Goto, Finish
    <2> QED
      BY <2>1
  <1>10. CASE StartNewVersion
    BY <1>10 DEF StartNewVersion, doInstall, doInstallFails, Goto
  <1>11. CASE CheckNewVersion
    BY <1>11 DEF CheckNewVersion, WaitHealthy, Ends
  <1>12. CASE RestoreFiles
    BY <1>12 DEF RestoreFiles, Goto
  <1>13. CASE ReloadOldCatalog
    BY <1>13 DEF ReloadOldCatalog, Goto, Finish
  <1>14. CASE StartOldVersion
    BY <1>14 DEF StartOldVersion, doInstall, Goto, Finish
  <1>15. CASE CheckOldVersion
    BY <1>15 DEF CheckOldVersion, WaitHealthy, Ends
  <1>16. CASE Report
    BY <1>16 DEF Report, setUpdateState
  <1>17. CASE LifecycleOperation
    BY <1>17 DEF LifecycleOperation, doInstall
  <1>18. CASE Restart
    BY <1>18 DEF Restart
  <1>19. CASE Check
    BY <1>19 DEF Check, FetchIndex, CompareWithCatalog, SwapUpdates
  <1>20. CASE UNCHANGED vars
    BY <1>20 DEF vars
  <1> QED
    BY <1>1, <1>2, <1>3, <1>4, <1>5, <1>6, <1>7, <1>8, <1>9, <1>10, <1>11, <1>12,
       <1>13, <1>14, <1>15, <1>16, <1>17, <1>18, <1>19, <1>20 DEF Next, UpdateStep

\* The new version is extracted, loaded and started in this order.
LEMMA NewStep ==
    TypeOK /\ ClaimInv /\ CopiesInv /\ NewInv /\ [Next]_vars => NewInv'
  <1> SUFFICES ASSUME TypeOK, ClaimInv, CopiesInv, NewInv, [Next]_vars PROVE NewInv'
    OBVIOUS
  <1> USE DEF TypeOK, ClaimInv, CopiesInv, NewInv, LivePCs, deployVars, taskVars,
              checkVars
  <1>1. CASE Publish
    BY <1>1 DEF Publish
  <1>2. CASE ApplyUpdate
    BY <1>2 DEF ApplyUpdate
  <1>3. CASE ClaimModule
    BY <1>3 DEF ClaimModule, setUpdateState
  <1>4. CASE Download
    BY <1>4 DEF Download, Goto, Finish
  <1>5. CASE GetInstalled
    BY <1>5 DEF GetInstalled, Finish
  <1>6. CASE SafetyCopies
    BY <1>6 DEF SafetyCopies, Finish
  <1>7. CASE KeepFiles
    BY <1>7 DEF KeepFiles, Goto, Finish
  <1>8. CASE ExtractBundle
    BY <1>8 DEF ExtractBundle, Goto, Finish
  <1>9. CASE ReloadCatalog
    <2>1. /\ pc = "reload" /\ UNCHANGED <<files, want>>
          /\ \/ catalog' = files.manifest /\ pc' \in {"up", "report"}
             \/ pc' = "report"
      BY <1>9, Zenon DEF ReloadCatalog, Goto, Finish
    <2>2. files = FilesOf(want) /\ files.manifest = want
      BY <2>1, FilesFields
    <2> QED
      BY <2>1, <2>2
  <1>10. CASE StartNewVersion
    <2>1. /\ pc = "up" /\ UNCHANGED <<files, want, catalog>>
          /\ \/ running' = files.code /\ pc' = "health"
             \/ pc' = "undo"
      BY <1>10, Zenon DEF StartNewVersion, doInstall, doInstallFails, Goto
    <2>2. files = FilesOf(want) /\ files.code = want
      BY <2>1, FilesFields
    <2> QED
      BY <2>1, <2>2
  <1>11. CASE CheckNewVersion
    BY <1>11 DEF CheckNewVersion, WaitHealthy, Ends
  <1>12. CASE RestoreFiles
    BY <1>12 DEF RestoreFiles, Goto
  <1>13. CASE ReloadOldCatalog
    BY <1>13 DEF ReloadOldCatalog, Goto, Finish
  <1>14. CASE StartOldVersion
    BY <1>14 DEF StartOldVersion, doInstall, Goto, Finish
  <1>15. CASE CheckOldVersion
    BY <1>15 DEF CheckOldVersion, WaitHealthy, Ends
  <1>16. CASE Report
    BY <1>16 DEF Report, setUpdateState
  <1>17. CASE LifecycleOperation
    BY <1>17 DEF LifecycleOperation, doInstall
  <1>18. CASE Restart
    BY <1>18 DEF Restart
  <1>19. CASE Check
    BY <1>19 DEF Check, FetchIndex, CompareWithCatalog, SwapUpdates
  <1>20. CASE UNCHANGED vars
    BY <1>20 DEF vars
  <1> QED
    BY <1>1, <1>2, <1>3, <1>4, <1>5, <1>6, <1>7, <1>8, <1>9, <1>10, <1>11, <1>12,
       <1>13, <1>14, <1>15, <1>16, <1>17, <1>18, <1>19, <1>20 DEF Next, UpdateStep

\* What the rollback starts is what it put back.
LEMMA OldStep ==
    TypeOK /\ ClaimInv /\ CopiesInv /\ OldInv /\ [Next]_vars => OldInv'
  <1> SUFFICES ASSUME TypeOK, ClaimInv, CopiesInv, OldInv, [Next]_vars PROVE OldInv'
    OBVIOUS
  <1> USE DEF TypeOK, ClaimInv, CopiesInv, OldInv, LivePCs, KeptPCs, deployVars,
              taskVars, checkVars
  <1>1. CASE Publish
    BY <1>1 DEF Publish
  <1>2. CASE ApplyUpdate
    BY <1>2 DEF ApplyUpdate
  <1>3. CASE ClaimModule
    BY <1>3 DEF ClaimModule, setUpdateState
  <1>4. CASE Download
    BY <1>4 DEF Download, Goto, Finish
  <1>5. CASE GetInstalled
    BY <1>5 DEF GetInstalled, Finish
  <1>6. CASE SafetyCopies
    BY <1>6 DEF SafetyCopies, Finish
  <1>7. CASE KeepFiles
    BY <1>7 DEF KeepFiles, Goto, Finish
  <1>8. CASE ExtractBundle
    BY <1>8 DEF ExtractBundle, Goto, Finish
  <1>9. CASE ReloadCatalog
    BY <1>9 DEF ReloadCatalog, Goto, Finish
  <1>10. CASE StartNewVersion
    BY <1>10 DEF StartNewVersion, doInstall, doInstallFails, Goto
  <1>11. CASE CheckNewVersion
    BY <1>11 DEF CheckNewVersion, WaitHealthy, Ends
  <1>12. CASE RestoreFiles
    <2>1. /\ pc = "undo" /\ pc' = "reload2" /\ UNCHANGED <<live, kept, before>>
          /\ (torn' \/ files' = kept)
      BY <1>12, Zenon DEF RestoreFiles
    <2>2. kept = before
      BY <2>1
    <2> QED
      BY <2>1, <2>2
  <1>13. CASE ReloadOldCatalog
    BY <1>13 DEF ReloadOldCatalog, Goto, Finish
  <1>14. CASE StartOldVersion
    BY <1>14 DEF StartOldVersion, doInstall, Goto, Finish
  <1>15. CASE CheckOldVersion
    BY <1>15 DEF CheckOldVersion, WaitHealthy, Ends
  <1>16. CASE Report
    BY <1>16 DEF Report, setUpdateState
  <1>17. CASE LifecycleOperation
    BY <1>17 DEF LifecycleOperation, doInstall
  <1>18. CASE Restart
    BY <1>18 DEF Restart
  <1>19. CASE Check
    BY <1>19 DEF Check, FetchIndex, CompareWithCatalog, SwapUpdates
  <1>20. CASE UNCHANGED vars
    BY <1>20 DEF vars
  <1> QED
    BY <1>1, <1>2, <1>3, <1>4, <1>5, <1>6, <1>7, <1>8, <1>9, <1>10, <1>11, <1>12,
       <1>13, <1>14, <1>15, <1>16, <1>17, <1>18, <1>19, <1>20 DEF Next, UpdateStep

\* A result is true when it is set, and nothing disturbs it until the report is done.
LEMMA OutcomeStep ==
    UpdateInv /\ [Next]_vars => OutcomeIsTrue'
  <1> SUFFICES ASSUME UpdateInv, [Next]_vars PROVE OutcomeIsTrue'
    OBVIOUS
  <1> USE DEF UpdateInv, TypeOK, ClaimInv, ResultInv, CopiesInv, NewInv, OldInv,
              OutcomeIsTrue, LivePCs, KeptPCs, deployVars, taskVars, checkVars
  <1>1. CASE Publish
    BY <1>1 DEF Publish
  <1>2. CASE ApplyUpdate
    BY <1>2 DEF ApplyUpdate
  <1>3. CASE ClaimModule
    BY <1>3 DEF ClaimModule, setUpdateState
  <1>4. CASE Download
    BY <1>4 DEF Download, Goto, Finish
  <1>5. CASE GetInstalled
    BY <1>5 DEF GetInstalled, Finish
  <1>6. CASE SafetyCopies
    BY <1>6 DEF SafetyCopies, Finish
  <1>7. CASE KeepFiles
    BY <1>7 DEF KeepFiles, Goto, Finish
  <1>8. CASE ExtractBundle
    BY <1>8 DEF ExtractBundle, Goto, Finish
  <1>9. CASE ReloadCatalog
    BY <1>9 DEF ReloadCatalog, Goto, Finish
  <1>10. CASE StartNewVersion
    BY <1>10 DEF StartNewVersion, doInstall, doInstallFails, Goto
  <1>11. CASE CheckNewVersion
    BY <1>11, GoodStreak DEF CheckNewVersion, WaitHealthy, Ends
  <1>12. CASE RestoreFiles
    BY <1>12 DEF RestoreFiles, Goto
  <1>13. CASE ReloadOldCatalog
    BY <1>13 DEF ReloadOldCatalog, Goto, Finish
  <1>14. CASE StartOldVersion
    BY <1>14 DEF StartOldVersion, doInstall, Goto, Finish
  <1>15. CASE CheckOldVersion
    BY <1>15, GoodStreak DEF CheckOldVersion, WaitHealthy, Ends
  <1>16. CASE Report
    BY <1>16 DEF Report, setUpdateState
  <1>17. CASE LifecycleOperation
    BY <1>17 DEF LifecycleOperation, doInstall
  <1>18. CASE Restart
    BY <1>18 DEF Restart
  <1>19. CASE Check
    <2>1. UNCHANGED <<result, files, catalog, running, quality, want, before, torn>>
      BY <1>19, Zenon DEF Check, FetchIndex, CompareWithCatalog, SwapUpdates
    <2> QED
      BY <2>1, Zenon
  <1>20. CASE UNCHANGED vars
    BY <1>20 DEF vars
  <1> QED
    BY <1>1, <1>2, <1>3, <1>4, <1>5, <1>6, <1>7, <1>8, <1>9, <1>10, <1>11, <1>12,
       <1>13, <1>14, <1>15, <1>16, <1>17, <1>18, <1>19, <1>20 DEF Next, UpdateStep

\* The entry says so only after the claim, and no longer after the report.
LEMMA ShownStep ==
    ShownInv /\ [Next]_vars => ShownInv'
  <1> SUFFICES ASSUME ShownInv, [Next]_vars PROVE ShownInv'
    OBVIOUS
  <1> USE DEF ShownInv, deployVars, taskVars, checkVars
  <1>1. CASE Publish
    BY <1>1 DEF Publish
  <1>2. CASE ApplyUpdate
    BY <1>2 DEF ApplyUpdate
  <1>3. CASE ClaimModule
    BY <1>3 DEF ClaimModule, setUpdateState
  <1>4. CASE Download
    BY <1>4 DEF Download, Goto, Finish
  <1>5. CASE GetInstalled
    BY <1>5 DEF GetInstalled, Finish
  <1>6. CASE SafetyCopies
    BY <1>6 DEF SafetyCopies, Finish
  <1>7. CASE KeepFiles
    BY <1>7 DEF KeepFiles, Goto, Finish
  <1>8. CASE ExtractBundle
    BY <1>8 DEF ExtractBundle, Goto, Finish
  <1>9. CASE ReloadCatalog
    BY <1>9 DEF ReloadCatalog, Goto, Finish
  <1>10. CASE StartNewVersion
    BY <1>10 DEF StartNewVersion, doInstall, doInstallFails, Goto
  <1>11. CASE CheckNewVersion
    BY <1>11 DEF CheckNewVersion, WaitHealthy, Ends
  <1>12. CASE RestoreFiles
    BY <1>12 DEF RestoreFiles, Goto
  <1>13. CASE ReloadOldCatalog
    BY <1>13 DEF ReloadOldCatalog, Goto, Finish
  <1>14. CASE StartOldVersion
    BY <1>14 DEF StartOldVersion, doInstall, Goto, Finish
  <1>15. CASE CheckOldVersion
    BY <1>15 DEF CheckOldVersion, WaitHealthy, Ends
  <1>16. CASE Report
    BY <1>16 DEF Report, setUpdateState
  <1>17. CASE LifecycleOperation
    BY <1>17 DEF LifecycleOperation, doInstall
  <1>18. CASE Restart
    BY <1>18 DEF Restart
  <1>19. CASE Check
    BY <1>19 DEF Check, FetchIndex, CompareWithCatalog, SwapUpdates
  <1>20. CASE UNCHANGED vars
    BY <1>20 DEF vars
  <1> QED
    BY <1>1, <1>2, <1>3, <1>4, <1>5, <1>6, <1>7, <1>8, <1>9, <1>10, <1>11, <1>12,
       <1>13, <1>14, <1>15, <1>16, <1>17, <1>18, <1>19, <1>20 DEF Next, UpdateStep

----------------------------------------------------------------------------
(* The theorems.                                                           *)

\* The inductive invariant holds in every reachable state.
LEMMA UpdateInvariant == Spec => []UpdateInv
  <1>1. Init => UpdateInv
    <2> SUFFICES ASSUME Init PROVE UpdateInv
      OBVIOUS
    <2>1. TypeOK
      <3>1. 0 \in MaybeVersion /\ 1 \in MaybeVersion /\ 1 \in Versions
        BY UpdateConstants DEF MaybeVersion, Versions
      <3>2. WorldType
        BY <3>1, FilesType, Zenon DEF Init, WorldType
      <3>3. TaskType
        <4>1. 0 \in 0 .. Needed /\ 0 \in 0 .. MaxChecks
          BY UpdateConstants
        <4> QED
          BY <3>1, <4>1, FilesType, Names, Zenon DEF Init, TaskType
      <3>4. CheckType
        BY <3>1 DEF Init, CheckType
      <3>5. BoolType
        BY Zenon DEF Init, BoolType
      <3> QED
        BY <3>2, <3>3, <3>4, <3>5, TypeParts
    <2>2. ClaimInv /\ CountersInv /\ ResultInv /\ CopiesInv /\ NewInv /\ OldInv /\ ShownInv
      BY UpdateConstants DEF Init, ClaimInv, CountersInv, ResultInv, CopiesInv, NewInv,
         OldInv, ShownInv, LivePCs, KeptPCs
    <2>3. OutcomeIsTrue
      BY DEF Init, OutcomeIsTrue
    <2> QED
      BY <2>1, <2>2, <2>3 DEF UpdateInv
  <1>2. UpdateInv /\ [Next]_vars => UpdateInv'
    <2> SUFFICES ASSUME UpdateInv, [Next]_vars PROVE UpdateInv'
      OBVIOUS
    <2>1. TypeOK' /\ ClaimInv' /\ CountersInv' /\ ResultInv'
      BY TypeStep, ClaimStep, CountersStep, ResultStep DEF UpdateInv
    <2>2. CopiesInv' /\ NewInv' /\ OldInv'
      BY CopiesStep, NewStep, OldStep DEF UpdateInv
    <2>3. OutcomeIsTrue' /\ ShownInv'
      BY OutcomeStep, ShownStep DEF UpdateInv
    <2> QED
      BY <2>1, <2>2, <2>3 DEF UpdateInv
  <1> QED
    BY <1>1, <1>2, PTL DEF Spec

\* Every variable has its type in every reachable state: no call of applyBundle,
\* and no check beside it, leaves a state the next one does not expect.
THEOREM UpdateTypeCorrect == Spec => []TypeOK
  <1>1. UpdateInv => TypeOK
    BY DEF UpdateInv
  <1> QED
    BY <1>1, UpdateInvariant, PTL

\* What applyBundle reports is what it leaves behind, whichever calls fail,
\* wherever the platform restarts, and however the containers looked at
\* single readings of WaitHealthy; that a rollback brought back the old files
\* is left out where restoreFiles did not put back all of its copy, the failures
\* of which it ignores.
THEOREM OutcomesAreTrue == Spec => []OutcomeIsTrue
  <1>1. UpdateInv => OutcomeIsTrue
    BY DEF UpdateInv
  <1> QED
    BY <1>1, UpdateInvariant, PTL

\* applyBundle changes the files of an installed module only after its safety
\* copies, and the copy it would roll back to is still there at every later
\* call.
THEOREM CopiesComeFirst == Spec => []CopiesBeforeChanges
  <1>1. UpdateInv => CopiesBeforeChanges
    <2> SUFFICES ASSUME UpdateInv, pc # "idle", live, files # before
                 PROVE  copied /\ kept = before
      BY DEF CopiesBeforeChanges
    <2>1. pc \in KeptPCs \/ pc = "report"
      BY DEF UpdateInv, TypeOK, PCs, CopiesInv, KeptPCs
    <2> QED
      BY <2>1 DEF UpdateInv, CopiesInv
  <1> QED
    BY <1>1, UpdateInvariant, PTL

\* An update that the Module Store page shows as in progress is under way, and
\* holds the module's claim: no check for updates brings back the status of
\* one that has ended.
THEOREM ShownUpdatesAreUnderWay == Spec => [](offer = "updating" => claimed)
  <1>1. UpdateInv => (offer = "updating" => claimed)
    BY DEF UpdateInv, ShownInv, ClaimInv
  <1> QED
    BY <1>1, UpdateInvariant, PTL

----------------------------------------------------------------------------
(* The platform's data, at any moment of a backup, a restore or a start of *)
(* the platform.                                                           *)

CONSTANTS
    Modules, Backups, Restores, PlatformVersions, keepSnapshots, MaxClock, MaxRuns,
    MaxFaults, MaxUpdates, None, Broken

VARIABLES
    code, phase, db, runs, snapshots, vols, up, bucket, job, clock, faults, updates, booted,
    unwritten

Data == INSTANCE PlatformData WITH Versions <- PlatformVersions

RunCalls == {"idle", "start", "remote", "dump", "upload", "list", "volume", "snapshot",
             "replace", "reinstall", "finish"}
SnapshotFiles == [schema : Data!Schemas, at : Data!Times]
Buckets == [db : Data!Dumps \union {None, Broken},
            vols : [Modules -> Data!Archives \union {None, Broken}]]
RunJobs == [pc : RunCalls, run : 0 .. MaxRuns, todo : SUBSET Modules, ids : SUBSET Modules,
            failed : BOOLEAN, since : Data!Times, dump : Data!Dumps \union {None}]

\* The tables, the disk and the bucket.
TablesInv ==
    /\ code \in 1 .. PlatformVersions /\ db \in Data!Databases
    /\ phase \in {"down", "check", "snapshot", "migrate", "record", "clear", "serving"}
    /\ runs \in Seq({"running", "success", "error"}) /\ Len(runs) <= MaxRuns
    /\ snapshots \in Seq(SnapshotFiles) /\ Len(snapshots) <= keepSnapshots
    /\ vols \in [Modules -> Data!Volumes] /\ up \subseteq Modules
    /\ bucket \in Buckets
    /\ clock \in Data!Times /\ faults \in 0 .. MaxFaults /\ updates \in 0 .. MaxUpdates
    /\ booted \in [at : Data!Times, schema : Data!Schemas]
    /\ unwritten \subseteq 0 .. MaxRuns

\* Runs only go on in a platform that serves; each makes the calls of its kind.
JobInv(j) ==
    /\ j.pc # "idle" => phase = "serving"
    /\ j.todo \subseteq j.ids
    /\ j.since <= clock
    /\ j.pc = "reinstall" => j.todo # {}
JobsInv ==
    /\ job \in [Data!Workers -> RunJobs]
    /\ \A w \in Data!Workers : JobInv(job[w])
    /\ \A w \in Backups : job[w].pc \notin {"snapshot", "replace", "reinstall"}
    /\ \A w \in Restores : job[w].pc \notin {"dump", "upload"}

\* The newest snapshot was taken at this moment or later.
SavedSince(t) == Len(snapshots) > 0 /\ snapshots[Len(snapshots)].at >= t

\* A start leaves the schema it found alone until that is saved.
StartInv ==
    /\ booted.at <= clock
    /\ phase \in {"check", "snapshot"} => db.schema = booted.schema
    /\ phase \in {"snapshot", "migrate"} => db.schema < code
    /\ phase = "migrate" /\ booted.schema > 0 =>
          SavedSince(booted.at) /\ snapshots[Len(snapshots)].schema = booted.schema

\* A restore has saved what it is about to replace.
RestoreInv == \A w \in Restores : job[w].pc = "replace" => SavedSince(job[w].since)

DataInv == TablesInv /\ JobsInv /\ StartInv /\ RestoreInv

\* What a backup that has not failed yet has put in the bucket.
SavedDb(j) == bucket.db \in Data!Dumps /\ bucket.db.at >= j.since
SavedVol(j, m) == bucket.vols[m] \in Data!Archives /\ bucket.vols[m].at >= j.since
BackupOK(j) ==
    /\ j.pc = "upload" => j.dump \in Data!Dumps /\ j.dump.at >= j.since
    /\ j.pc \in {"list", "volume", "finish"} /\ ~j.failed => SavedDb(j)
    /\ j.pc \in {"volume", "finish"} /\ ~j.failed => \A m \in j.ids \ j.todo : SavedVol(j, m)
    /\ j.pc = "finish" /\ ~j.failed => j.todo = {}
BackupInv == \A w \in Backups : BackupOK(job[w])

----------------------------------------------------------------------------
(* What the helpers do.                                                    *)

\* A snapshot becomes the newest one; what is pruned is older.
LEMMA SnapshotTaken ==
    ASSUME Data!DataConstants, TablesInv, Data!Snapshot
    PROVE  /\ snapshots' \in Seq(SnapshotFiles) /\ Len(snapshots') \in 1 .. keepSnapshots
           /\ snapshots'[Len(snapshots')] = [schema |-> db.schema, at |-> clock]
  <1> DEFINE new == [schema |-> db.schema, at |-> clock]
             all == Append(snapshots, new)
  <1>1. new \in SnapshotFiles /\ snapshots \in Seq(SnapshotFiles)
    BY DEF TablesInv, SnapshotFiles, Data!Databases
  <1>2. keepSnapshots \in Nat \ {0} /\ Len(snapshots) <= keepSnapshots
    BY Data!DataConstants DEF TablesInv
  <1>3. snapshots' = IF Len(all) > keepSnapshots THEN Tail(all) ELSE all
    BY DEF Data!Snapshot
  <1> HIDE DEF new
  <1>4. /\ all \in Seq(SnapshotFiles) /\ Len(all) = Len(snapshots) + 1
        /\ all[Len(all)] = new
    BY <1>1
  <1>5. CASE Len(all) > keepSnapshots
    <2>1. Len(all) > 1 /\ all # <<>>
      BY <1>2, <1>4, <1>5
    <2>2. /\ Tail(all) \in Seq(SnapshotFiles) /\ Len(Tail(all)) = Len(all) - 1
          /\ Tail(all)[Len(all) - 1] = all[Len(all)]
      BY <1>4, <2>1
    <2> QED
      BY <1>2, <1>3, <1>4, <1>5, <2>1, <2>2 DEF new
  <1>6. CASE ~(Len(all) > keepSnapshots)
    BY <1>1, <1>2, <1>3, <1>4, <1>6 DEF new
  <1> QED
    BY <1>5, <1>6

\* A call that fails counts as a fault.
LEMMA FaultsCounted ==
    ASSUME Data!DataConstants, faults \in 0 .. MaxFaults, NEW call, Data!Fails(call)
             \/ Data!Works
    PROVE  faults' \in 0 .. MaxFaults
  BY Data!DataConstants DEF Data!Fails, Data!Works

\* The next call of one run, and its record otherwise.
LEMMA JobSet ==
    ASSUME JobsInv, NEW w \in Data!Workers, NEW r \in RunJobs, job' = [job EXCEPT ![w] = r],
           clock' = clock, phase' = phase, JobInv(r),
           w \in Backups => r.pc \notin {"snapshot", "replace", "reinstall"},
           w \in Restores => r.pc \notin {"dump", "upload"}
    PROVE  JobsInv'
  <1>1. job' \in [Data!Workers -> RunJobs] /\ job'[w] = r
          /\ \A v \in Data!Workers \ {w} : job'[v] = job[v]
    BY DEF JobsInv
  <1>2. \A v \in Data!Workers : JobInv(job[v])'
    BY <1>1 DEF JobsInv, JobInv
  <1>3. Data!Workers = Backups \union Restores
    BY DEF Data!Workers
  <1> QED
    BY <1>1, <1>2, <1>3 DEF JobsInv

----------------------------------------------------------------------------
(* What the steps preserve.                                                *)


\* The tables, the disk and the bucket keep their types.
LEMMA TablesStep ==
    ASSUME Data!DataConstants, DataInv, [Data!Next]_Data!vars
    PROVE  TablesInv'
  <1>0. /\ TablesInv /\ JobsInv /\ StartInv
        /\ PlatformVersions \in Nat \ {0} /\ MaxClock \in Nat /\ MaxRuns \in Nat
        /\ MaxUpdates \in Nat
    BY Data!DataConstants DEF DataInv
  <1>1. ASSUME Data!Boot \/ Data!CheckSchema PROVE TablesInv'
    <2>1. /\ UNCHANGED <<code, db, runs, snapshots, vols, up, bucket, clock, faults, updates>>
          /\ phase' \in {"down", "check", "snapshot", "migrate", "record"}
          /\ \/ booted' = booted /\ unwritten' = unwritten
             \/ booted' = [at |-> clock, schema |-> db.schema] /\ unwritten' = {}
      BY <1>1, Zenon DEF Data!Boot, Data!CheckSchema
    <2>2. [at |-> clock, schema |-> db.schema] \in [at : Data!Times, schema : Data!Schemas]
      BY <1>0 DEF TablesInv, Data!Databases
    <2> QED
      BY <1>0, <2>1, <2>2 DEF TablesInv
  <1>2. CASE Data!SnapshotBeforeUpgrade
    <2>1. CASE Data!Snapshot /\ phase' = "migrate" /\ Data!Works
      BY <1>0, <1>2, <2>1, Data!DataConstants, SnapshotTaken DEF Data!SnapshotBeforeUpgrade,
         Data!Works, TablesInv
    <2>2. CASE UNCHANGED snapshots /\ phase' = "down" /\ Data!Fails("snapshot")
      BY <1>0, <1>2, <2>2, Data!DataConstants, FaultsCounted DEF Data!SnapshotBeforeUpgrade,
         TablesInv
    <2> QED
      BY <1>2, <2>1, <2>2 DEF Data!SnapshotBeforeUpgrade
  <1>3. CASE Data!ApplyMigration
    <2>1. db' \in Data!Databases
      <3>1. phase = "migrate" /\ code \in 1 .. PlatformVersions /\ db \in Data!Databases
              /\ db.schema < code
        BY <1>0, <1>3 DEF Data!ApplyMigration, TablesInv, StartInv
      <3>2. db.schema + 1 \in Data!Schemas
        BY <1>0, <3>1 DEF Data!Databases, Data!Schemas
      <3>3. db' = db \/ db' = [db EXCEPT !.schema = db.schema + 1]
        BY <1>3, Zenon DEF Data!ApplyMigration
      <3> QED
        BY <3>1, <3>2, <3>3 DEF Data!Databases
    <2>2. faults' \in 0 .. MaxFaults
      BY <1>0, <1>3, Data!DataConstants, FaultsCounted DEF Data!ApplyMigration, TablesInv
    <2>3. phase' \in {"down", "record", "migrate"}
      BY <1>3, Zenon DEF Data!ApplyMigration
    <2> QED
      BY <1>0, <1>3, <2>1, <2>2, <2>3 DEF Data!ApplyMigration, TablesInv
  <1>4. CASE Data!RecordVersion
    <2>1. faults' \in 0 .. MaxFaults
      BY <1>0, <1>4, Data!DataConstants, FaultsCounted DEF Data!RecordVersion, TablesInv
    <2>2. db' \in Data!Databases
      <3>1. db \in Data!Databases /\ code \in Data!Schemas
        BY <1>0 DEF TablesInv, Data!Schemas
      <3>2. db' = db \/ db' = [db EXCEPT !.recorded = code]
        BY <1>4, Zenon DEF Data!RecordVersion
      <3> QED
        BY <3>1, <3>2 DEF Data!Databases
    <2>3. phase' \in {"down", "clear"}
      BY <1>4 DEF Data!RecordVersion
    <2> QED
      BY <1>0, <1>4, <2>1, <2>2, <2>3 DEF Data!RecordVersion, TablesInv
  <1>5. CASE Data!ClearInterrupted
    <2>1. runs' \in Seq({"running", "success", "error"}) /\ Len(runs') = Len(runs)
      <3>1. runs' = [r \in DOMAIN runs |-> IF runs[r] = "running" THEN "error" ELSE runs[r]]
               \/ runs' = runs
        BY <1>5, Zenon DEF Data!ClearInterrupted
      <3> QED
        BY <1>0, <3>1 DEF TablesInv
    <2>2. Data!NotStarting \in [at : Data!Times, schema : Data!Schemas]
      BY <1>0 DEF Data!NotStarting, Data!Times, Data!Schemas
    <2>3. faults' \in 0 .. MaxFaults
      BY <1>0, <1>5, Data!DataConstants, FaultsCounted DEF Data!ClearInterrupted, TablesInv
    <2>4. unwritten' \subseteq 0 .. MaxRuns
      <3>1. unwritten' = unwritten \/ unwritten' \subseteq 1 .. MaxRuns
        BY <1>5, Zenon DEF Data!ClearInterrupted
      <3>2. 1 .. MaxRuns \subseteq 0 .. MaxRuns /\ unwritten \subseteq 0 .. MaxRuns
        BY <1>0 DEF TablesInv
      <3> QED
        BY <3>1, <3>2, Zenon
    <2> QED
      BY <1>0, <1>5, <2>1, <2>2, <2>3, <2>4 DEF Data!ClearInterrupted, TablesInv
  <1>6. ASSUME Data!Crash \/ Data!ChangeVersion PROVE TablesInv'
    <2>1. faults' \in 0 .. MaxFaults
      BY <1>0, <1>6, Data!DataConstants, FaultsCounted DEF Data!Crash, Data!ChangeVersion,
         TablesInv
    <2> QED
      BY <1>0, <1>6, <2>1 DEF Data!Crash, Data!ChangeVersion, TablesInv
  <1>7. ASSUME Data!WriteData \/ Data!LifecycleOperation PROVE TablesInv'
    <2>1. clock' \in Data!Times /\ up' \subseteq Modules
      BY <1>0, <1>7 DEF Data!WriteData, Data!LifecycleOperation, Data!Tick, Data!Times,
         TablesInv
    <2>2. db' \in Data!Databases
      <3>1. db \in Data!Databases
        BY <1>0 DEF TablesInv
      <3>2. db' = db \/ \E m \in Modules : \/ db' = [db EXCEPT !.rows = @ \union {m}]
                                            \/ db' = [db EXCEPT !.rows = @ \ {m}]
        BY <1>7, Zenon DEF Data!WriteData, Data!LifecycleOperation
      <3> QED
        BY <3>1, <3>2 DEF Data!Databases
    <2> QED
      BY <1>0, <1>7, <2>1, <2>2 DEF Data!WriteData, Data!LifecycleOperation, TablesInv
  <1>8. CASE Data!UpdateSnapshot
    <2>1. updates' \in 0 .. MaxUpdates
      BY <1>0, <1>8 DEF Data!UpdateSnapshot, TablesInv
    <2> QED
      BY <1>0, <1>8, <2>1, Data!DataConstants, SnapshotTaken DEF Data!UpdateSnapshot, TablesInv
  <1>9. ASSUME NEW w \in Data!Workers, Data!Request(w) \/ Data!DumpDatabase(w)
                 \/ Data!EndOfList(w)
        PROVE  TablesInv'
    BY <1>0, <1>9 DEF Data!Request, Data!DumpDatabase, Data!EndOfList, TablesInv
  <1>10. ASSUME NEW w \in Data!Workers, Data!rcloneRemote(w) \/ Data!ListModules(w)
         PROVE  TablesInv'
    <2>1. faults' \in 0 .. MaxFaults
      BY <1>0, <1>10, Data!DataConstants, FaultsCounted DEF Data!rcloneRemote, Data!ListModules,
         TablesInv
    <2> QED
      BY <1>0, <1>10, <2>1 DEF Data!rcloneRemote, Data!ListModules, TablesInv
  <1>11. ASSUME NEW w \in Data!Workers, Data!startRun(w) \/ Data!finish(w) PROVE TablesInv'
    <2>1. faults' \in 0 .. MaxFaults
      BY <1>0, <1>11, Data!DataConstants, FaultsCounted DEF Data!startRun, Data!finish,
         TablesInv
    <2>2. runs' \in Seq({"running", "success", "error"}) /\ Len(runs') <= MaxRuns
      <3>1. \/ runs' = runs
            \/ Len(runs) < MaxRuns /\ runs' = Append(runs, "running")
            \/ \E x \in {"success", "error"} : runs' = [runs EXCEPT ![job[w].run] = x]
        BY <1>11, Zenon DEF Data!startRun, Data!finish
      <3>2. runs \in Seq({"running", "success", "error"}) /\ Len(runs) <= MaxRuns
        BY <1>0 DEF TablesInv
      <3>3. CASE Len(runs) < MaxRuns /\ runs' = Append(runs, "running")
        BY <1>0, <3>2, <3>3
      <3>4. ASSUME NEW x \in {"success", "error"}, runs' = [runs EXCEPT ![job[w].run] = x]
            PROVE  runs' \in Seq({"running", "success", "error"}) /\ Len(runs') <= MaxRuns
        <4>1. runs' = [r \in 1 .. Len(runs) |-> IF r = job[w].run THEN x ELSE runs[r]]
          <5>1. runs = [r \in 1 .. Len(runs) |-> runs[r]]
            BY <3>2
          <5> QED
            BY <3>4, <5>1
        <4> QED
          BY <3>2, <4>1
      <3> QED
        BY <3>1, <3>2, <3>3, <3>4
    <2>3. unwritten' \subseteq 0 .. MaxRuns
      <3>1. unwritten' = unwritten \/ unwritten' = unwritten \union {job[w].run}
        BY <1>11, Zenon DEF Data!startRun, Data!finish
      <3>2. job[w].run \in 0 .. MaxRuns
        BY <1>0 DEF JobsInv, RunJobs
      <3> QED
        BY <1>0, <3>1, <3>2 DEF TablesInv
    <2> QED
      BY <1>0, <1>11, <2>1, <2>2, <2>3 DEF Data!startRun, Data!finish, TablesInv
  <1>12. ASSUME NEW w \in Data!Workers, Data!UploadDump(w) \/ Data!BackupVolume(w)
         PROVE  TablesInv'
    <2>1. faults' \in 0 .. MaxFaults
      BY <1>0, <1>12, Data!DataConstants, FaultsCounted DEF Data!UploadDump, Data!BackupVolume,
         TablesInv
    <2>2. bucket' \in Buckets
      <3>1. job[w] \in RunJobs /\ bucket \in Buckets /\ vols \in [Modules -> Data!Volumes]
            /\ clock \in Data!Times
        BY <1>0 DEF JobsInv, TablesInv
      <3>2. job[w].dump \in Data!Dumps \union {None, Broken}
        BY <3>1 DEF RunJobs
      <3>3. CASE Data!UploadDump(w)
        BY <3>1, <3>2, <3>3 DEF Data!UploadDump, Buckets
      <3>4. CASE Data!BackupVolume(w)
        <4>1. \/ bucket' = bucket
              \/ \E a \in Data!Archives \union {None, Broken} :
                    bucket' = [bucket EXCEPT !.vols[Data!Current(w)] = a]
          <5>1. Data!Current(w) \in Modules
            BY <3>1, <3>4 DEF Data!BackupVolume, Data!Current, RunJobs
          <5>2. [volume |-> vols[Data!Current(w)], at |-> clock] \in Data!Archives
            BY <3>1, <5>1 DEF Data!Archives
          <5> QED
            BY <3>4, <5>2, Zenon DEF Data!BackupVolume
        <4> QED
          BY <3>1, <4>1 DEF Buckets
      <3> QED
        BY <1>12, <3>3, <3>4
    <2> QED
      BY <1>0, <1>12, <2>1, <2>2 DEF Data!UploadDump, Data!BackupVolume, TablesInv
  <1>13. ASSUME NEW w \in Data!Workers, Data!SnapshotBeforeRestore(w) PROVE TablesInv'
    <2>1. faults' \in 0 .. MaxFaults
      BY <1>0, <1>13, Data!DataConstants, FaultsCounted DEF Data!SnapshotBeforeRestore,
         TablesInv
    <2>2. CASE Data!Snapshot
      BY <1>0, <1>13, <2>1, <2>2, Data!DataConstants, SnapshotTaken DEF
         Data!SnapshotBeforeRestore, TablesInv
    <2>3. CASE UNCHANGED snapshots
      BY <1>0, <1>13, <2>1, <2>3 DEF Data!SnapshotBeforeRestore, TablesInv
    <2> QED
      BY <1>13, <2>2, <2>3 DEF Data!SnapshotBeforeRestore
  <1>14. ASSUME NEW w \in Data!Workers, Data!ReplaceDatabase(w) PROVE TablesInv'
    <2>1. faults' \in 0 .. MaxFaults
      BY <1>0, <1>14, Data!DataConstants, FaultsCounted DEF Data!ReplaceDatabase, TablesInv,
         Data!Works
    <2>2. db' \in Data!Databases
      BY <1>0, <1>14 DEF Data!ReplaceDatabase, TablesInv, Buckets, Data!Dumps
    <2> QED
      BY <1>0, <1>14, <2>1, <2>2 DEF Data!ReplaceDatabase, TablesInv
  <1>15. ASSUME NEW w \in Data!Workers, Data!RestoreVolume(w) PROVE TablesInv'
    <2>1. faults' \in 0 .. MaxFaults
      BY <1>0, <1>15, Data!DataConstants, FaultsCounted DEF Data!RestoreVolume, TablesInv
    <2>2. vols' \in [Modules -> Data!Volumes]
      <3>1. job[w] \in RunJobs /\ bucket \in Buckets /\ vols \in [Modules -> Data!Volumes]
        BY <1>0 DEF JobsInv, TablesInv
      <3>2. Data!Current(w) \in Modules
        BY <3>1, <1>15 DEF Data!RestoreVolume, Data!Current, RunJobs
      <3>3. \/ vols' = vols
            \/ \E v \in Data!Volumes : vols' = [vols EXCEPT ![Data!Current(w)] = v]
        <4>1. bucket.vols[Data!Current(w)] \notin {None, Broken} =>
                 bucket.vols[Data!Current(w)].volume \in Data!Volumes
          BY <3>1, <3>2 DEF Buckets, Data!Archives
        <4>2. "broken" \in Data!Volumes
          BY DEF Data!Volumes
        <4> QED
          BY <1>15, <4>1, <4>2, Zenon DEF Data!RestoreVolume
      <3> QED
        BY <3>1, <3>3
    <2> QED
      BY <1>0, <1>15, <2>1, <2>2 DEF Data!RestoreVolume, TablesInv
  <1>16. ASSUME NEW w \in Data!Workers, Data!Reinstall(w) PROVE TablesInv'
    <2>1. faults' \in 0 .. MaxFaults
      BY <1>0, <1>16, Data!DataConstants, FaultsCounted DEF Data!Reinstall, TablesInv
    <2>2. up' \subseteq Modules
      <3>1. job[w].todo \subseteq Modules /\ job[w].todo # {}
        BY <1>0, <1>16 DEF Data!Reinstall, JobsInv, JobInv, RunJobs
      <3>2. Data!Current(w) \in Modules
        BY <3>1 DEF Data!Current
      <3>3. up' = up \union {Data!Current(w)} \/ up' = up
        BY <1>16 DEF Data!Reinstall
      <3> QED
        BY <1>0, <3>2, <3>3 DEF TablesInv
    <2> QED
      BY <1>0, <1>16, <2>1, <2>2 DEF Data!Reinstall, TablesInv
  <1>17. CASE UNCHANGED Data!vars
    BY <1>0, <1>17 DEF Data!vars, TablesInv
  <1>18. ASSUME NEW w \in Data!Workers, Data!Request(w) \/ Data!Run(w) PROVE TablesInv'
    BY <1>9, <1>10, <1>11, <1>12, <1>13, <1>14, <1>15, <1>16, <1>18, Zenon DEF Data!Run
  <1>19. ASSUME Data!Startup \/ Data!Crash \/ Data!ChangeVersion PROVE TablesInv'
    BY <1>1, <1>2, <1>3, <1>4, <1>5, <1>6, <1>19, Zenon DEF Data!Startup
  <1> QED
    BY <1>7, <1>8, <1>17, <1>18, <1>19, Zenon DEF Data!Next

\* Each request makes its calls, in a platform that serves.
LEMMA JobsStep ==
    ASSUME Data!DataConstants, DataInv, TablesInv', [Data!Next]_Data!vars
    PROVE  JobsInv'
  <1>0. /\ TablesInv /\ JobsInv /\ 0 \in Data!Times /\ clock \in Data!Times
        /\ {} \in SUBSET Modules /\ db.rows \in SUBSET Modules
        /\ [db |-> db, at |-> clock] \in Data!Dumps /\ 0 \in 0 .. MaxRuns
    <2>1. TablesInv /\ JobsInv
      BY DEF DataInv
    <2>2. db \in Data!Databases /\ clock \in Data!Times
      BY <2>1 DEF TablesInv
    <2>3. [db |-> db, at |-> clock] \in Data!Dumps
      BY <2>2 DEF Data!Dumps
    <2>4. {} \in SUBSET Modules /\ db.rows \in SUBSET Modules
      BY <2>2 DEF Data!Databases
    <2>5. 0 \in Data!Times /\ 0 \in 0 .. MaxRuns
      BY Data!DataConstants DEF Data!Times
    <2> QED
      BY <2>1, <2>2, <2>3, <2>4, <2>5
  <1>1. job \in [Data!Workers -> RunJobs] /\ Data!Workers = Backups \union Restores
        /\ Backups \intersect Restores = {}
    BY <1>0, Data!DataConstants DEF JobsInv, Data!Workers
  <1>2. Data!Idle \in RunJobs /\ Data!Idle.pc = "idle" /\ JobInv(Data!Idle)
    BY <1>0 DEF Data!Idle, RunJobs, RunCalls, JobInv, Data!Times
  <1>3. ASSUME UNCHANGED job, clock <= clock', phase = "serving" => phase' = "serving"
        PROVE  JobsInv'
    <2>1. \A w \in Data!Workers : JobInv(job[w])'
      <3>1. ASSUME NEW w \in Data!Workers PROVE JobInv(job[w])'
        <4>1. job[w].since \in Data!Times /\ clock' \in Data!Times /\ Data!Times \subseteq Nat
          <5>1. clock' \in Data!Times
            BY TablesInv' DEF TablesInv, Data!Times
          <5>2. Data!Times \subseteq Nat
            BY Data!DataConstants DEF Data!Times
          <5> QED
            BY <1>1, <5>1, <5>2 DEF RunJobs
        <4>2. job[w].since <= clock
          BY <1>0 DEF JobsInv, JobInv
        <4>3. job[w].since <= clock'
          BY <1>0, <1>3, <4>1, <4>2
        <4> QED
          BY <1>0, <1>3, <4>3 DEF JobsInv, JobInv
      <3> QED
        BY <3>1
    <2> QED
      BY <1>0, <1>3, <2>1 DEF JobsInv
  <1>4. ASSUME job' = [w \in Data!Workers |-> Data!Idle], UNCHANGED clock
        PROVE  JobsInv'
    <2>1. JobInv(Data!Idle)'
      BY <1>0, <1>2, <1>4 DEF JobInv, Data!Idle
    <2> QED
      BY <1>1, <1>2, <1>4, <2>1 DEF JobsInv
  <1>5. CASE Data!Startup
    <2>1. UNCHANGED <<job, clock>> /\ phase # "serving"
      BY <1>5 DEF Data!Startup, Data!Boot, Data!CheckSchema, Data!SnapshotBeforeUpgrade,
         Data!ApplyMigration, Data!RecordVersion, Data!ClearInterrupted
    <2> QED
      BY <1>0, <1>3, <2>1 DEF Data!Times
  <1>6. ASSUME Data!Crash \/ Data!ChangeVersion PROVE JobsInv'
    BY <1>4, <1>6 DEF Data!Crash, Data!ChangeVersion
  <1>7. ASSUME Data!WriteData \/ Data!LifecycleOperation \/ Data!UpdateSnapshot PROVE JobsInv'
    <2>1. UNCHANGED <<job, phase>> /\ clock <= clock'
      BY <1>0, <1>7 DEF Data!WriteData, Data!LifecycleOperation, Data!UpdateSnapshot, Data!Tick,
         Data!Times
    <2> QED
      BY <1>3, <2>1
  <1>8. ASSUME NEW w \in Data!Workers, Data!Request(w) PROVE JobsInv'
    <2> DEFINE r == [Data!Idle EXCEPT !.pc = "start"]
    <2>1. r \in RunJobs /\ r.pc = "start" /\ JobInv(r)
      BY <1>0, <1>2, <1>8 DEF Data!Idle, RunJobs, RunCalls, JobInv, Data!Request
    <2>2. job' = [job EXCEPT ![w] = r] /\ UNCHANGED <<clock, phase>>
      BY <1>8 DEF Data!Request
    <2> HIDE DEF r
    <2> QED
      BY <1>0, <2>1, <2>2, JobSet
  <1>9. ASSUME NEW w \in Data!Workers, Data!Run(w) PROVE JobsInv'
    <2> DEFINE j == job[w]
    <2>0. /\ j \in RunJobs /\ JobInv(j)
          /\ w \in Backups => j.pc \notin {"snapshot", "replace", "reinstall"}
          /\ w \in Restores => j.pc \notin {"dump", "upload"}
      BY <1>0, <1>1 DEF JobsInv
    <2>1. j.pc # "idle" => phase = "serving" /\ UNCHANGED <<clock, phase>>
      BY <1>9, <2>0 DEF Data!Run, Data!startRun, Data!rcloneRemote, Data!DumpDatabase,
         Data!UploadDump, Data!ListModules, Data!BackupVolume, Data!SnapshotBeforeRestore,
         Data!ReplaceDatabase, Data!RestoreVolume, Data!Reinstall, Data!EndOfList, Data!finish,
         JobInv
    <2>2. UNCHANGED <<clock, phase>> /\ phase = "serving"
      BY <1>9, <2>1 DEF Data!Run, Data!startRun, Data!rcloneRemote, Data!DumpDatabase,
         Data!UploadDump, Data!ListModules, Data!BackupVolume, Data!SnapshotBeforeRestore,
         Data!ReplaceDatabase, Data!RestoreVolume, Data!Reinstall, Data!EndOfList, Data!finish
    <2>3. ASSUME NEW r \in RunJobs, job' = [job EXCEPT ![w] = r], r.todo \subseteq r.ids,
                 r.since \in {j.since, 0, clock}, r.pc = "reinstall" => r.todo # {},
                 w \in Backups => r.pc \notin {"snapshot", "replace", "reinstall"},
                 w \in Restores => r.pc \notin {"dump", "upload"}
          PROVE  JobsInv'
      <3>1. r.since <= clock
        BY <1>0, <2>0, <2>3 DEF JobInv, Data!Times
      <3>2. JobInv(r)
        BY <2>2, <2>3, <3>1 DEF JobInv
      <3> QED
        BY <1>0, <2>2, <2>3, <3>2, JobSet
    <2>4. ASSUME job' = [job EXCEPT ![w] = Data!Idle] PROVE JobsInv'
      BY <1>2, <2>3, <2>4 DEF Data!Idle
    <2>5. ASSUME NEW n \in RunCalls, NEW f \in BOOLEAN,
                 job' = [job EXCEPT ![w] = [j EXCEPT !.pc = n, !.failed = f]],
                 n = "reinstall" => j.todo # {},
                 w \in Backups => n \notin {"snapshot", "replace", "reinstall"},
                 w \in Restores => n \notin {"dump", "upload"}
          PROVE  JobsInv'
      <3> DEFINE r == [j EXCEPT !.pc = n, !.failed = f]
      <3>1. r \in RunJobs /\ r.pc = n /\ r.todo = j.todo /\ r.ids = j.ids /\ r.since = j.since
        BY <2>0, <2>5 DEF RunJobs
      <3>2. job' = [job EXCEPT ![w] = r] /\ j.todo \subseteq j.ids
        BY <2>0, <2>5 DEF JobInv
      <3> HIDE DEF r, j
      <3> QED
        BY <2>3, <2>5, <3>1, <3>2
    <2>6. j.failed \in BOOLEAN
      BY <2>0 DEF RunJobs
    <2>7. ASSUME NEW n, Data!Goto(w, n)
          PROVE  job' = [job EXCEPT ![w] = [j EXCEPT !.pc = n, !.failed = j.failed]]
      BY <1>1, <2>0, <2>7 DEF Data!Goto, RunJobs
    <2>8. ASSUME NEW n, Data!Failed(w, n)
          PROVE  job' = [job EXCEPT ![w] = [j EXCEPT !.pc = n, !.failed = TRUE]]
      BY <1>1, <2>0, <2>8 DEF Data!Failed, RunJobs
    <2>9. CASE Data!startRun(w)
      <3> DEFINE r == [j EXCEPT !.pc = "remote", !.run = Len(runs) + 1, !.since = clock]
      <3>1. CASE job' = [job EXCEPT ![w] = r] /\ Len(runs) < MaxRuns
        <4>1. Len(runs) + 1 \in 0 .. MaxRuns
          BY <1>0, <3>1, Data!DataConstants DEF TablesInv
        <4>2. /\ r \in RunJobs /\ r.pc = "remote" /\ r.todo = j.todo /\ r.ids = j.ids
              /\ r.since = clock
          BY <1>0, <2>0, <4>1 DEF RunJobs, RunCalls
        <4>3. j.todo \subseteq j.ids
          BY <2>0 DEF JobInv
        <4> HIDE DEF r, j
        <4> QED
          BY <2>3, <3>1, <4>2, <4>3
      <3> QED
        BY <2>4, <2>9, <3>1 DEF Data!startRun
    <2>10. CASE Data!rcloneRemote(w)
      BY <1>1, <2>5, <2>6, <2>7, <2>8, <2>10 DEF Data!rcloneRemote, RunCalls
    <2>11. CASE Data!DumpDatabase(w)
      <3> DEFINE r == [j EXCEPT !.pc = "upload", !.dump = [db |-> db, at |-> clock]]
      <3>1. /\ r \in RunJobs /\ r.pc = "upload" /\ r.todo = j.todo /\ r.ids = j.ids
            /\ r.since = j.since
        BY <1>0, <2>0 DEF RunJobs, RunCalls
      <3>2. job' = [job EXCEPT ![w] = r] /\ j.todo \subseteq j.ids /\ w \notin Restores
        BY <2>0, <2>11 DEF Data!DumpDatabase, JobInv
      <3> HIDE DEF r, j
      <3> QED
        BY <2>3, <3>1, <3>2
    <2>12. CASE Data!UploadDump(w)
      <3>1. ASSUME NEW f \in BOOLEAN,
                   job' = [job EXCEPT ![w] = [j EXCEPT !.pc = "list", !.dump = None,
                   !.failed = f]]
            PROVE  JobsInv'
        <4> DEFINE r == [j EXCEPT !.pc = "list", !.dump = None, !.failed = f]
        <4>1. /\ r \in RunJobs /\ r.pc = "list" /\ r.todo = j.todo /\ r.ids = j.ids
              /\ r.since = j.since
          BY <2>0, <3>1 DEF RunJobs, RunCalls
        <4>2. job' = [job EXCEPT ![w] = r] /\ j.todo \subseteq j.ids
          BY <2>0, <3>1 DEF JobInv
        <4> HIDE DEF r, j
        <4> QED
          BY <2>3, <4>1, <4>2
      <3>2. \/ job' = [job EXCEPT ![w] = [j EXCEPT !.pc = "list", !.dump = None,
               !.failed = TRUE]]
            \/ job' = [job EXCEPT ![w] = [j EXCEPT !.pc = "list", !.dump = None,
                                                    !.failed = j.failed]]
        BY <1>1, <2>0, <2>12 DEF Data!UploadDump, RunJobs
      <3> QED
        BY <2>6, <3>1, <3>2
    <2>13. CASE Data!ListModules(w)
      <3> DEFINE r == [j EXCEPT !.pc = "volume", !.todo = db.rows, !.ids = db.rows]
      <3>1. CASE job' = [job EXCEPT ![w] = r]
        <4>1. /\ r \in RunJobs /\ r.pc = "volume" /\ r.todo = r.ids /\ r.since = j.since
          BY <1>0, <2>0 DEF RunJobs, RunCalls
        <4> HIDE DEF r, j
        <4> QED
          BY <2>3, <3>1, <4>1
      <3>2. CASE Data!Failed(w, "finish")
        <4>1. job' = [job EXCEPT ![w] = [j EXCEPT !.pc = "finish", !.failed = TRUE]]
          BY <2>8, <3>2
        <4>2. "finish" \in RunCalls /\ TRUE \in BOOLEAN
          BY DEF RunCalls
        <4> HIDE DEF j
        <4> QED
          BY <2>5, <4>1, <4>2
      <3> QED
        BY <2>13, <3>1, <3>2 DEF Data!ListModules
    <2>14. ASSUME Data!BackupVolume(w) \/ Data!Reinstall(w) PROVE JobsInv'
      <3>1. ASSUME NEW f \in BOOLEAN, NEW m,
                   job' = [job EXCEPT ![w] = [j EXCEPT !.pc = "volume", !.todo = @ \ {m},
                                                       !.failed = f]]
            PROVE  JobsInv'
        <4> DEFINE r == [j EXCEPT !.pc = "volume", !.todo = @ \ {m}, !.failed = f]
        <4>1. /\ r \in RunJobs /\ r.pc = "volume" /\ r.todo = j.todo \ {m} /\ r.ids = j.ids
              /\ r.since = j.since
          BY <2>0, <3>1 DEF RunJobs, RunCalls
        <4>2. job' = [job EXCEPT ![w] = r] /\ j.todo \subseteq j.ids
          BY <2>0, <3>1 DEF JobInv
        <4> HIDE DEF r, j
        <4> QED
          BY <2>3, <4>1, <4>2
      <3>2. \E f \in BOOLEAN : \E m :
               job' = [job EXCEPT ![w] = [j EXCEPT !.pc = "volume", !.todo = @ \ {m},
                                                   !.failed = f]]
        <4>1. CASE Data!BackupVolume(w)
          <5>1. \/ job' = [job EXCEPT ![w] = [j EXCEPT !.pc = "volume",
                                 !.todo = @ \ {Data!Current(w)}, !.failed = j.failed]]
                \/ job' = [job EXCEPT ![w] = [j EXCEPT !.pc = "volume",
                                 !.todo = @ \ {Data!Current(w)}, !.failed = TRUE]]
            <6>1. j.pc = "volume"
              BY <4>1 DEF Data!BackupVolume
            <6>2. \/ job' = [job EXCEPT ![w] = [j EXCEPT !.todo = @ \ {Data!Current(w)}]]
                  \/ job' = [job EXCEPT ![w] = [j EXCEPT !.todo = @ \ {Data!Current(w)},
                                                         !.failed = TRUE]]
              BY <4>1 DEF Data!BackupVolume
            <6>3. /\ [j EXCEPT !.todo = @ \ {Data!Current(w)}] =
                         [j EXCEPT !.pc = "volume", !.todo = @ \ {Data!Current(w)},
                                   !.failed = j.failed]
                  /\ [j EXCEPT !.todo = @ \ {Data!Current(w)}, !.failed = TRUE] =
                         [j EXCEPT !.pc = "volume", !.todo = @ \ {Data!Current(w)},
                                   !.failed = TRUE]
              BY <2>0, <6>1 DEF RunJobs
            <6> HIDE DEF j
            <6> QED
              BY <6>2, <6>3
          <5> QED
            BY <2>6, <5>1
        <4>2. CASE Data!Reinstall(w)
          <5>1. \/ job' = [job EXCEPT ![w] = [j EXCEPT !.pc = "volume",
                                 !.todo = @ \ {Data!Current(w)}, !.failed = j.failed]]
                \/ job' = [job EXCEPT ![w] = [j EXCEPT !.pc = "volume",
                                 !.todo = @ \ {Data!Current(w)}, !.failed = TRUE]]
            BY <1>1, <2>0, <4>2 DEF Data!Reinstall, RunJobs
          <5> QED
            BY <2>6, <5>1
        <4> QED
          BY <2>14, <4>1, <4>2
      <3> QED
        BY <3>1, <3>2
    <2>15. CASE Data!SnapshotBeforeRestore(w)
      <3>1. w \notin Backups
        BY <2>0, <2>15 DEF Data!SnapshotBeforeRestore
      <3> QED
        BY <2>5, <2>6, <2>7, <2>8, <2>15, <3>1 DEF Data!SnapshotBeforeRestore, RunCalls
    <2>16. CASE Data!ReplaceDatabase(w)
      BY <2>5, <2>6, <2>7, <2>8, <2>16 DEF Data!ReplaceDatabase, RunCalls
    <2>17. CASE Data!RestoreVolume(w)
      <3>1. w \notin Backups /\ j.todo # {}
        BY <1>1, <2>17 DEF Data!RestoreVolume
      <3> HIDE DEF j
      <3> QED
        BY <2>5, <2>6, <2>7, <2>8, <2>17, <3>1 DEF Data!RestoreVolume, RunCalls
    <2>18. CASE Data!EndOfList(w)
      BY <2>5, <2>6, <2>7, <2>18 DEF Data!EndOfList, RunCalls
    <2>19. CASE Data!finish(w)
      BY <2>4, <2>19 DEF Data!finish
    <2> QED
      BY <1>9, <2>9, <2>10, <2>11, <2>12, <2>13, <2>14, <2>15, <2>16, <2>17, <2>18, <2>19, Zenon
         DEF Data!Run
  <1>10. CASE UNCHANGED Data!vars
    BY <1>0, <1>3, <1>10 DEF Data!vars, Data!Times
  <1> QED
    BY <1>5, <1>6, <1>7, <1>8, <1>9, <1>10, Zenon DEF Data!Next

\* A start leaves the data alone until it has saved what it found.
LEMMA StartStep ==
    ASSUME Data!DataConstants, DataInv, TablesInv', [Data!Next]_Data!vars
    PROVE  StartInv'
  <1>0. /\ TablesInv /\ JobsInv /\ StartInv /\ booted.at \in Nat /\ clock \in Nat
        /\ booted.schema \in Nat /\ db.schema \in Nat /\ code \in Nat
    <2>1. TablesInv /\ JobsInv /\ StartInv
      BY DEF DataInv
    <2>2. Data!Times \subseteq Nat /\ Data!Schemas \subseteq Nat
            /\ 1 .. PlatformVersions \subseteq Nat
      BY Data!DataConstants DEF Data!Times, Data!Schemas
    <2>3. code \in 1 .. PlatformVersions /\ clock \in Data!Times
      BY <2>1 DEF TablesInv
    <2>4. booted.at \in Data!Times /\ booted.schema \in Data!Schemas
      BY <2>1 DEF TablesInv
    <2>5. db.schema \in Data!Schemas
      BY <2>1 DEF TablesInv, Data!Databases
    <2> QED
      BY <2>1, <2>2, <2>3, <2>4, <2>5
  <1>1. CASE Data!Boot
    <2>1. booted' = [at |-> clock, schema |-> db.schema] /\ phase' = "check" /\ db' = db
          /\ clock' = clock
      BY <1>1 DEF Data!Boot
    <2> QED
      BY <1>0, <2>1 DEF StartInv
  <1>2. CASE Data!CheckSchema
    BY <1>0, <1>2 DEF Data!CheckSchema, StartInv
  <1>3. CASE Data!SnapshotBeforeUpgrade
    <2>1. CASE Data!Snapshot /\ phase' = "migrate"
      <3>1. /\ snapshots'[Len(snapshots')] = [schema |-> db.schema, at |-> clock]
            /\ Len(snapshots') > 0
        BY <1>0, <2>1, SnapshotTaken, Data!DataConstants
      <3> QED
        BY <1>0, <1>3, <2>1, <3>1 DEF Data!SnapshotBeforeUpgrade, StartInv, SavedSince
    <2>2. CASE phase' = "down"
      BY <1>0, <1>3, <2>2 DEF Data!SnapshotBeforeUpgrade, StartInv
    <2> QED
      BY <1>3, <2>1, <2>2 DEF Data!SnapshotBeforeUpgrade
  <1>4. CASE Data!ApplyMigration
    <2>1. \/ db' = [db EXCEPT !.schema = db.schema + 1]
             /\ phase' = IF db.schema + 1 = code THEN "record" ELSE "migrate"
          \/ phase' = "down"
      BY <1>4, Zenon DEF Data!ApplyMigration
    <2>2. phase = "migrate" /\ UNCHANGED <<code, snapshots, clock, booted>>
      BY <1>4 DEF Data!ApplyMigration
    <2>3. phase' \notin {"check", "snapshot"}
      BY <2>1
    <2>4. phase' = "migrate" => db'.schema < code'
      <3>1. phase' = "migrate" => db'.schema = db.schema + 1 /\ db.schema + 1 # code
        BY <1>0, <2>1 DEF TablesInv, Data!Databases
      <3>2. db.schema < code
        BY <1>0, <2>2 DEF StartInv
      <3> QED
        BY <1>0, <2>2, <3>1, <3>2
    <2> QED
      BY <1>0, <2>2, <2>3, <2>4 DEF StartInv, SavedSince
  <1>5. CASE Data!RecordVersion
    <2>1. phase' \in {"down", "clear"} /\ UNCHANGED <<clock, booted>>
      BY <1>5 DEF Data!RecordVersion
    <2> QED
      BY <1>0, <2>1 DEF StartInv
  <1>6. CASE Data!ClearInterrupted
    <2>1. phase' = "serving" /\ UNCHANGED clock /\ booted' = Data!NotStarting
      BY <1>6 DEF Data!ClearInterrupted
    <2> QED
      BY <1>0, <2>1 DEF StartInv, Data!NotStarting
  <1>7. ASSUME Data!Crash \/ Data!ChangeVersion PROVE StartInv'
    <2>1. phase' = "down" /\ UNCHANGED <<clock, booted>>
      BY <1>7 DEF Data!Crash, Data!ChangeVersion
    <2> QED
      BY <1>0, <2>1 DEF StartInv
  <1>8. CASE Data!WriteData
    <2>1. UNCHANGED <<code, phase, db, snapshots, booted>> /\ clock' = clock + 1
      BY <1>8 DEF Data!WriteData, Data!Tick
    <2>2. booted.at <= clock + 1
      BY <1>0 DEF StartInv
    <2> QED
      BY <1>0, <2>1, <2>2 DEF StartInv, SavedSince
  <1>9. ASSUME phase' = "serving", clock' \in {clock, clock + 1}, UNCHANGED booted
        PROVE  StartInv'
    <2>1. booted.at <= clock'
      BY <1>0, <1>9 DEF StartInv
    <2> QED
      BY <1>9, <2>1 DEF StartInv
  <1>10. ASSUME Data!LifecycleOperation \/ Data!UpdateSnapshot PROVE StartInv'
    BY <1>9, <1>10 DEF Data!LifecycleOperation, Data!UpdateSnapshot, Data!Tick
  <1>11. ASSUME NEW w \in Data!Workers, Data!Request(w) \/ Data!Run(w) PROVE StartInv'
    <2>1. job[w].pc # "idle" => phase = "serving"
      BY <1>0 DEF JobsInv, JobInv
    <2>2. CASE Data!Request(w)
      BY <1>9, <2>2 DEF Data!Request
    <2>3. CASE Data!Run(w)
      BY <1>9, <2>1, <2>3 DEF Data!Run, Data!startRun, Data!rcloneRemote, Data!DumpDatabase,
         Data!UploadDump, Data!ListModules, Data!BackupVolume, Data!SnapshotBeforeRestore,
         Data!ReplaceDatabase, Data!RestoreVolume, Data!Reinstall, Data!EndOfList, Data!finish
    <2> QED
      BY <1>11, <2>2, <2>3
  <1>12. CASE UNCHANGED Data!vars
    BY <1>0, <1>12 DEF Data!vars, StartInv, SavedSince
  <1> QED
    BY <1>1, <1>2, <1>3, <1>4, <1>5, <1>6, <1>7, <1>8, <1>10, <1>11, <1>12, Zenon DEF Data!Next,
       Data!Startup

\* The newest snapshot only becomes newer.
LEMMA SavedStays ==
    ASSUME Data!DataConstants, DataInv, [Data!Next]_Data!vars, NEW t \in Data!Times, t <= clock,
           SavedSince(t)
    PROVE  SavedSince(t)'
  <1>0. TablesInv /\ clock \in Nat /\ t \in Nat
    BY Data!DataConstants DEF DataInv, TablesInv, Data!Times
  <1>1. CASE Data!Snapshot
    <2>1. Len(snapshots') > 0 /\ snapshots'[Len(snapshots')].at = clock
      BY <1>0, <1>1, SnapshotTaken, Data!DataConstants
    <2> QED
      BY <1>0, <2>1 DEF SavedSince
  <1>2. CASE UNCHANGED snapshots
    BY <1>2 DEF SavedSince
  <1>3. Data!Snapshot \/ UNCHANGED snapshots
    <2>1. CASE UNCHANGED Data!vars
      BY <2>1 DEF Data!vars
    <2>2. CASE Data!Startup
      BY <2>2 DEF Data!Startup, Data!Boot, Data!CheckSchema, Data!SnapshotBeforeUpgrade,
         Data!ApplyMigration, Data!RecordVersion, Data!ClearInterrupted
    <2>3. ASSUME NEW w \in Data!Workers, Data!Request(w) \/ Data!Run(w)
          PROVE  Data!Snapshot \/ UNCHANGED snapshots
      BY <2>3 DEF Data!Request, Data!Run, Data!startRun, Data!rcloneRemote, Data!DumpDatabase,
         Data!UploadDump, Data!ListModules, Data!BackupVolume, Data!SnapshotBeforeRestore,
         Data!ReplaceDatabase, Data!RestoreVolume, Data!Reinstall, Data!EndOfList, Data!finish
    <2>4. CASE Data!Crash \/ Data!ChangeVersion \/ Data!WriteData \/ Data!LifecycleOperation
                 \/ Data!UpdateSnapshot
      BY <2>4 DEF Data!Crash, Data!ChangeVersion, Data!WriteData, Data!LifecycleOperation,
         Data!UpdateSnapshot
    <2> QED
      BY <2>1, <2>2, <2>3, <2>4, Zenon DEF Data!Next
  <1> QED
    BY <1>1, <1>2, <1>3

\* A run keeps the moment it began, or has just begun, or is over.
LEMMA OneRunMoves ==
    ASSUME JobsInv, [Data!Next]_Data!vars, NEW w \in Data!Workers
    PROVE  \/ job'[w] = job[w]
           \/ job'[w].pc \in {"idle", "start", "remote"}
           \/ job'[w].since = job[w].since /\ Data!Run(w)
  <1>1. job \in [Data!Workers -> RunJobs]
    BY DEF JobsInv
  <1>2. CASE UNCHANGED job
    BY <1>2
  <1>3. ASSUME NEW v \in Data!Workers, v # w, Data!Request(v) \/ Data!Run(v)
        PROVE  job'[w] = job[w]
    BY <1>1, <1>3 DEF Data!Request, Data!Run, Data!startRun, Data!rcloneRemote,
       Data!DumpDatabase, Data!UploadDump, Data!ListModules, Data!BackupVolume,
       Data!SnapshotBeforeRestore, Data!ReplaceDatabase, Data!RestoreVolume, Data!Reinstall,
       Data!EndOfList, Data!finish, Data!Goto, Data!Failed
  <1>4. CASE Data!Request(w)
    BY <1>1, <1>4 DEF Data!Request, Data!Idle
  <1>5. CASE Data!startRun(w)
    BY <1>1, <1>5 DEF Data!startRun, Data!Idle, RunJobs
  <1>6. CASE Data!finish(w)
    BY <1>1, <1>6 DEF Data!finish, Data!Idle
  <1>7. ASSUME Data!rcloneRemote(w) \/ Data!ListModules(w) \/ Data!SnapshotBeforeRestore(w)
                 \/ Data!ReplaceDatabase(w)
               \/ Data!RestoreVolume(w) \/ Data!EndOfList(w)
        PROVE  job'[w].since = job[w].since
    <2>1. \E n : Data!Goto(w, n) \/ Data!Failed(w, n)
               \/ job' = [job EXCEPT ![w].pc = n, ![w].todo = db.rows, ![w].ids = db.rows]
      BY <1>7 DEF Data!rcloneRemote, Data!ListModules, Data!SnapshotBeforeRestore,
         Data!ReplaceDatabase, Data!RestoreVolume, Data!EndOfList
    <2> QED
      BY <1>1, <2>1 DEF Data!Goto, Data!Failed, RunJobs
  <1>8. ASSUME Data!DumpDatabase(w) \/ Data!UploadDump(w) \/ Data!BackupVolume(w)
                 \/ Data!Reinstall(w)
        PROVE  job'[w].since = job[w].since
    BY <1>1, <1>8 DEF Data!DumpDatabase, Data!UploadDump, Data!BackupVolume, Data!Reinstall,
       RunJobs
  <1>9. CASE Data!Crash \/ Data!ChangeVersion
    BY <1>1, <1>9 DEF Data!Crash, Data!ChangeVersion, Data!Idle
  <1>10. CASE Data!Startup \/ Data!WriteData \/ Data!LifecycleOperation \/ Data!UpdateSnapshot
    BY <1>2, <1>10 DEF Data!Startup, Data!Boot, Data!CheckSchema, Data!SnapshotBeforeUpgrade,
       Data!ApplyMigration, Data!RecordVersion, Data!ClearInterrupted, Data!WriteData,
       Data!LifecycleOperation, Data!UpdateSnapshot
  <1>11. CASE Data!Request(w) \/ Data!Run(w)
    BY <1>4, <1>5, <1>6, <1>7, <1>8, <1>11, Zenon DEF Data!Run
  <1>12. CASE UNCHANGED Data!vars
    BY <1>2, <1>12 DEF Data!vars
  <1> QED
    BY <1>3, <1>9, <1>10, <1>11, <1>12, Zenon DEF Data!Next

\* A restore that is about to replace the database has a snapshot of its own time.
LEMMA RestoreStep ==
    ASSUME Data!DataConstants, DataInv, JobsInv', [Data!Next]_Data!vars
    PROVE  RestoreInv'
  <1> SUFFICES ASSUME NEW w \in Restores, job'[w].pc = "replace"
               PROVE  SavedSince(job[w].since)'
    BY DEF RestoreInv
  <1>0. /\ TablesInv /\ JobsInv /\ RestoreInv /\ w \in Data!Workers /\ clock \in Nat
        /\ job \in [Data!Workers -> RunJobs] /\ job[w].since \in Data!Times
        /\ job[w].since <= clock
    <2>1. TablesInv /\ JobsInv /\ RestoreInv /\ w \in Data!Workers
      BY DEF DataInv, Data!Workers
    <2>2. clock \in Nat
      BY <2>1, Data!DataConstants DEF TablesInv, Data!Times
    <2>3. job \in [Data!Workers -> RunJobs] /\ job[w].since <= clock
      BY <2>1 DEF JobsInv, JobInv
    <2>4. job[w].since \in Data!Times
      BY <2>1, <2>3 DEF RunJobs
    <2> QED
      BY <2>1, <2>2, <2>3, <2>4
  <1>1. job'[w] = job[w] \/ (job'[w].since = job[w].since /\ Data!Run(w))
    BY <1>0, OneRunMoves
  <1>2. CASE job'[w] = job[w]
    BY <1>0, <1>2, SavedStays DEF RestoreInv
  <1>3. CASE Data!Run(w) /\ job'[w].since = job[w].since
    <2>1. CASE Data!SnapshotBeforeRestore(w) /\ Data!Snapshot
      <3>1. Len(snapshots') > 0 /\ snapshots'[Len(snapshots')].at = clock
        BY <1>0, <2>1, SnapshotTaken, Data!DataConstants
      <3> QED
        BY <1>0, <1>3, <3>1 DEF SavedSince
    <2>2. ~Data!Snapshot \/ ~Data!SnapshotBeforeRestore(w) => job'[w].pc # "replace"
      <3>1. CASE Data!startRun(w)
        <4>1. \/ job' = [job EXCEPT ![w] = Data!Idle]
              \/ job' = [job EXCEPT ![w].pc = "remote", ![w].run = Len(runs) + 1,
                                    ![w].since = clock]
          BY <3>1, Zenon DEF Data!startRun
        <4>2. CASE job' = [job EXCEPT ![w] = Data!Idle]
          BY <1>0, <4>2 DEF Data!Idle
        <4>3. CASE job' = [job EXCEPT ![w].pc = "remote", ![w].run = Len(runs) + 1,
                                      ![w].since = clock]
          BY <1>0, <4>3 DEF RunJobs
        <4> QED
          BY <4>1, <4>2, <4>3
      <3>6. CASE Data!rcloneRemote(w)
        BY <1>0, <3>6 DEF Data!rcloneRemote, Data!Goto, Data!Failed, RunJobs
      <3>5. CASE Data!DumpDatabase(w) \/ Data!UploadDump(w)
        BY <1>0, <3>5 DEF Data!DumpDatabase, Data!UploadDump, Data!Goto, Data!Failed, RunJobs
      <3>2. CASE Data!ListModules(w) \/ Data!BackupVolume(w) \/ Data!ReplaceDatabase(w)
        BY <1>0, <3>2 DEF Data!ListModules, Data!BackupVolume, Data!ReplaceDatabase,
           Data!Goto, Data!Failed, RunJobs
      <3>3. CASE Data!RestoreVolume(w) \/ Data!Reinstall(w) \/ Data!EndOfList(w)
                 \/ Data!finish(w)
        BY <1>0, <3>3 DEF Data!RestoreVolume, Data!Reinstall, Data!EndOfList, Data!finish,
           Data!Goto, Data!Failed, Data!Idle, RunJobs
      <3>4. CASE Data!SnapshotBeforeRestore(w) /\ ~Data!Snapshot
        BY <1>0, <3>4 DEF Data!SnapshotBeforeRestore, Data!Goto, Data!Failed, RunJobs
      <3> QED
        BY <1>3, <3>1, <3>2, <3>3, <3>4, <3>5, <3>6, Zenon DEF Data!Run
    <2> QED
      BY <2>1, <2>2
  <1> QED
    BY <1>1, <1>2, <1>3

\* A new server has nothing to lose.
LEMMA Starts ==
    ASSUME Data!DataConstants, Data!Init
    PROVE  DataInv /\ BackupInv
  <1>1. /\ 0 \in Data!Times /\ 0 \in Data!Schemas /\ 1 \in 1 .. PlatformVersions
        /\ 0 \in 0 .. MaxFaults
        /\ 0 \in 0 .. MaxUpdates /\ 0 \in 0 .. MaxRuns /\ 0 <= keepSnapshots
    BY Data!DataConstants DEF Data!Times, Data!Schemas
  <1>2. TablesInv
    <2>1. db \in Data!Databases /\ booted \in [at : Data!Times, schema : Data!Schemas]
      BY <1>1 DEF Data!Init, Data!NotStarting, Data!Databases
    <2>2. runs \in Seq({"running", "success", "error"}) /\ Len(runs) = 0
      BY DEF Data!Init
    <2>3. snapshots \in Seq(SnapshotFiles) /\ Len(snapshots) = 0
      BY DEF Data!Init
    <2>4. bucket \in Buckets /\ vols \in [Modules -> Data!Volumes] /\ up \subseteq Modules
      BY DEF Data!Init, Buckets, Data!Volumes
    <2>5. Len(runs) <= MaxRuns /\ Len(snapshots) <= keepSnapshots
      BY <2>2, <2>3, Data!DataConstants
    <2> QED
      BY <1>1, <2>1, <2>2, <2>3, <2>4, <2>5 DEF Data!Init, TablesInv
  <1>3. /\ Data!Idle \in RunJobs /\ Data!Idle.pc = "idle" /\ Data!Idle.todo = {}
        /\ Data!Idle.ids = {}
        /\ Data!Idle.since = 0
    BY <1>1 DEF Data!Idle, RunJobs, RunCalls
  <1>4. job = [w \in Data!Workers |-> Data!Idle] /\ clock = 0
    BY DEF Data!Init
  <1>5. JobsInv
    BY <1>3, <1>4 DEF JobsInv, JobInv, Data!Workers
  <1>6. StartInv /\ RestoreInv
    BY <1>3, <1>4 DEF Data!Init, Data!NotStarting, StartInv, RestoreInv, Data!Workers
  <1>7. BackupInv
    BY <1>3, <1>4 DEF BackupInv, BackupOK, Data!Workers
  <1> QED
    BY <1>2, <1>5, <1>6, <1>7 DEF DataInv

\* The invariant of the data holds always.
LEMMA DataInvariant ==
    ASSUME Data!DataConstants
    PROVE  Data!Spec => []DataInv
  <1>1. Data!Init => DataInv
    BY Starts
  <1>2. DataInv /\ [Data!Next]_Data!vars => DataInv'
    <2> SUFFICES ASSUME DataInv, [Data!Next]_Data!vars PROVE DataInv'
      OBVIOUS
    <2>1. TablesInv'
      BY TablesStep
    <2>2. JobsInv'
      BY <2>1, JobsStep
    <2>3. StartInv'
      BY <2>1, StartStep
    <2>4. RestoreInv'
      BY <2>2, RestoreStep
    <2> QED
      BY <2>1, <2>2, <2>3, <2>4 DEF DataInv
  <1> QED
    BY <1>1, <1>2, PTL DEF Data!Spec

\* The platform's state, its disk, its bucket and its runs are always what the
\* program can read back.
THEOREM DataTypeCorrect ==
    ASSUME Data!DataConstants
    PROVE  Data!Spec => []Data!TypeOK
  <1>1. DataInv => Data!TypeOK
    <2> SUFFICES ASSUME DataInv PROVE Data!TypeOK
      OBVIOUS
    <2>1. TablesInv /\ JobsInv
      BY DEF DataInv
    <2>2. /\ \A r \in DOMAIN runs : runs[r] \in {"running", "success", "error"}
          /\ \A i \in DOMAIN snapshots : snapshots[i] \in SnapshotFiles
      BY <2>1 DEF TablesInv
    <2>3. /\ bucket.db \in Data!Dumps \union {None, Broken}
          /\ bucket.vols \in [Modules -> Data!Archives \union {None, Broken}]
      BY <2>1 DEF TablesInv, Buckets
    <2>4. \A w \in Data!Workers :
            /\ job[w].pc \in RunCalls /\ job[w].run \in 0 .. MaxRuns
            /\ job[w].todo \subseteq job[w].ids /\ job[w].ids \subseteq Modules
            /\ job[w].since \in Data!Times
      BY <2>1 DEF JobsInv, JobInv, RunJobs
    <2> QED
      BY <2>1, <2>2, <2>3, <2>4 DEF Data!TypeOK, TablesInv, RunCalls, SnapshotFiles
  <1> QED
    BY <1>1, DataInvariant, PTL

\* Whatever other snapshots are taken and pruned meanwhile, a restore that
\* replaces the database, and a migration that changes one that was in use,
\* find a snapshot on disk that is no older than they are: the newest one is
\* never pruned, and every later one is newer still.
THEOREM WayBackIsKept ==
    ASSUME Data!DataConstants
    PROVE  Data!Spec => Data!WayBack
  <1>1. DataInv /\ [Data!Next]_Data!vars => [Data!KeptWayBack]_Data!vars
    <2> SUFFICES ASSUME DataInv, [Data!Next]_Data!vars PROVE Data!KeptWayBack
      OBVIOUS
    <2>1. TablesInv /\ JobsInv /\ StartInv /\ RestoreInv
      BY DEF DataInv
    <2>2. Len(snapshots) \in Nat /\ DOMAIN snapshots = 1 .. Len(snapshots)
      BY <2>1 DEF TablesInv
    <2>3. ASSUME NEW w \in Restores, job[w].pc = "replace"
          PROVE  \E i \in DOMAIN snapshots : snapshots[i].at >= job[w].since
      <3>1. SavedSince(job[w].since)
        BY <2>1, <2>3 DEF RestoreInv
      <3>2. Len(snapshots) \in DOMAIN snapshots
        BY <2>2, <3>1 DEF SavedSince
      <3> QED
        BY <3>1, <3>2 DEF SavedSince
    <2>4. ASSUME phase = "migrate", booted.schema > 0
          PROVE  \E i \in DOMAIN snapshots :
                    snapshots[i].at >= booted.at /\ snapshots[i].schema = booted.schema
      <3>1. SavedSince(booted.at) /\ snapshots[Len(snapshots)].schema = booted.schema
        BY <2>1, <2>4 DEF StartInv
      <3>2. Len(snapshots) \in DOMAIN snapshots
        BY <2>2, <3>1 DEF SavedSince
      <3> QED
        BY <3>1, <3>2 DEF SavedSince
    <2> QED
      BY <2>3, <2>4 DEF Data!KeptWayBack
  <1> QED
    BY <1>1, DataInvariant, PTL DEF Data!Spec, Data!WayBack

\* Only a backup writes to the bucket: its dump, or the archive of a volume.
LEMMA BucketWritten ==
    ASSUME JobsInv, [Data!Next]_Data!vars, NEW w \in Backups, \A v \in Backups : v = w
    PROVE  UNCHANGED bucket \/ Data!UploadDump(w) \/ Data!BackupVolume(w)
  <1>1. ASSUME NEW v \in Data!Workers, Data!UploadDump(v) \/ Data!BackupVolume(v) PROVE v = w
    <2>1. v \in Backups
      BY <1>1 DEF Data!UploadDump, Data!BackupVolume, Data!Workers, JobsInv
    <2> QED
      BY <2>1
  <1>2. ASSUME NEW v \in Data!Workers, Data!Request(v) \/ Data!Run(v)
        PROVE  UNCHANGED bucket \/ Data!UploadDump(v) \/ Data!BackupVolume(v)
    BY <1>2 DEF Data!Request, Data!Run, Data!startRun, Data!rcloneRemote, Data!DumpDatabase,
       Data!ListModules, Data!SnapshotBeforeRestore, Data!ReplaceDatabase, Data!RestoreVolume,
       Data!Reinstall, Data!EndOfList, Data!finish
  <1>3. CASE Data!Startup \/ Data!Crash \/ Data!ChangeVersion \/ Data!WriteData
               \/ Data!LifecycleOperation \/ Data!UpdateSnapshot
    BY <1>3 DEF Data!Startup, Data!Boot, Data!CheckSchema, Data!SnapshotBeforeUpgrade,
       Data!ApplyMigration, Data!RecordVersion, Data!ClearInterrupted, Data!Crash,
       Data!ChangeVersion, Data!WriteData, Data!LifecycleOperation, Data!UpdateSnapshot
  <1>4. CASE UNCHANGED Data!vars
    BY <1>4 DEF Data!vars
  <1> QED
    BY <1>1, <1>2, <1>3, <1>4, Zenon DEF Data!Next

\* What a backup saves is of its own time, one part after the other.
LEMMA BackupStep ==
    ASSUME Data!DataConstants, DataInv, DataInv', BackupInv, [Data!Next]_Data!vars,
           NEW w \in Backups, \A v \in Backups : v = w
    PROVE  BackupOK(job[w])'
  <1>0. /\ TablesInv /\ TablesInv' /\ JobsInv /\ w \in Data!Workers /\ BackupOK(job[w])
        /\ job \in [Data!Workers -> RunJobs] /\ job[w] \in RunJobs /\ JobInv(job[w])
        /\ job[w].pc \notin {"snapshot", "replace", "reinstall"}
    BY DEF DataInv, BackupInv, JobsInv, Data!Workers
  <1>1. /\ job[w].since \in Nat /\ clock \in Nat /\ job[w].since <= clock
        /\ clock \in Data!Times /\ db \in Data!Databases /\ vols \in [Modules -> Data!Volumes]
        /\ bucket \in Buckets
    BY <1>0, Data!DataConstants DEF TablesInv, RunJobs, Data!Times, JobInv
  <1>2. CASE job'[w] = job[w] /\ UNCHANGED bucket
    BY <1>0, <1>2 DEF BackupOK, SavedDb, SavedVol
  <1>3. CASE job'[w].pc \in {"idle", "start", "remote", "dump"}
    BY <1>3 DEF BackupOK
  <1>4. CASE Data!DumpDatabase(w)
    <2>1. job' = [job EXCEPT ![w].pc = "upload", ![w].dump = [db |-> db, at |-> clock]]
      BY <1>4 DEF Data!DumpDatabase
    <2>2. /\ job'[w].pc = "upload" /\ job'[w].dump = [db |-> db, at |-> clock]
          /\ job'[w].since = job[w].since
      BY <1>0, <2>1 DEF RunJobs
    <2>3. job'[w].dump \in Data!Dumps /\ job'[w].dump.at >= job'[w].since
      BY <1>1, <2>2 DEF Data!Dumps
    <2> QED
      BY <2>2, <2>3 DEF BackupOK
  <1>5. CASE Data!UploadDump(w)
    <2>1. CASE bucket' = [bucket EXCEPT !.db = job[w].dump]
               /\ job' = [job EXCEPT ![w].pc = "list", ![w].dump = None]
      <3>1. job'[w].pc = "list" /\ job'[w].since = job[w].since
        BY <1>0, <2>1 DEF RunJobs
      <3>2. job[w].dump \in Data!Dumps /\ job[w].dump.at >= job[w].since
        BY <1>0, <1>5 DEF BackupOK, Data!UploadDump
      <3>3. bucket'.db = job[w].dump
        BY <1>1, <2>1 DEF Buckets
      <3> QED
        BY <3>1, <3>2, <3>3 DEF BackupOK, SavedDb
    <2>2. CASE job' = [job EXCEPT ![w].pc = "list", ![w].dump = None, ![w].failed = TRUE]
      <3>1. job'[w].pc = "list" /\ job'[w].failed
        BY <1>0, <2>2 DEF RunJobs
      <3> QED
        BY <3>1 DEF BackupOK
    <2> QED
      BY <1>5, <2>1, <2>2 DEF Data!UploadDump
  <1>6. ASSUME NEW n, Data!Failed(w, n), n = "finish" PROVE BackupOK(job[w])'
    <2>1. job'[w].pc = "finish" /\ job'[w].failed
      BY <1>0, <1>6 DEF Data!Failed, RunJobs
    <2> QED
      BY <2>1 DEF BackupOK
  <1>7. CASE Data!ListModules(w)
    <2>1. CASE job' = [job EXCEPT ![w].pc = "volume", ![w].todo = db.rows, ![w].ids = db.rows]
      <3>1. /\ job'[w].pc = "volume" /\ job'[w].ids = job'[w].todo
            /\ job'[w].since = job[w].since
        BY <1>0, <2>1 DEF RunJobs
      <3>2. job'[w].failed = job[w].failed
        BY <1>0, <2>1 DEF RunJobs
      <3>3. bucket' = bucket /\ job[w].pc = "list"
        BY <1>7 DEF Data!ListModules
      <3>4. ~job[w].failed => SavedDb(job[w])
        BY <1>0, <3>3 DEF BackupOK
      <3>5. ~job'[w].failed => SavedDb(job[w])'
        BY <3>1, <3>2, <3>3, <3>4 DEF SavedDb
      <3>6. job'[w].ids \ job'[w].todo = {}
        BY <3>1
      <3> QED
        BY <3>1, <3>5, <3>6 DEF BackupOK
    <2> QED
      BY <1>6, <1>7, <2>1 DEF Data!ListModules
  <1>8. CASE Data!BackupVolume(w)
    <2>0. PICK m \in job[w].todo : m = Data!Current(w)
      BY <1>8 DEF Data!BackupVolume, Data!Current
    <2>1. job[w].pc = "volume" /\ m \in Modules
      BY <1>0, <1>8, <2>0 DEF Data!BackupVolume, RunJobs
    <2>2. CASE bucket' = [bucket EXCEPT !.vols[m] = [volume |-> vols[m], at |-> clock]]
               /\ job' = [job EXCEPT ![w].todo = @ \ {m}]
      <3>0. job' = [job EXCEPT ![w] = [job[w] EXCEPT !.todo = job[w].todo \ {m}]]
        BY <1>0, <2>2
      <3>1. /\ job'[w].pc = "volume" /\ job'[w].ids = job[w].ids
            /\ job'[w].todo = job[w].todo \ {m} /\ job'[w].since = job[w].since
        BY <1>0, <2>1, <3>0 DEF RunJobs
      <3>2. job'[w].failed = job[w].failed
        BY <1>0, <2>2 DEF RunJobs
      <3>3. /\ bucket'.db = bucket.db
            /\ bucket'.vols[m] = [volume |-> vols[m], at |-> clock]
            /\ \A o \in Modules \ {m} : bucket'.vols[o] = bucket.vols[o]
        BY <1>1, <2>1, <2>2 DEF Buckets
      <3>4. SavedVol(job[w], m)'
        BY <1>1, <2>1, <3>1, <3>3 DEF SavedVol, Data!Archives
      <3>5. ~job[w].failed => SavedDb(job[w])
                              /\ \A o \in job[w].ids \ job[w].todo : SavedVol(job[w], o)
        BY <1>0, <2>1 DEF BackupOK
      <3>6. ~job'[w].failed => SavedDb(job[w])'
        BY <3>1, <3>2, <3>3, <3>5 DEF SavedDb
      <3>7. ASSUME ~job'[w].failed, NEW o \in job'[w].ids \ job'[w].todo
            PROVE  SavedVol(job[w], o)'
        <4>1. CASE o = m
          BY <3>4, <4>1 DEF SavedVol
        <4>2. CASE o # m
          <5>1. o \in Modules \ {m} /\ o \in job[w].ids \ job[w].todo
            BY <1>0, <3>1, <3>7, <4>2 DEF RunJobs
          <5> QED
            BY <3>1, <3>2, <3>3, <3>5, <3>7, <5>1 DEF SavedVol
        <4> QED
          BY <4>1, <4>2
      <3> QED
        BY <3>1, <3>6, <3>7 DEF BackupOK
    <2>3. CASE job' = [job EXCEPT ![w].todo = @ \ {m}, ![w].failed = TRUE]
      <3>1. job'[w].pc = "volume" /\ job'[w].failed
        BY <1>0, <2>1, <2>3 DEF RunJobs
      <3> QED
        BY <3>1 DEF BackupOK
    <2> QED
      BY <1>8, <2>0, <2>2, <2>3 DEF Data!BackupVolume
  <1>9. CASE Data!EndOfList(w)
    <2>1. /\ job[w].pc = "volume" /\ job[w].todo = {} /\ bucket' = bucket
          /\ job' = [job EXCEPT ![w].pc = "finish"]
      BY <1>9 DEF Data!EndOfList, Data!Goto
    <2>2. /\ job'[w].pc = "finish" /\ job'[w].ids = job[w].ids /\ job'[w].todo = {}
          /\ job'[w].since = job[w].since
      BY <1>0, <2>1 DEF RunJobs
    <2>3. job'[w].failed = job[w].failed
      BY <1>0, <2>1 DEF RunJobs
    <2>4. ~job[w].failed => SavedDb(job[w]) /\ \A o \in job[w].ids \ {} : SavedVol(job[w], o)
      BY <1>0, <2>1 DEF BackupOK
    <2>5. ~job'[w].failed => SavedDb(job[w])'
            /\ \A o \in job'[w].ids \ {} : SavedVol(job[w], o)'
      BY <2>1, <2>2, <2>3, <2>4 DEF SavedDb, SavedVol
    <2> QED
      BY <2>2, <2>5 DEF BackupOK
  <1>10. CASE Data!rcloneRemote(w)
    <2>1. CASE Data!Goto(w, "dump")
      <3>1. job'[w].pc = "dump"
        BY <1>0, <2>1 DEF Data!Goto, RunJobs
      <3> QED
        BY <1>3, <3>1
    <2> QED
      BY <1>6, <1>10, <2>1 DEF Data!rcloneRemote
  <1>11. CASE Data!Run(w)
    <2>1. CASE Data!startRun(w)
      <3>1. job'[w].pc \in {"idle", "remote"}
        BY <1>0, <2>1 DEF Data!startRun, Data!Idle, RunJobs
      <3> QED
        BY <1>3, <3>1
    <2>2. CASE Data!finish(w)
      <3>1. job'[w].pc = "idle"
        BY <1>0, <2>2 DEF Data!finish, Data!Idle
      <3> QED
        BY <1>3, <3>1
    <2>3. ~Data!SnapshotBeforeRestore(w) /\ ~Data!ReplaceDatabase(w) /\ ~Data!Reinstall(w)
      BY <1>0 DEF Data!SnapshotBeforeRestore, Data!ReplaceDatabase, Data!Reinstall
    <2>4. ~Data!RestoreVolume(w)
      BY Data!DataConstants DEF Data!RestoreVolume
    <2> QED
      BY <1>4, <1>5, <1>7, <1>8, <1>9, <1>10, <1>11, <2>1, <2>2, <2>3, <2>4, Zenon DEF Data!Run
  <1>12. CASE job'[w] = job[w]
    BY <1>0, <1>2, <1>5, <1>8, <1>12, BucketWritten
  <1> QED
    BY <1>0, <1>3, <1>11, <1>12, OneRunMoves

\* A backup that ends as a success has put a dump of the database and an
\* archive of every module it listed in the bucket, each of its own time, as
\* long as one backup runs at a time: nothing in the code sees to that, and two
\* that overlap replace each other's dump by an older one.
THEOREM BackupsHold ==
    ASSUME Data!DataConstants, \A v, w \in Backups : v = w
    PROVE  Data!Spec => []Data!BackupHolds
  <1>1. Data!Init => BackupInv
    BY Starts
  <1>2. DataInv /\ DataInv' /\ BackupInv /\ [Data!Next]_Data!vars => BackupInv'
    BY BackupStep DEF BackupInv
  <1>3. BackupInv => Data!BackupHolds
    <2> SUFFICES ASSUME BackupInv, NEW w \in Backups, job[w].pc = "finish", ~job[w].failed
                 PROVE  /\ bucket.db \notin {None, Broken} /\ bucket.db.at >= job[w].since
                        /\ \A m \in job[w].ids :
                            /\ bucket.vols[m] \notin {None, Broken}
                            /\ bucket.vols[m].at >= job[w].since
      BY DEF Data!BackupHolds
    <2>1. BackupOK(job[w])
      BY DEF BackupInv
    <2>2. SavedDb(job[w]) /\ \A m \in job[w].ids \ {} : SavedVol(job[w], m)
      BY <2>1 DEF BackupOK
    <2>3. None \notin Data!Dumps \union Data!Archives
            /\ Broken \notin Data!Dumps \union Data!Archives
      BY Data!DataConstants
    <2> QED
      BY <2>2, <2>3 DEF SavedDb, SavedVol
  <1> QED
    BY <1>1, <1>2, <1>3, DataInvariant, PTL DEF Data!Spec

\* Where no start is cut short, the version recorded is the one of the schema.
RecordedInv ==
    /\ phase \notin {"migrate", "record"} => db.schema = db.recorded
    /\ phase = "record" => db.schema = code
    /\ phase \in {"clear", "serving"} => db.schema <= code

\* Each step of a start that runs to its end, and of what goes on meanwhile.
LEMMA RecordedStep ==
    ASSUME Data!DataConstants, DataInv, RecordedInv, [Data!Next]_Data!vars, Restores = {},
           Faults \intersect {"crash", "migration", "db"} = {}
    PROVE  RecordedInv'
  <1>0. /\ TablesInv /\ JobsInv /\ StartInv /\ db \in Data!Databases
        /\ db.schema \in Nat /\ db.recorded \in Nat /\ code \in Nat
    <2>1. TablesInv /\ JobsInv /\ StartInv
      BY DEF DataInv
    <2>2. code \in 1 .. PlatformVersions /\ db \in Data!Databases
      BY <2>1 DEF TablesInv
    <2>3. db.schema \in Data!Schemas /\ db.recorded \in Data!Schemas
      BY <2>2 DEF Data!Databases
    <2> QED
      BY <2>1, <2>2, <2>3, Data!DataConstants DEF Data!Schemas
  <1>1. CASE Data!Boot
    BY <1>1 DEF Data!Boot, RecordedInv
  <1>2. CASE Data!CheckSchema
    BY <1>0, <1>2 DEF Data!CheckSchema, RecordedInv
  <1>3. CASE Data!SnapshotBeforeUpgrade
    BY <1>3 DEF Data!SnapshotBeforeUpgrade, RecordedInv
  <1>4. CASE Data!ApplyMigration
    <2>1. /\ db' = [db EXCEPT !.schema = db.schema + 1] /\ code' = code
          /\ phase' = IF db.schema + 1 = code THEN "record" ELSE "migrate"
      BY <1>4 DEF Data!ApplyMigration, Data!Fails
    <2>2. db'.schema = db.schema + 1
      BY <1>0, <2>1 DEF Data!Databases
    <2> QED
      BY <2>1, <2>2 DEF RecordedInv
  <1>5. CASE Data!RecordVersion
    <2>1. /\ db' = [db EXCEPT !.recorded = code] /\ phase' = "clear" /\ code' = code
          /\ phase = "record"
      BY <1>5 DEF Data!RecordVersion, Data!Fails
    <2>2. db'.recorded = code /\ db'.schema = db.schema
      BY <1>0, <2>1 DEF Data!Databases
    <2> QED
      BY <1>0, <2>1, <2>2 DEF RecordedInv
  <1>6. CASE Data!ClearInterrupted
    BY <1>6 DEF Data!ClearInterrupted, RecordedInv
  <1>7. CASE Data!ChangeVersion
    BY <1>7 DEF Data!ChangeVersion, RecordedInv
  <1>8. CASE Data!LifecycleOperation
    <2>1. \E rows : db' = [db EXCEPT !.rows = rows]
      BY <1>8 DEF Data!LifecycleOperation
    <2>2. db'.schema = db.schema /\ db'.recorded = db.recorded
      BY <1>0, <2>1 DEF Data!Databases
    <2> QED
      BY <1>8, <2>2 DEF Data!LifecycleOperation, RecordedInv
  <1>9. CASE UNCHANGED <<code, phase, db>>
    BY <1>9 DEF RecordedInv
  <1>10. ASSUME NEW w \in Data!Workers, Data!Request(w) \/ Data!Run(w)
         PROVE  UNCHANGED <<code, phase, db>>
    <2>1. ~Data!ReplaceDatabase(w)
      BY <1>0 DEF Data!ReplaceDatabase, Data!Workers, JobsInv
    <2> QED
      BY <1>10, <2>1 DEF Data!Request, Data!Run, Data!startRun, Data!rcloneRemote,
         Data!DumpDatabase, Data!UploadDump, Data!ListModules, Data!BackupVolume,
         Data!SnapshotBeforeRestore, Data!RestoreVolume, Data!Reinstall, Data!EndOfList,
         Data!finish
  <1>11. CASE Data!WriteData \/ Data!UpdateSnapshot
    BY <1>9, <1>11 DEF Data!WriteData, Data!UpdateSnapshot
  <1>12. ~Data!Crash
    BY DEF Data!Crash, Data!Fails
  <1>13. CASE UNCHANGED Data!vars
    BY <1>9, <1>13 DEF Data!vars
  <1> QED
    BY <1>1, <1>2, <1>3, <1>4, <1>5, <1>6, <1>7, <1>8, <1>9, <1>10, <1>11, <1>12, <1>13, Zenon
    DEF Data!Next, Data!Startup

\* Older code never serves a schema it does not know, as long as every start
\* that has begun to migrate goes on to record its version: whichever version
\* the admin installs after which, and whatever else fails. What the theorem
\* excludes is what breaks NoDowngrades: a start cut short in between, and a
\* restore, which brings a schema of its own.
THEOREM CompletedStartsPreventDowngrades ==
    ASSUME Data!DataConstants, Restores = {},
           Faults \intersect {"crash", "migration", "db"} = {}
    PROVE  Data!Spec => []Data!NoDowngrades
  <1>1. Data!Init => RecordedInv
    BY DEF Data!Init, RecordedInv
  <1>2. DataInv /\ RecordedInv /\ [Data!Next]_Data!vars => RecordedInv'
    BY RecordedStep
  <1>3. RecordedInv => Data!NoDowngrades
    BY DEF RecordedInv, Data!NoDowngrades
  <1> QED
    BY <1>1, <1>2, <1>3, DataInvariant, PTL DEF Data!Spec

=============================================================================
