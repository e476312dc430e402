----------------------- MODULE ModuleLifecycle_proofs -----------------------
(***************************************************************************)
(* Proofs about ModuleLifecycle, for any set of modules, requests, secrets *)
(* and faults.                                                             *)
(***************************************************************************)
EXTENDS ModuleLifecycle, TLAPS

\* A generated secret is a secret that nothing in the system holds.
LEMMA randomSecretType ==
    ASSUME ~(Secrets \subseteq SecretsInUse)
    PROVE  randomSecret \in Secrets /\ randomSecret \notin SecretsInUse
  BY DEF randomSecret

\* What Install merges is a secret or an empty field.
LEMMA mergedSecretType ==
    ASSUME TypeOK, NEW m \in Modules, NEW typed \in Typed,
           NEW previous \in previousSecrets(m)
    PROVE  mergedSecret(previous, typed) \in MaybeSecret
  BY LifecycleConstants DEF mergedSecret, previousSecrets, TypeOK, MaybeSecret

\* Whatever call comes next, and however an operation ends, it stays well typed.
TasksOK ==
    /\ inFlight \in SUBSET Modules
    /\ op \in [Workers -> Ops] /\ pc \in [Workers -> PCs] /\ mod \in [Workers -> Modules]
    /\ cfg \in [Workers -> MaybeSecret] /\ tgt \in [Workers -> {"private", "public"}]

LEMMA TasksTyped ==
    ASSUME TypeOK, NEW w \in Workers, Abort(w) \/ Return(w) \/ \E p \in PCs : Goto(w, p)
    PROVE  TasksOK'
  <1>0. TasksOK
    BY DEF TasksOK, TypeOK
  <1>1. ASSUME Return(w) PROVE TasksOK'
    BY <1>0, <1>1 DEF TasksOK, Return, Ops, PCs, MaybeSecret
  <1>2. ASSUME NEW p \in PCs, Goto(w, p) PROVE TasksOK'
    BY <1>0, <1>2 DEF TasksOK, Goto
  <1>3. "fail" \in PCs
    BY DEF PCs
  <1> QED
    BY <1>1, <1>2, <1>3, Zenon DEF Abort

\* Every action keeps every variable in its type.
LEMMA TypeStep == TypeOK /\ [Next]_vars => TypeOK'
  <1> SUFFICES ASSUME TypeOK, [Next]_vars PROVE TypeOK'
    OBVIOUS
  <1> USE DEF TypeOK, MaybeSecret, Statuses, Ops, PCs, rowVars, hostVars, nginxVars
  <1>1. ASSUME NEW w \in Workers, Install(w) PROVE TypeOK'
    BY <1>1, mergedSecretType DEF Install, beginOp
  <1>2. ASSUME NEW w \in Workers, Enable(w) \/ Disable(w) \/ Uninstall(w) PROVE TypeOK'
    BY <1>2 DEF Enable, Disable, Uninstall, beginOp
  <1>3. ASSUME NEW w \in Workers, SetVisibility(w) PROVE TypeOK'
    BY <1>3 DEF SetVisibility
  <1>4. ASSUME NEW w \in Workers, RecordInstalling(w) PROVE TypeOK'
    BY <1>4 DEF RecordInstalling, Goto, Return
  <1>5. ASSUME NEW w \in Workers, RenderCompose(w) PROVE TypeOK'
    BY <1>5, randomSecretType DEF RenderCompose, Goto
  <1>6. ASSUME NEW w \in Workers, ComposeUp(w) PROVE TypeOK'
    <2>1. afterUp(mod[w]) \in PCs
      BY DEF afterUp, afterRoutes
    <2>2. TasksOK'
      <3>1. Abort(w) \/ Goto(w, afterUp(mod[w]))
        BY <1>6, Zenon DEF ComposeUp
      <3> QED
        BY <2>1, <3>1, TasksTyped
    <2>3. ctr' \in [Modules -> MaybeSecret] /\ vol' \in [Modules -> MaybeSecret]
      BY <1>6 DEF ComposeUp
    <2>4. UNCHANGED <<rowVars, dir, nginxVars>>
      BY <1>6 DEF ComposeUp
    <2> QED
      BY <2>2, <2>3, <2>4 DEF TasksOK
  <1>7. ASSUME NEW w \in Workers, RouteTargets(w) PROVE TypeOK'
    <2>1. TasksOK'
      <3>1. CASE Abort(w)
        BY <3>1, TasksTyped
      <3>2. CASE ~Abort(w)
        BY <1>7, <3>2 DEF RouteTargets, TasksOK
      <3> QED
        BY <3>1, <3>2
    <2>2. UNCHANGED <<rowVars, hostVars, nginxVars>>
      BY <1>7 DEF RouteTargets
    <2> QED
      BY <2>1, <2>2 DEF TasksOK
  <1>8. ASSUME NEW w \in Workers, SetRoutes(w) PROVE TypeOK'
    <2>1. TasksOK'
      <3>1. Abort(w) \/ Goto(w, "loadRoutes")
        BY <1>8, Zenon DEF SetRoutes
      <3> QED
        BY <3>1, TasksTyped DEF Reloads
    <2>2. /\ vhost' \in [Modules -> {"none", "private", "public"}]
          /\ UNCHANGED <<rowVars, hostVars, snippet, liveHost, livePath>>
      BY <1>8 DEF SetRoutes
    <2> QED
      BY <2>1, <2>2 DEF TasksOK
  <1>9. ASSUME NEW w \in Workers, SetPathRoutes(w) PROVE TypeOK'
    <2>1. TasksOK'
      <3>1. Abort(w) \/ Goto(w, "loadPaths")
        BY <1>9, Zenon DEF SetPathRoutes
      <3> QED
        BY <3>1, TasksTyped DEF Reloads
    <2>2. /\ snippet' \in [Modules -> {"none", "portal"}]
          /\ UNCHANGED <<rowVars, hostVars, vhost, liveHost, livePath>>
      BY <1>9 DEF SetPathRoutes
    <2> QED
      BY <2>1, <2>2 DEF TasksOK
  <1>10. ASSUME NEW w \in Workers, RecordOutcome(w) PROVE TypeOK'
    BY <1>10 DEF RecordOutcome, setStatus, Goto, Return, Abort
  <1>11. ASSUME NEW w \in Workers, markError(w) PROVE TypeOK'
    BY <1>11 DEF markError, setStatus, Return
  <1>12. ASSUME NEW w \in Workers, RemoveRoutes(w) PROVE TypeOK'
    <2>1. TasksOK'
      <3>1. (\E p \in {"unpath", "unloadRoutes"} : Goto(w, p)) \/ Return(w)
        BY <1>12, Zenon DEF RemoveRoutes
      <3> QED
        BY <3>1, TasksTyped DEF Reloads
    <2>2. /\ vhost' \in [Modules -> {"none", "private", "public"}]
          /\ UNCHANGED <<rowVars, hostVars, snippet, liveHost, livePath>>
      BY <1>12 DEF RemoveRoutes
    <2> QED
      BY <2>1, <2>2 DEF TasksOK
  <1>13. ASSUME NEW w \in Workers, RemovePathRoutes(w) PROVE TypeOK'
    <2>1. TasksOK'
      <3>1. (\E p \in {"down", "unloadPaths"} : Goto(w, p)) \/ Return(w)
        BY <1>13, Zenon DEF RemovePathRoutes
      <3> QED
        BY <3>1, TasksTyped DEF Reloads
    <2>2. /\ snippet' \in [Modules -> {"none", "portal"}]
          /\ UNCHANGED <<rowVars, hostVars, vhost, liveHost, livePath>>
      BY <1>13 DEF RemovePathRoutes
    <2> QED
      BY <2>1, <2>2 DEF TasksOK
  <1>21. ASSUME NEW w \in Workers, ReloadNginx(w) PROVE TypeOK'
    <2>1. TasksOK'
      <3>1. afterReload(w) \in PCs
        BY <1>21 DEF ReloadNginx, Reloads, afterReload, afterRoutes
      <3>2. Abort(w) \/ Return(w) \/ Goto(w, afterReload(w))
        BY <1>21, Zenon DEF ReloadNginx, Reloaded
      <3> QED
        BY <3>1, <3>2, TasksTyped
    <2>2. /\ liveHost' \in {liveHost, vhost}
          /\ livePath' \in {livePath, snippet}
          /\ UNCHANGED <<rowVars, hostVars, vhost, snippet>>
      BY <1>21 DEF ReloadNginx
    <2> QED
      BY <2>1, <2>2 DEF TasksOK
  <1>14. ASSUME NEW w \in Workers, ComposeDown(w) PROVE TypeOK'
    <2>1. TasksOK'
      <3>1. (\E p \in {"finish", "rmdir"} : Goto(w, p)) \/ Return(w)
        BY <1>14, Zenon DEF ComposeDown
      <3> QED
        BY <3>1, TasksTyped
    <2>2. ctr' \in [Modules -> MaybeSecret]
      BY <1>14 DEF ComposeDown
    <2>3. UNCHANGED <<rowVars, dir, vol, nginxVars>>
      BY <1>14 DEF ComposeDown
    <2> QED
      BY <2>1, <2>2, <2>3 DEF TasksOK
  <1>15. ASSUME NEW w \in Workers, RemoveDir(w) PROVE TypeOK'
    <2>1. CASE Goto(w, "archive")
      BY <1>15, <2>1 DEF RemoveDir, Goto, Return
    <2>2. CASE Return(w)
      BY <1>15, <2>2 DEF RemoveDir, Goto, Return
    <2> QED
      BY <1>15, <2>1, <2>2 DEF RemoveDir
  <1>16. ASSUME NEW w \in Workers, ArchiveConfig(w) PROVE TypeOK'
    BY <1>16 DEF ArchiveConfig, Goto, Return
  <1>17. ASSUME NEW w \in Workers, DeleteRow(w) PROVE TypeOK'
    BY <1>17 DEF DeleteRow, Return
  <1>18. ASSUME NEW w \in Workers, SaveVisibility(w) PROVE TypeOK'
    BY <1>18 DEF SaveVisibility, Goto, Return
  <1>19. CASE Crash
    BY <1>19 DEF Crash
  <1>20. CASE UNCHANGED vars
    BY <1>20 DEF vars, taskVars
  <1> HIDE DEF TypeOK
  <1> QED
    BY <1>1, <1>2, <1>3, <1>4, <1>5, <1>6, <1>7, <1>8, <1>9, <1>10, <1>11, <1>12,
       <1>13, <1>14, <1>15, <1>16, <1>17, <1>18, <1>19, <1>20, <1>21 DEF Next, Request, Step

\* Every variable has its type, in every reachable state: no handler path
\* leaves a row, a file or a request in a form the others do not expect.
THEOREM TypeCorrect == Spec => []TypeOK
  <1>1. Init => TypeOK
    BY DEF Init, TypeOK, MaybeSecret, Statuses, Ops, PCs
  <1> QED
    BY <1>1, TypeStep, PTL DEF Spec

----------------------------------------------------------------------------
(* Control: where an operation can be, and who holds which module.         *)

CallsOf(o, c) ==
    /\ o = "none" => c = "idle"
    /\ o = "install" => c \in {"record", "render", "up", "targets", "routes", "loadRoutes",
                             "paths", "loadPaths", "finish", "fail"}
    /\ o = "enable" => c \in {"up", "targets", "routes", "loadRoutes", "paths", "loadPaths",
                            "finish"}
    /\ o = "disable" => c \in {"unroute", "unloadRoutes", "unpath", "unloadPaths", "down",
                             "finish"}
    /\ o = "uninstall" => c \in {"unroute", "unloadRoutes", "unpath", "unloadPaths", "down",
                               "rmdir", "archive", "delete"}
    /\ o = "visibility" => c \in {"save", "targets", "routes", "loadRoutes"}

ControlInv == \A w \in Workers : CallsOf(op[w], pc[w])

\* Every action leaves each request at a call its operation makes.
LEMMA ControlStep == TypeOK /\ ControlInv /\ [Next]_vars => ControlInv'
  <1> SUFFICES ASSUME TypeOK, ControlInv, [Next]_vars PROVE ControlInv'
    OBVIOUS
  <1> USE DEF ControlInv, TypeOK, CallsOf, Ops, PCs, Reloads
  <1>1. ASSUME NEW w \in Workers, Request(w) PROVE ControlInv'
    BY <1>1 DEF Request, Install, Enable, Disable, Uninstall, SetVisibility, beginOp
  <1>2. ASSUME NEW w \in Workers, RecordInstalling(w) \/ RenderCompose(w) PROVE ControlInv'
    BY <1>2 DEF RecordInstalling, RenderCompose, Goto, Return
  <1>3. ASSUME NEW w \in Workers, ComposeUp(w) PROVE ControlInv'
    BY <1>3 DEF ComposeUp, Goto, Return, Abort, afterUp, afterRoutes
  <1>4. ASSUME NEW w \in Workers, RouteTargets(w) PROVE ControlInv'
    BY <1>4 DEF RouteTargets, Goto, Return, Abort
  <1>5. ASSUME NEW w \in Workers, SetRoutes(w) PROVE ControlInv'
    BY <1>5 DEF SetRoutes, Goto, Return, Abort
  <1>6. ASSUME NEW w \in Workers, SetPathRoutes(w) PROVE ControlInv'
    BY <1>6 DEF SetPathRoutes, Goto, Return, Abort
  <1>7. ASSUME NEW w \in Workers, RecordOutcome(w) PROVE ControlInv'
    BY <1>7 DEF RecordOutcome, Goto, Return, Abort
  <1>8. ASSUME NEW w \in Workers, markError(w) \/ DeleteRow(w) PROVE ControlInv'
    BY <1>8 DEF markError, DeleteRow, Return
  <1>9. ASSUME NEW w \in Workers, RemoveRoutes(w) \/ RemovePathRoutes(w) PROVE ControlInv'
    BY <1>9 DEF RemoveRoutes, RemovePathRoutes, Goto, Return
  <1>10. ASSUME NEW w \in Workers, ComposeDown(w) PROVE ControlInv'
    BY <1>10 DEF ComposeDown, Goto, Return
  <1>11. ASSUME NEW w \in Workers, RemoveDir(w) \/ ArchiveConfig(w) PROVE ControlInv'
    BY <1>11 DEF RemoveDir, ArchiveConfig, Goto, Return
  <1>12. ASSUME NEW w \in Workers, SaveVisibility(w) PROVE ControlInv'
    BY <1>12 DEF SaveVisibility, Goto, Return
  <1>13. CASE Crash
    BY <1>13 DEF Crash
  <1>14. CASE UNCHANGED vars
    BY <1>14 DEF vars, taskVars
  <1>15. ASSUME NEW w \in Workers, ReloadNginx(w) PROVE ControlInv'
    BY <1>15 DEF ReloadNginx, Reloaded, afterReload, afterRoutes, Goto, Return, Abort
  <1> HIDE DEF ControlInv, TypeOK
  <1> QED
    BY <1>1, <1>2, <1>3, <1>4, <1>5, <1>6, <1>7, <1>8, <1>9, <1>10, <1>11, <1>12,
       <1>13, <1>14, <1>15 DEF Next, Step

(***************************************************************************)
(* What a step does to the claim is one of four things, and the claim is   *)
(* all that mutual exclusion depends on: every call either moves its       *)
(* request along without touching the claim or ends it.                    *)
(***************************************************************************)
Moves(w) ==
    /\ op' = op
    /\ mod' = mod
    /\ inFlight' = inFlight

Ends(w) ==
    /\ op' = [op EXCEPT ![w] = "none"]
    /\ mod' = mod
    /\ inFlight' = IF op[w] = "visibility" THEN inFlight ELSE inFlight \ {mod[w]}

\* A call is made by a request under way, which it moves along or ends.
LEMMA StepMovesOrEnds ==
    ASSUME NEW w \in Workers, Step(w)
    PROVE  /\ pc[w] # "idle"
           /\ Moves(w) \/ Ends(w)
  <1> USE DEF Moves, Ends, Goto, Return, Abort
  <1>1. CASE RecordInstalling(w) \/ RenderCompose(w) \/ ComposeUp(w) \/ RouteTargets(w)
    BY <1>1 DEF RecordInstalling, RenderCompose, ComposeUp, RouteTargets
  <1>2. CASE SetRoutes(w) \/ SetPathRoutes(w) \/ RecordOutcome(w) \/ markError(w)
    BY <1>2 DEF SetRoutes, SetPathRoutes, RecordOutcome, markError
  <1>3. CASE RemoveRoutes(w) \/ RemovePathRoutes(w) \/ ComposeDown(w) \/ RemoveDir(w)
    BY <1>3 DEF RemoveRoutes, RemovePathRoutes, ComposeDown, RemoveDir
  <1>4. CASE ArchiveConfig(w) \/ DeleteRow(w) \/ SaveVisibility(w)
    BY <1>4 DEF ArchiveConfig, DeleteRow, SaveVisibility
  <1>5. CASE ReloadNginx(w)
    <2>1. pc[w] # "idle"
      BY <1>5 DEF ReloadNginx, Reloads
    <2>2. Abort(w) \/ Return(w) \/ Goto(w, afterReload(w))
      BY <1>5, Zenon DEF ReloadNginx, Reloaded
    <2> QED
      BY <2>1, <2>2
  <1> QED
    BY <1>1, <1>2, <1>3, <1>4, <1>5, Zenon DEF Step

\* A worker that is idle has no operation.
LEMMA NoneWhenIdle ==
    ASSUME ControlInv, NEW w \in Workers, pc[w] = "idle", op[w] \in Ops
    PROVE  op[w] = "none"
  BY DEF ControlInv, CallsOf, Ops

\* Every action keeps claims and operations in step.
LEMMA ClaimStep ==
    TypeOK /\ ControlInv /\ OneOperationPerModule /\ [Next]_vars => OneOperationPerModule'
  <1> SUFFICES ASSUME TypeOK, ControlInv, OneOperationPerModule, [Next]_vars
               PROVE  OneOperationPerModule'
    OBVIOUS
  <1> USE DEF OneOperationPerModule, Busy, Holds
  <1>1. ASSUME NEW w \in Workers, NEW m \in Modules, NEW o \in Ops \ {"none", "visibility"},
               NEW first, pc[w] = "idle", beginOp(w, m, o, first)
        PROVE  OneOperationPerModule'
    <2>1. op[w] = "none"
      <3>1. op[w] \in Ops
        BY Zenon DEF TypeOK
      <3> QED
        BY <1>1, <3>1, NoneWhenIdle, Zenon
    <2> QED
      BY <1>1, <2>1 DEF beginOp, TypeOK
  <1>2. ASSUME NEW w \in Workers, SetVisibility(w) PROVE OneOperationPerModule'
    <2>1. op[w] = "none"
      BY <1>2 DEF SetVisibility, ControlInv, CallsOf, TypeOK, Ops
    <2> QED
      BY <1>2, <2>1 DEF SetVisibility, TypeOK
  <1>3. ASSUME NEW w \in Workers, Request(w) PROVE OneOperationPerModule'
    BY <1>1, <1>2, <1>3 DEF Request, Install, Enable, Disable, Uninstall, Ops
  <1>4. ASSUME NEW w \in Workers, Step(w) PROVE OneOperationPerModule'
    <2>1. pc[w] # "idle" /\ (Moves(w) \/ Ends(w))
      BY <1>4, StepMovesOrEnds
    <2>2. CASE Moves(w)
      BY <2>2 DEF Moves, TypeOK
    <2>3. CASE Ends(w)
      <3>1. op[w] # "none"
        BY <2>1 DEF ControlInv, CallsOf, TypeOK, Ops
      <3> QED
        BY <2>3, <3>1 DEF Ends, TypeOK
    <2> QED
      BY <2>1, <2>2, <2>3
  <1>5. CASE Crash
    BY <1>5 DEF Crash
  <1>6. CASE UNCHANGED vars
    BY <1>6 DEF vars, taskVars
  <1> QED
    BY <1>3, <1>4, <1>5, <1>6 DEF Next

----------------------------------------------------------------------------
(* What the operations have achieved when they reach a given call.         *)

Launched == {"targets", "routes", "loadRoutes", "paths", "loadPaths", "finish"}
Starting(w) == op[w] \in {"install", "enable"}

\* Only a module with a row has a recorded secret.
RowInv == \A m \in Modules : secret[m] # NoSecret => status[m] # "none"

\* Past RenderCompose an install has its secret in the rendered directory.
RenderedInv ==
    \A w \in Workers :
        op[w] = "install" /\ pc[w] \in Launched \union {"up"} =>
            cfg[w] # NoSecret /\ dir[mod[w]] = cfg[w]

\* Past ComposeUp the containers run on what is rendered.
LaunchedInv ==
    \A w \in Workers :
        Starting(w) /\ pc[w] \in Launched =>
            ctr[mod[w]] # NoSecret /\ ctr[mod[w]] = dir[mod[w]]

\* Past SetRoutes and SetPathRoutes the files are there; past the reload after
\* them nginx has loaded them, whatever other requests write and load.
PublishedInv ==
    \A w \in Workers : Starting(w) =>
        /\ pc[w] \in {"loadRoutes", "paths", "loadPaths", "finish"} /\ mod[w] \in Routed =>
             vhost[mod[w]] # "none"
        /\ pc[w] \in {"paths", "loadPaths", "finish"} /\ mod[w] \in Routed =>
             liveHost[mod[w]] # "none"
        /\ pc[w] \in {"loadPaths", "finish"} /\ mod[w] \in Pathed =>
             snippet[mod[w]] # "none"
        /\ pc[w] = "finish" /\ mod[w] \in Pathed => livePath[mod[w]] # "none"

\* Past ComposeDown nothing runs; past ArchiveConfig the archive has the secret.
StoppedInv ==
    \A w \in Workers :
        /\ op[w] = "disable" /\ pc[w] = "finish" => ctr[mod[w]] = NoSecret
        /\ op[w] = "uninstall" /\ pc[w] = "delete" =>
             secret[mod[w]] = NoSecret \/ archive[mod[w]] = secret[mod[w]]

ProgressInv ==
    /\ RowInv
    /\ InstallOwnsItsRow
    /\ RenderedInv
    /\ LaunchedInv
    /\ PublishedInv
    /\ StoppedInv

ControlOK == TypeOK /\ ControlInv /\ OneOperationPerModule

\* Two requests that hold a module hold different ones.
LEMMA Exclusion ==
    ASSUME ControlOK, NEW v \in Workers, NEW w \in Workers, v # w,
           op[v] \notin {"none", "visibility"}, op[w] \notin {"none", "visibility"}
    PROVE  mod[v] # mod[w]
  BY DEF ControlOK, TypeOK, OneOperationPerModule, Holds

\* Every action keeps what the operations under way rely on.
LEMMA ProgressStep ==
    ControlOK /\ ProgressInv /\ [Next]_vars => ProgressInv'
  <1> SUFFICES ASSUME ControlOK, ProgressInv, [Next]_vars PROVE ProgressInv'
    OBVIOUS
  <1> USE Exclusion DEF ProgressInv, RowInv, InstallOwnsItsRow, RenderedInv, LaunchedInv,
        PublishedInv, StoppedInv, Launched, Starting, ControlOK, TypeOK, ControlInv, CallsOf,
        Ops, MaybeSecret, rowVars, hostVars, nginxVars
  <1>1. ASSUME NEW w \in Workers, Install(w) PROVE ProgressInv'
    BY <1>1 DEF Install, beginOp
  <1>2. ASSUME NEW w \in Workers, Enable(w) \/ Disable(w) \/ Uninstall(w) PROVE ProgressInv'
    <2>1. CASE Enable(w)
      BY <2>1 DEF Enable, beginOp
    <2>2. CASE Disable(w)
      BY <2>2 DEF Disable, beginOp
    <2>3. CASE Uninstall(w)
      BY <2>3 DEF Uninstall, beginOp
    <2> QED
      BY <1>2, <2>1, <2>2, <2>3
  <1>3. ASSUME NEW w \in Workers, SetVisibility(w) PROVE ProgressInv'
    BY <1>3 DEF SetVisibility
  <1>4. ASSUME NEW w \in Workers, RecordInstalling(w) PROVE ProgressInv'
    <2>1. RowInv'
      BY <1>4 DEF RecordInstalling, Goto, Return
    <2>2. InstallOwnsItsRow'
      BY <1>4 DEF RecordInstalling, Goto, Return
    <2>3. RenderedInv'
      BY <1>4 DEF RecordInstalling, Goto, Return
    <2>4. LaunchedInv'
      BY <1>4 DEF RecordInstalling, Goto, Return
    <2>5. PublishedInv'
      BY <1>4 DEF RecordInstalling, Goto, Return
    <2>6. StoppedInv'
      BY <1>4 DEF RecordInstalling, Goto, Return
    <2> QED
      BY <2>1, <2>2, <2>3, <2>4, <2>5, <2>6 DEF ProgressInv
  <1>5. ASSUME NEW w \in Workers, RenderCompose(w) PROVE ProgressInv'
    <2>1. RowInv'
      BY <1>5 DEF RenderCompose, Goto
    <2>2. InstallOwnsItsRow'
      BY <1>5 DEF RenderCompose, Goto
    <2>3. RenderedInv'
      BY <1>5, randomSecretType, LifecycleConstants DEF RenderCompose, Goto
    <2>4. LaunchedInv'
      BY <1>5 DEF RenderCompose, Goto
    <2>5. PublishedInv'
      BY <1>5 DEF RenderCompose, Goto
    <2>6. StoppedInv'
      BY <1>5 DEF RenderCompose, Goto
    <2> QED
      BY <2>1, <2>2, <2>3, <2>4, <2>5, <2>6 DEF ProgressInv
  <1>6. ASSUME NEW w \in Workers, ComposeUp(w) PROVE ProgressInv'
    <2>1. RowInv'
      BY <1>6 DEF ComposeUp, Goto, Return, Abort, afterUp, afterRoutes
    <2>2. InstallOwnsItsRow'
      BY <1>6 DEF ComposeUp, Goto, Return, Abort, afterUp, afterRoutes
    <2>3. RenderedInv'
      BY <1>6 DEF ComposeUp, Goto, Return, Abort, afterUp, afterRoutes
    <2>4. LaunchedInv'
      BY <1>6 DEF ComposeUp, Goto, Return, Abort, afterUp, afterRoutes
    <2>5. PublishedInv'
      BY <1>6 DEF ComposeUp, Goto, Return, Abort, afterUp, afterRoutes
    <2>6. StoppedInv'
      BY <1>6 DEF ComposeUp, Goto, Return, Abort, afterUp, afterRoutes
    <2> QED
      BY <2>1, <2>2, <2>3, <2>4, <2>5, <2>6 DEF ProgressInv
  <1>7. ASSUME NEW w \in Workers, RouteTargets(w) PROVE ProgressInv'
    <2>1. RowInv'
      BY <1>7 DEF RouteTargets, Goto, Return, Abort
    <2>2. InstallOwnsItsRow'
      BY <1>7 DEF RouteTargets, Goto, Return, Abort
    <2>3. RenderedInv'
      BY <1>7 DEF RouteTargets, Goto, Return, Abort
    <2>4. LaunchedInv'
      BY <1>7 DEF RouteTargets, Goto, Return, Abort
    <2>5. PublishedInv'
      BY <1>7 DEF RouteTargets, Goto, Return, Abort
    <2>6. StoppedInv'
      BY <1>7 DEF RouteTargets, Goto, Return, Abort
    <2> QED
      BY <2>1, <2>2, <2>3, <2>4, <2>5, <2>6 DEF ProgressInv
  <1>8. ASSUME NEW w \in Workers, SetRoutes(w) PROVE ProgressInv'
    <2>1. RowInv'
      BY <1>8 DEF SetRoutes, Goto, Return, Abort
    <2>2. InstallOwnsItsRow'
      BY <1>8 DEF SetRoutes, Goto, Return, Abort
    <2>3. RenderedInv'
      BY <1>8 DEF SetRoutes, Goto, Return, Abort
    <2>4. LaunchedInv'
      BY <1>8 DEF SetRoutes, Goto, Return, Abort
    <2>5. PublishedInv'
      BY <1>8 DEF SetRoutes, Goto, Return, Abort
    <2>6. StoppedInv'
      BY <1>8 DEF SetRoutes, Goto, Return, Abort
    <2> QED
      BY <2>1, <2>2, <2>3, <2>4, <2>5, <2>6 DEF ProgressInv
  <1>9. ASSUME NEW w \in Workers, SetPathRoutes(w) PROVE ProgressInv'
    <2>1. RowInv'
      BY <1>9 DEF SetPathRoutes, Goto, Return, Abort
    <2>2. InstallOwnsItsRow'
      BY <1>9 DEF SetPathRoutes, Goto, Return, Abort
    <2>3. RenderedInv'
      BY <1>9 DEF SetPathRoutes, Goto, Return, Abort
    <2>4. LaunchedInv'
      BY <1>9 DEF SetPathRoutes, Goto, Return, Abort
    <2>5. PublishedInv'
      BY <1>9 DEF SetPathRoutes, Goto, Return, Abort
    <2>6. StoppedInv'
      BY <1>9 DEF SetPathRoutes, Goto, Return, Abort
    <2> QED
      BY <2>1, <2>2, <2>3, <2>4, <2>5, <2>6 DEF ProgressInv
  <1>10. ASSUME NEW w \in Workers, RecordOutcome(w) PROVE ProgressInv'
    <2>1. RowInv'
      BY <1>10 DEF RecordOutcome, setStatus, Goto, Return, Abort
    <2>2. InstallOwnsItsRow'
      BY <1>10 DEF RecordOutcome, setStatus, Goto, Return, Abort
    <2>3. RenderedInv'
      BY <1>10 DEF RecordOutcome, setStatus, Goto, Return, Abort
    <2>4. LaunchedInv'
      BY <1>10 DEF RecordOutcome, setStatus, Goto, Return, Abort
    <2>5. PublishedInv'
      BY <1>10 DEF RecordOutcome, setStatus, Goto, Return, Abort
    <2>6. StoppedInv'
      BY <1>10 DEF RecordOutcome, setStatus, Goto, Return, Abort
    <2> QED
      BY <2>1, <2>2, <2>3, <2>4, <2>5, <2>6 DEF ProgressInv
  <1>11. ASSUME NEW w \in Workers, markError(w) PROVE ProgressInv'
    <2>1. RowInv'
      BY <1>11 DEF markError, setStatus, Return
    <2>2. InstallOwnsItsRow'
      BY <1>11 DEF markError, setStatus, Return
    <2>3. RenderedInv'
      BY <1>11 DEF markError, setStatus, Return
    <2>4. LaunchedInv'
      BY <1>11 DEF markError, setStatus, Return
    <2>5. PublishedInv'
      BY <1>11 DEF markError, setStatus, Return
    <2>6. StoppedInv'
      BY <1>11 DEF markError, setStatus, Return
    <2> QED
      BY <2>1, <2>2, <2>3, <2>4, <2>5, <2>6 DEF ProgressInv
  <1>12. ASSUME NEW w \in Workers, RemoveRoutes(w) PROVE ProgressInv'
    <2>1. RowInv'
      BY <1>12 DEF RemoveRoutes, Goto, Return
    <2>2. InstallOwnsItsRow'
      BY <1>12 DEF RemoveRoutes, Goto, Return
    <2>3. RenderedInv'
      BY <1>12 DEF RemoveRoutes, Goto, Return
    <2>4. LaunchedInv'
      BY <1>12 DEF RemoveRoutes, Goto, Return
    <2>5. PublishedInv'
      BY <1>12 DEF RemoveRoutes, Goto, Return
    <2>6. StoppedInv'
      BY <1>12 DEF RemoveRoutes, Goto, Return
    <2> QED
      BY <2>1, <2>2, <2>3, <2>4, <2>5, <2>6 DEF ProgressInv
  <1>13. ASSUME NEW w \in Workers, RemovePathRoutes(w) PROVE ProgressInv'
    <2>1. RowInv'
      BY <1>13 DEF RemovePathRoutes, Goto, Return
    <2>2. InstallOwnsItsRow'
      BY <1>13 DEF RemovePathRoutes, Goto, Return
    <2>3. RenderedInv'
      BY <1>13 DEF RemovePathRoutes, Goto, Return
    <2>4. LaunchedInv'
      BY <1>13 DEF RemovePathRoutes, Goto, Return
    <2>5. PublishedInv'
      BY <1>13 DEF RemovePathRoutes, Goto, Return
    <2>6. StoppedInv'
      BY <1>13 DEF RemovePathRoutes, Goto, Return
    <2> QED
      BY <2>1, <2>2, <2>3, <2>4, <2>5, <2>6 DEF ProgressInv
  <1>14. ASSUME NEW w \in Workers, ComposeDown(w) PROVE ProgressInv'
    <2>1. RowInv'
      BY <1>14 DEF ComposeDown, Goto, Return
    <2>2. InstallOwnsItsRow'
      BY <1>14 DEF ComposeDown, Goto, Return
    <2>3. RenderedInv'
      BY <1>14 DEF ComposeDown, Goto, Return
    <2>4. LaunchedInv'
      BY <1>14, SMTT(30) DEF ComposeDown, Goto, Return
    <2>5. PublishedInv'
      BY <1>14 DEF ComposeDown, Goto, Return
    <2>6. StoppedInv'
      BY <1>14 DEF ComposeDown, Goto, Return
    <2> QED
      BY <2>1, <2>2, <2>3, <2>4, <2>5, <2>6 DEF ProgressInv
  <1>15. ASSUME NEW w \in Workers, RemoveDir(w) PROVE ProgressInv'
    <2>1. RowInv'
      BY <1>15 DEF RemoveDir, Goto, Return
    <2>2. InstallOwnsItsRow'
      BY <1>15 DEF RemoveDir, Goto, Return
    <2>3. RenderedInv'
      BY <1>15 DEF RemoveDir, Goto, Return
    <2>4. LaunchedInv'
      BY <1>15 DEF RemoveDir, Goto, Return
    <2>5. PublishedInv'
      BY <1>15 DEF RemoveDir, Goto, Return
    <2>6. StoppedInv'
      BY <1>15 DEF RemoveDir, Goto, Return
    <2> QED
      BY <2>1, <2>2, <2>3, <2>4, <2>5, <2>6 DEF ProgressInv
  <1>16. ASSUME NEW w \in Workers, ArchiveConfig(w) PROVE ProgressInv'
    <2>1. RowInv'
      BY <1>16 DEF ArchiveConfig, Goto, Return
    <2>2. InstallOwnsItsRow'
      BY <1>16 DEF ArchiveConfig, Goto, Return
    <2>3. RenderedInv'
      BY <1>16 DEF ArchiveConfig, Goto, Return
    <2>4. LaunchedInv'
      BY <1>16 DEF ArchiveConfig, Goto, Return
    <2>5. PublishedInv'
      BY <1>16 DEF ArchiveConfig, Goto, Return
    <2>6. StoppedInv'
      BY <1>16 DEF ArchiveConfig, Goto, Return
    <2> QED
      BY <2>1, <2>2, <2>3, <2>4, <2>5, <2>6 DEF ProgressInv
  <1>17. ASSUME NEW w \in Workers, DeleteRow(w) PROVE ProgressInv'
    <2>1. RowInv'
      BY <1>17 DEF DeleteRow, Return
    <2>2. InstallOwnsItsRow'
      BY <1>17 DEF DeleteRow, Return
    <2>3. RenderedInv'
      BY <1>17 DEF DeleteRow, Return
    <2>4. LaunchedInv'
      BY <1>17 DEF DeleteRow, Return
    <2>5. PublishedInv'
      BY <1>17 DEF DeleteRow, Return
    <2>6. StoppedInv'
      BY <1>17 DEF DeleteRow, Return
    <2> QED
      BY <2>1, <2>2, <2>3, <2>4, <2>5, <2>6 DEF ProgressInv
  <1>18. ASSUME NEW w \in Workers, SaveVisibility(w) PROVE ProgressInv'
    <2>1. RowInv'
      BY <1>18 DEF SaveVisibility, Goto, Return
    <2>2. InstallOwnsItsRow'
      BY <1>18 DEF SaveVisibility, Goto, Return
    <2>3. RenderedInv'
      BY <1>18 DEF SaveVisibility, Goto, Return
    <2>4. LaunchedInv'
      BY <1>18 DEF SaveVisibility, Goto, Return
    <2>5. PublishedInv'
      BY <1>18 DEF SaveVisibility, Goto, Return
    <2>6. StoppedInv'
      BY <1>18 DEF SaveVisibility, Goto, Return
    <2> QED
      BY <2>1, <2>2, <2>3, <2>4, <2>5, <2>6 DEF ProgressInv
  <1>19. CASE Crash
    BY <1>19 DEF Crash
  <1>20. CASE UNCHANGED vars
    BY <1>20 DEF vars, taskVars
  <1>21. ASSUME NEW w \in Workers, ReloadNginx(w) PROVE ProgressInv'
    <2>1. RowInv'
      BY <1>21 DEF ReloadNginx, Reloads, Reloaded, afterReload, afterRoutes, Goto, Return, Abort
    <2>2. InstallOwnsItsRow'
      BY <1>21 DEF ReloadNginx, Reloads, Reloaded, afterReload, afterRoutes, Goto, Return, Abort
    <2>3. RenderedInv'
      BY <1>21 DEF ReloadNginx, Reloads, Reloaded, afterReload, afterRoutes, Goto, Return, Abort
    <2>4. LaunchedInv'
      BY <1>21 DEF ReloadNginx, Reloads, Reloaded, afterReload, afterRoutes, Goto, Return, Abort
    <2>5. PublishedInv'
      BY <1>21 DEF ReloadNginx, Reloads, Reloaded, afterReload, afterRoutes, Goto, Return, Abort
    <2>6. StoppedInv'
      BY <1>21 DEF ReloadNginx, Reloads, Reloaded, afterReload, afterRoutes, Goto, Return, Abort
    <2> QED
      BY <2>1, <2>2, <2>3, <2>4, <2>5, <2>6 DEF ProgressInv
  <1> HIDE DEF ProgressInv, ControlOK
  <1> QED
    BY <1>1, <1>2, <1>3, <1>4, <1>5, <1>6, <1>7, <1>8, <1>9, <1>10, <1>11, <1>12,
       <1>13, <1>14, <1>15, <1>16, <1>17, <1>18, <1>19, <1>20, <1>21 DEF Next, Request, Step

\* The inductive invariant: control, claims, and what was achieved so far.
LEMMA Progress == Spec => [](ControlOK /\ ProgressInv)
  <1>1. Init => ControlOK /\ ProgressInv
    <2> SUFFICES ASSUME Init PROVE ControlOK /\ ProgressInv
      OBVIOUS
    <2>1. TypeOK
      BY DEF Init, TypeOK, MaybeSecret, Statuses, Ops, PCs
    <2>2. ControlInv /\ OneOperationPerModule
      BY DEF Init, ControlInv, CallsOf, OneOperationPerModule, Busy, Holds
    <2>3. ProgressInv
      BY DEF Init, ProgressInv, RowInv, InstallOwnsItsRow, RenderedInv, LaunchedInv,
             PublishedInv, StoppedInv, Starting
    <2> QED
      BY <2>1, <2>2, <2>3 DEF ControlOK
  <1>2. ControlOK /\ ProgressInv /\ [Next]_vars => (ControlOK /\ ProgressInv)'
    BY TypeStep, ControlStep, ClaimStep, ProgressStep DEF ControlOK
  <1> QED
    BY <1>1, <1>2, PTL DEF Spec

----------------------------------------------------------------------------
(* The properties.                                                         *)

\* beginOp and the deferred done() give mutual exclusion between lifecycle
\* operations on a module, and never lose or leak a claim.
THEOREM MutualExclusion == Spec => []OneOperationPerModule
  BY Progress, PTL DEF ControlOK

\* The final UPDATE of an install always finds the row the install recorded.
THEOREM InstallKeepsItsRow == Spec => []InstallOwnsItsRow
  BY Progress, PTL DEF ProgressInv

\* Only five calls write the row's status and configuration or the archive.
LEMMA RowWriters ==
    ASSUME NEW w \in Workers, Step(w)
    PROVE  \/ UNCHANGED <<status, secret, archive>>
           \/ RecordInstalling(w) \/ RecordOutcome(w) \/ markError(w)
           \/ ArchiveConfig(w) \/ DeleteRow(w)
  <1> USE DEF rowVars
  <1>1. CASE RenderCompose(w) \/ ComposeUp(w) \/ RouteTargets(w) \/ SetRoutes(w)
    BY <1>1 DEF RenderCompose, ComposeUp, RouteTargets, SetRoutes
  <1>2. CASE SetPathRoutes(w) \/ RemoveRoutes(w) \/ RemovePathRoutes(w) \/ ComposeDown(w)
    BY <1>2 DEF SetPathRoutes, RemoveRoutes, RemovePathRoutes, ComposeDown
  <1>3. CASE RemoveDir(w) \/ SaveVisibility(w) \/ ReloadNginx(w)
    BY <1>3 DEF RemoveDir, SaveVisibility, ReloadNginx
  <1> QED
    BY <1>1, <1>2, <1>3, Zenon DEF Step

\* Accepting a request, or crashing, writes nothing.
LEMMA RequestsDoNotWrite ==
    ASSUME Crash \/ \E w \in Workers : Request(w)
    PROVE  UNCHANGED <<status, secret, archive>>
  BY DEF Crash, Request, Install, Enable, Disable, Uninstall, SetVisibility, rowVars

\* Uninstalling, at whatever call it stops, keeps the recorded secret either
\* in the row or in the archive.
THEOREM ConfigIsKept == Spec => ConfigSurvivesUninstall
  <1>1. ControlOK /\ ProgressInv /\ [Next]_vars => [ConfigKept]_vars
    <2> SUFFICES ASSUME ControlOK, ProgressInv, Next PROVE ConfigKept
      OBVIOUS
    <2> USE DEF ControlOK, TypeOK, ConfigKept
    <2>1. CASE UNCHANGED <<status, secret, archive>>
      BY <2>1
    <2>2. ASSUME NEW w \in Workers, RecordInstalling(w) \/ markError(w) PROVE ConfigKept
      BY <2>2 DEF RecordInstalling, markError
    <2>3. ASSUME NEW w \in Workers, RecordOutcome(w) PROVE ConfigKept
      BY <2>3 DEF RecordOutcome, ProgressInv, RenderedInv, Launched
    <2>4. ASSUME NEW w \in Workers, ArchiveConfig(w) PROVE ConfigKept
      BY <2>4 DEF ArchiveConfig
    <2>5. ASSUME NEW w \in Workers, DeleteRow(w) PROVE ConfigKept
      <3>1. op[w] = "uninstall"
        BY <2>5 DEF DeleteRow, ControlInv, CallsOf, Ops
      <3> QED
        BY <2>5, <3>1 DEF DeleteRow, ProgressInv, StoppedInv
    <2> QED
      BY <2>1, <2>2, <2>3, <2>4, <2>5, RowWriters, RequestsDoNotWrite DEF Next
  <1> QED
    BY <1>1, Progress, PTL DEF Spec, ConfigSurvivesUninstall

\* A module is recorded as running or stopped only when it is: the calls made
\* before the UPDATE still have their effect when the UPDATE happens.
THEOREM StatusIsTrue == Spec => StatusIsTrueWhenRecorded
  <1>1. ControlOK /\ ProgressInv /\ [Next]_vars => [StatusTrue]_vars
    <2> SUFFICES ASSUME ControlOK, ProgressInv, Next PROVE StatusTrue
      OBVIOUS
    <2> USE DEF ControlOK, TypeOK, StatusTrue
    <2>1. CASE UNCHANGED <<status, secret, archive>>
      BY <2>1
    <2>2. ASSUME NEW w \in Workers,
                 RecordInstalling(w) \/ markError(w) \/ ArchiveConfig(w) \/ DeleteRow(w)
          PROVE  StatusTrue
      BY <2>2 DEF RecordInstalling, markError, setStatus, ArchiveConfig, DeleteRow
    <2>3. ASSUME NEW w \in Workers, RecordOutcome(w) PROVE StatusTrue
      <3>1. op[w] \in {"install", "enable", "disable"}
        BY <2>3 DEF RecordOutcome, ControlInv, CallsOf, Ops
      <3>2. CASE op[w] = "disable"
        BY <2>3, <3>2 DEF RecordOutcome, setStatus, ProgressInv, StoppedInv
      <3>3. CASE Starting(w)
        BY <2>3, <3>3 DEF RecordOutcome, setStatus, Starting, ProgressInv, LaunchedInv,
                          PublishedInv, Launched
      <3> QED
        BY <3>1, <3>2, <3>3 DEF Starting
    <2> QED
      BY <2>1, <2>2, <2>3, RowWriters, RequestsDoNotWrite DEF Next
  <1> QED
    BY <1>1, Progress, PTL DEF Spec, StatusIsTrueWhenRecorded

----------------------------------------------------------------------------
(* The secrets, when the admin leaves the generated fields of the form     *)
(* blank.                                                                  *)

\* An install works with the recorded secret from the moment it reads it.
CarriedInv ==
    \A w \in Workers :
        op[w] = "install" /\ secret[mod[w]] # NoSecret => cfg[w] = secret[mod[w]]

SecretInv == CarriedInv /\ DeployedSecretsAgree

BlankForm == Typed \subseteq {NoSecret} /\ "read" \notin Faults

\* Every action keeps the secrets of a module equal wherever they are.
LEMMA SecretStep ==
    ASSUME BlankForm, ControlOK, ProgressInv, SecretInv, [Next]_vars
    PROVE  SecretInv'
  <1> USE Exclusion DEF SecretInv, CarriedInv, DeployedSecretsAgree, ControlOK, TypeOK,
        MaybeSecret, rowVars, hostVars, nginxVars
  <1>1. ASSUME NEW w \in Workers, Install(w) PROVE SecretInv'
    BY <1>1 DEF Install, beginOp, mergedSecret, previousSecrets, BlankForm, Fails,
                ProgressInv, RowInv
  <1>2. ASSUME NEW w \in Workers, Enable(w) \/ Disable(w) \/ Uninstall(w) PROVE SecretInv'
    BY <1>2 DEF Enable, Disable, Uninstall, beginOp
  <1>3. ASSUME NEW w \in Workers, SetVisibility(w) PROVE SecretInv'
    BY <1>3 DEF SetVisibility
  <1>4. ASSUME NEW w \in Workers, RecordInstalling(w) PROVE SecretInv'
    BY <1>4 DEF RecordInstalling, Goto, Return
  <1>5. ASSUME NEW w \in Workers, RenderCompose(w) PROVE SecretInv'
    <2>1. op[w] = "install"
      BY <1>5 DEF RenderCompose, ControlInv, CallsOf, Ops
    <2> QED
      BY <1>5, <2>1 DEF RenderCompose, Goto
  <1>6. ASSUME NEW w \in Workers, ComposeUp(w) PROVE SecretInv'
    BY <1>6 DEF ComposeUp, Goto, Return, Abort
  <1>7. ASSUME NEW w \in Workers, RouteTargets(w) \/ SetRoutes(w) PROVE SecretInv'
    BY <1>7 DEF RouteTargets, SetRoutes, Goto, Return, Abort
  <1>8. ASSUME NEW w \in Workers, SetPathRoutes(w) PROVE SecretInv'
    BY <1>8 DEF SetPathRoutes, Goto, Return, Abort
  <1>9. ASSUME NEW w \in Workers, RecordOutcome(w) PROVE SecretInv'
    <2>1. CASE op[w] = "install" /\ status[mod[w]] # "none" /\ Return(w)
               /\ secret' = [secret EXCEPT ![mod[w]] = cfg[w]]
      <3>1. dir[mod[w]] = cfg[w] /\ ctr[mod[w]] = cfg[w]
        BY <1>9, <2>1 DEF RecordOutcome, ProgressInv, RenderedInv, LaunchedInv, Launched,
                          Starting
      <3> QED
        BY <1>9, <2>1, <3>1 DEF RecordOutcome, Return
    <2>2. CASE UNCHANGED secret
      BY <1>9, <2>2 DEF RecordOutcome, Goto, Return, Abort
    <2>3. CASE op[w] = "install" /\ status[mod[w]] = "none"
      BY <1>9, <2>3 DEF RecordOutcome, Goto, Return, Abort
    <2> QED
      BY <1>9, <2>1, <2>2, <2>3 DEF RecordOutcome
  <1>10. ASSUME NEW w \in Workers, markError(w) PROVE SecretInv'
    BY <1>10 DEF markError, Return
  <1>11. ASSUME NEW w \in Workers, RemoveRoutes(w) \/ RemovePathRoutes(w) PROVE SecretInv'
    BY <1>11 DEF RemoveRoutes, RemovePathRoutes, Goto, Return
  <1>12. ASSUME NEW w \in Workers, ComposeDown(w) \/ RemoveDir(w) PROVE SecretInv'
    BY <1>12 DEF ComposeDown, RemoveDir, Goto, Return
  <1>13. ASSUME NEW w \in Workers, ArchiveConfig(w) PROVE SecretInv'
    BY <1>13 DEF ArchiveConfig, Goto, Return
  <1>14. ASSUME NEW w \in Workers, DeleteRow(w) PROVE SecretInv'
    BY <1>14 DEF DeleteRow, Return
  <1>15. ASSUME NEW w \in Workers, SaveVisibility(w) PROVE SecretInv'
    BY <1>15 DEF SaveVisibility, Goto, Return
  <1>16. CASE Crash
    BY <1>16 DEF Crash
  <1>17. CASE UNCHANGED vars
    BY <1>17 DEF vars, taskVars
  <1>18. ASSUME NEW w \in Workers, ReloadNginx(w) PROVE SecretInv'
    BY <1>18 DEF ReloadNginx, Reloaded, Goto, Return, Abort
  <1> HIDE DEF SecretInv
  <1> QED
    BY <1>1, <1>2, <1>3, <1>4, <1>5, <1>6, <1>7, <1>8, <1>9, <1>10, <1>11, <1>12, <1>13,
       <1>14, <1>15, <1>16, <1>17, <1>18 DEF Next, Request, Step

\* With the generated fields of the form left blank and readable tables, a
\* module with a recorded secret is rendered, and runs, with that secret.
THEOREM SecretsAgree == ASSUME BlankForm PROVE Spec => []DeployedSecretsAgree
  <1>1. Init => SecretInv
    BY DEF Init, SecretInv, CarriedInv, DeployedSecretsAgree
  <1>2. ControlOK /\ ProgressInv /\ SecretInv /\ [Next]_vars => SecretInv'
    BY BlankForm, SecretStep
  <1>3. SecretInv => DeployedSecretsAgree
    BY DEF SecretInv
  <1> QED
    BY <1>1, <1>2, <1>3, Progress, PTL DEF Spec

----------------------------------------------------------------------------
(* Refinement: the manager is the service of ModuleClaim.                  *)

\* Who holds a module is its one operation, so the claim shown is that one's.
ClaimsRead ==
    \A m \in Modules :
        /\ ~Busy(m) => claims[m] = "free"
        /\ \A w \in Workers : Holds(w, m) => claims[m] = ShownAs(w)

\* Mutual exclusion says which operation a claim shows.
LEMMA ClaimsShow == OneOperationPerModule => ClaimsRead
  <1> SUFFICES ASSUME OneOperationPerModule, NEW m \in Modules
               PROVE  /\ ~Busy(m) => claims[m] = "free"
                      /\ \A w \in Workers : Holds(w, m) => claims[m] = ShownAs(w)
    BY DEF ClaimsRead
  <1>1. ~Busy(m) => claims[m] = "free"
    BY DEF claims
  <1>2. ASSUME NEW w \in Workers, Holds(w, m)
        PROVE  claims[m] = ShownAs(w)
    <2>1. Busy(m) /\ \A v \in Workers : Holds(v, m) => v = w
      BY <1>2 DEF OneOperationPerModule
    <2>2. (CHOOSE v \in Workers : Holds(v, m)) = w
      BY <1>2, <2>1
    <2> QED
      BY <2>1, <2>2 DEF claims
  <1> QED
    BY <1>1, <1>2

\* Of the next state, too.
LEMMA ClaimsShowNext == OneOperationPerModule' => ClaimsRead'
  BY ClaimsShow, PTL

\* Whoever holds a module is shown with it, before and after a step.
LEMMA HolderShown ==
    ASSUME ControlOK, NEW w \in Workers, op[w] \notin {"none", "visibility"}
    PROVE  /\ mod[w] \in Modules /\ Busy(mod[w]) /\ claims[mod[w]] = ShownAs(w)
           /\ \A v \in Workers \ {w} : ~Holds(v, mod[w])
  <1>1. mod[w] \in Modules /\ Holds(w, mod[w]) /\ ClaimsRead
    BY ClaimsShow DEF ControlOK, TypeOK, Holds
  <1> QED
    BY <1>1 DEF ClaimsRead, ControlOK, OneOperationPerModule

\* A step that changes no claim, and nobody's announcement.
LEMMA ClaimsUntouched ==
    ASSUME ControlOK, ControlOK', inFlight' = inFlight, NEW w \in Workers,
           \A v \in Workers \ {w} : pc'[v] = pc[v] /\ op'[v] = op[v] /\ mod'[v] = mod[v],
           \/ {op[w], op'[w]} \subseteq {"none", "visibility"}
           \/ ShownAs(w)' = ShownAs(w) /\ op'[w] = op[w] /\ mod'[w] = mod[w]
    PROVE  claims' = claims
  <1>1. ClaimsRead /\ ClaimsRead' /\ OneOperationPerModule
    BY ClaimsShow, ClaimsShowNext DEF ControlOK
  <1>2. \A v \in Workers \ {w} : ShownAs(v)' = ShownAs(v)
    BY DEF ShownAs
  <1>3. ASSUME NEW m \in Modules
        PROVE  claims'[m] = claims[m]
    <2>1. CASE ~Busy(m)
      BY <1>1, <2>1 DEF ClaimsRead, Busy
    <2>2. CASE Busy(m)
      <3>1. PICK v \in Workers : Holds(v, m)
        BY <1>1, <2>2 DEF OneOperationPerModule
      <3>2. Holds(v, m)' /\ ShownAs(v)' = ShownAs(v)
        BY <1>2, <3>1 DEF Holds
      <3> QED
        BY <1>1, <3>1, <3>2 DEF ClaimsRead
    <2> QED
      BY <2>1, <2>2
  <1> QED
    BY <1>3 DEF claims

\* A step of one request that changes the claim on one module.
LEMMA OneClaimChanges ==
    ASSUME ControlOK, ControlOK', NEW w \in Workers, NEW m \in Modules, NEW c,
           \A n \in Modules \ {m} : n \in inFlight' <=> n \in inFlight,
           \A v \in Workers \ {w} : pc'[v] = pc[v] /\ op'[v] = op[v] /\ mod'[v] = mod[v],
           \A n \in Modules \ {m} : ~Holds(w, n), claims'[m] = c
    PROVE  claims' = [claims EXCEPT ![m] = c]
  <1>1. ClaimsRead /\ ClaimsRead' /\ OneOperationPerModule
    BY ClaimsShow, ClaimsShowNext DEF ControlOK
  <1>2. \A v \in Workers \ {w} : ShownAs(v)' = ShownAs(v)
    BY DEF ShownAs
  <1>3. ASSUME NEW n \in Modules \ {m}
        PROVE  claims'[n] = claims[n]
    <2>1. CASE ~Busy(n)
      BY <1>1, <2>1 DEF ClaimsRead, Busy
    <2>2. CASE Busy(n)
      <3>1. PICK v \in Workers : Holds(v, n)
        BY <1>1, <2>2 DEF OneOperationPerModule
      <3>2. Holds(v, n)' /\ ShownAs(v)' = ShownAs(v)
        BY <1>2, <3>1 DEF Holds
      <3> QED
        BY <1>1, <3>1, <3>2 DEF ClaimsRead
    <2> QED
      BY <2>1, <2>2
  <1>4. /\ claims = [n \in Modules |-> claims[n]]
        /\ claims' = [n \in Modules |-> claims'[n]]
    BY DEF claims
  <1> QED
    BY <1>3, <1>4

\* A request that holds a module may end with one of the outcomes the service allows.
LEMMA EndsAsPromised ==
    ASSUME ControlOK, ControlOK', NEW w \in Workers, op[w] \notin {"none", "visibility"},
           Return(w), NEW s, status' = [status EXCEPT ![mod[w]] = s],
           \/ s = status[mod[w]] /\ (op[w] = "install" => pc[w] = "record")
           \/ op[w] = "install" /\ pc[w] # "record" /\ s \in {"running", "error"}
           \/ op[w] = "uninstall" /\ s = "none"
           \/ op[w] = "enable" /\ status[mod[w]] # "none" /\ s = "running"
           \/ op[w] = "disable" /\ status[mod[w]] # "none" /\ s = "stopped"
    PROVE  Claims!Next
  <1> DEFINE m == mod[w]
  <1>1. /\ m \in Modules /\ claims[m] = ShownAs(w)
        /\ op[w] \in {"install", "enable", "disable", "uninstall"}
    BY HolderShown DEF ControlOK, TypeOK, Ops
  <1>2. claims' = [claims EXCEPT ![m] = "free"]
    <2>1. m \notin inFlight'
      BY <1>1 DEF Return
    <2>2. \A n \in Modules : n \notin inFlight' => claims'[n] = "free"
      BY ClaimsShowNext DEF ClaimsRead, ControlOK, Busy
    <2>3. \A v \in Workers \ {w} : pc'[v] = pc[v] /\ op'[v] = op[v] /\ mod'[v] = mod[v]
      BY DEF Return, ControlOK, TypeOK
    <2>4. \A n \in Modules \ {m} : /\ n \in inFlight' <=> n \in inFlight
                                   /\ ~Holds(w, n)
      BY DEF Return, Holds
    <2> HIDE DEF m
    <2> QED
      BY <1>1, <2>1, <2>2, <2>3, <2>4, OneClaimChanges
  <1> HIDE DEF m
  <1>3. s \in Claims!Outcomes(m)
    <2>1. CASE claims[m] = "announced"
      BY <1>1, <2>1 DEF Claims!Outcomes, ShownAs, m
    <2>2. CASE claims[m] = "install"
      BY <1>1, <2>2 DEF Claims!Outcomes, ShownAs, m
    <2>3. CASE claims[m] = "uninstall"
      BY <1>1, <2>3 DEF Claims!Outcomes, ShownAs, m
    <2>4. CASE claims[m] = "enable"
      BY <1>1, <2>4 DEF Claims!Outcomes, ShownAs, m
    <2>5. CASE claims[m] = "disable"
      BY <1>1, <2>5 DEF Claims!Outcomes, ShownAs, m
    <2> QED
      BY <1>1, <2>1, <2>2, <2>3, <2>4, <2>5 DEF ShownAs
  <1>4. claims[m] # "free" /\ status' = [status EXCEPT ![m] = s]
    BY <1>1 DEF ShownAs, m
  <1> QED
    BY <1>1, <1>2, <1>3, <1>4 DEF Claims!Next, Claims!End

\* Whoever has an idle request has no operation.
LEMMA IdleHasNone ==
    ASSUME ControlOK, NEW w \in Workers
    PROVE  /\ pc[w] = "idle" => op[w] = "none"
           /\ op[w] = "none" => pc[w] = "idle"
  BY DEF ControlOK, TypeOK, ControlInv, CallsOf, Ops

\* A request that is accepted claims its module.
LEMMA BeginsAsPromised ==
    ASSUME ControlOK, ControlOK', NEW w \in Workers, pc[w] = "idle", NEW m \in Modules,
           NEW o \in {"install", "enable", "disable", "uninstall"}, NEW first,
           o = "install" => first = "record", beginOp(w, m, o, first), status' = status
    PROVE  Claims!Next
  <1>1. /\ op[w] = "none" /\ op'[w] = o /\ pc'[w] = first /\ mod'[w] = m
        /\ \A v \in Workers \ {w} : pc'[v] = pc[v] /\ op'[v] = op[v] /\ mod'[v] = mod[v]
        /\ \A n \in Modules \ {m} : n \in inFlight' <=> n \in inFlight
        /\ m \notin inFlight
    BY IdleHasNone DEF beginOp, ControlOK, TypeOK
  <1>2. claims[m] = "free"
    BY <1>1, ClaimsShow DEF ClaimsRead, ControlOK, Busy
  <1>3. claims'[m] = o
    <2>1. Holds(w, m)' /\ ShownAs(w)' = o
      BY <1>1 DEF Holds, ShownAs
    <2> QED
      BY <2>1, ClaimsShowNext DEF ClaimsRead, ControlOK
  <1>4. \A n \in Modules \ {m} : ~Holds(w, n)
    BY <1>1 DEF Holds
  <1>5. claims' = [claims EXCEPT ![m] = o]
    BY <1>1, <1>3, <1>4, OneClaimChanges
  <1> QED
    BY <1>2, <1>5 DEF Claims!Next, Claims!Claim

\* A call on the way changes neither the status nor the claim.
LEMMA MovesUnseen ==
    ASSUME ControlOK, ControlOK', NEW w \in Workers, NEW next, pc[w] # "record",
           next # "record", pc' = [pc EXCEPT ![w] = next], UNCHANGED <<op, mod, inFlight>>
    PROVE  claims' = claims
  <1>1. ShownAs(w)' = ShownAs(w)
    BY DEF ShownAs, ControlOK, TypeOK
  <1>2. \A v \in Workers \ {w} : pc'[v] = pc[v] /\ op'[v] = op[v] /\ mod'[v] = mod[v]
    BY DEF ControlOK, TypeOK
  <1> QED
    BY <1>1, <1>2, ClaimsUntouched

\* A request that holds nothing comes and goes unseen.
LEMMA VisibilityUnseen ==
    ASSUME ControlOK, ControlOK', NEW w \in Workers, op[w] = "visibility", Return(w)
    PROVE  claims' = claims
  <1>1. op'[w] = "none" /\ inFlight' = inFlight
    BY DEF Return, ControlOK, TypeOK
  <1>2. \A v \in Workers \ {w} : pc'[v] = pc[v] /\ op'[v] = op[v] /\ mod'[v] = mod[v]
    BY DEF Return, ControlOK, TypeOK
  <1> QED
    BY <1>1, <1>2, ClaimsUntouched

\* An operation that gives up leaves the status as it was; only an install that
\* is announced must not.
LEMMA ReturnsAsPromised ==
    ASSUME ControlOK, ControlOK', NEW w \in Workers, pc[w] # "idle", Return(w),
           status' = status, op[w] = "install" => pc[w] = "record"
    PROVE  Claims!Next \/ (claims' = claims /\ status' = status)
  <1>1. CASE op[w] = "visibility"
    BY <1>1, VisibilityUnseen
  <1>2. CASE op[w] # "visibility"
    <2>1. op[w] \notin {"none", "visibility"}
      BY <1>2, IdleHasNone
    <2>2. status' = [status EXCEPT ![mod[w]] = status[mod[w]]]
      BY DEF ControlOK, TypeOK
    <2> QED
      BY <2>1, <2>2, EndsAsPromised
  <1> QED
    BY <1>1, <1>2

\* A call that fails marks an announced install, and ends the others.
LEMMA AbortsAsPromised ==
    ASSUME ControlOK, ControlOK', NEW w \in Workers, pc[w] \notin {"idle", "record"}, Abort(w),
           status' = status
    PROVE  Claims!Next \/ (claims' = claims /\ status' = status)
  <1>1. CASE op[w] = "install"
    BY <1>1, MovesUnseen DEF Abort, Goto
  <1>2. CASE op[w] # "install"
    BY <1>2, ReturnsAsPromised DEF Abort
  <1> QED
    BY <1>1, <1>2

\* Which operation makes which call.
LEMMA CallsByOperation ==
    ASSUME ControlOK, NEW w \in Workers
    PROVE  /\ pc[w] \in {"record", "render", "fail"} => op[w] = "install"
           /\ pc[w] = "finish" => op[w] \in {"install", "enable", "disable"}
           /\ pc[w] \in {"unroute", "unpath", "down", "rmdir", "archive", "delete", "save"} =>
                 op[w] \notin {"none", "install"}
           /\ pc[w] = "delete" => op[w] = "uninstall"
  BY DEF ControlOK, TypeOK, ControlInv, CallsOf, Ops

\* What a call does that writes no status.
LEMMA CallUnseen ==
    ASSUME NEW w \in Workers, Step(w), ControlOK,
           ~RecordInstalling(w), ~RecordOutcome(w), ~markError(w), ~DeleteRow(w)
    PROVE  /\ status' = status /\ pc[w] \notin {"idle", "record"}
           /\ \/ Abort(w)
              \/ Return(w) /\ op[w] # "install"
              \/ \E next : /\ next # "record" /\ pc' = [pc EXCEPT ![w] = next]
                           /\ UNCHANGED <<op, mod, inFlight>>
  <1> USE CallsByOperation DEF Goto, rowVars
  <1>1. CASE RenderCompose(w)
    BY <1>1, Zenon DEF RenderCompose
  <1>2. CASE ComposeUp(w)
    <2>1. afterUp(mod[w]) # "record"
      BY DEF afterUp, afterRoutes
    <2> QED
      BY <1>2, <2>1, Zenon DEF ComposeUp
  <1>3. CASE RouteTargets(w)
    BY <1>3, Zenon DEF RouteTargets
  <1>4. CASE SetRoutes(w)
    BY <1>4, Zenon DEF SetRoutes
  <1>5. CASE SetPathRoutes(w)
    BY <1>5, Zenon DEF SetPathRoutes
  <1>6. CASE RemoveRoutes(w)
    <2>1. (IF vhost[mod[w]] = "none" THEN "unpath" ELSE "unloadRoutes") # "record"
      OBVIOUS
    <2> QED
      BY <1>6, <2>1, Zenon DEF RemoveRoutes
  <1>7. CASE RemovePathRoutes(w)
    <2>1. (IF snippet[mod[w]] = "none" THEN "down" ELSE "unloadPaths") # "record"
      OBVIOUS
    <2> QED
      BY <1>7, <2>1, Zenon DEF RemovePathRoutes
  <1>8. CASE ComposeDown(w)
    <2>1. (IF op[w] = "disable" THEN "finish" ELSE "rmdir") # "record"
      OBVIOUS
    <2> QED
      BY <1>8, <2>1, Zenon DEF ComposeDown
  <1>9. CASE RemoveDir(w)
    BY <1>9, Zenon DEF RemoveDir
  <1>10. CASE ArchiveConfig(w)
    BY <1>10, Zenon DEF ArchiveConfig
  <1>11. CASE SaveVisibility(w)
    BY <1>11, Zenon DEF SaveVisibility
  <1>12. CASE ReloadNginx(w)
    <2>1. afterReload(w) # "record" /\ pc[w] \notin {"idle", "record"}
      BY <1>12 DEF ReloadNginx, Reloads, afterReload, afterRoutes
    <2>2. op[w] = "visibility" => op[w] # "install"
      OBVIOUS
    <2> QED
      BY <1>12, <2>1, <2>2, Zenon DEF ReloadNginx, Reloaded
  <1> QED
    BY <1>1, <1>2, <1>3, <1>4, <1>5, <1>6, <1>7, <1>8, <1>9, <1>10, <1>11, <1>12 DEF Step

\* Every step of the manager is a step of the service, or none it shows.
LEMMA StepAsPromised ==
    ASSUME "mark" \notin Faults, ControlOK, ProgressInv, ControlOK', [Next]_vars
    PROVE  Claims!Next \/ (claims' = claims /\ status' = status)
  <1>0. InstallOwnsItsRow /\ status \in [Modules -> Statuses] /\ mod \in [Workers -> Modules]
    BY DEF ProgressInv, ControlOK, TypeOK
  <1>1. CASE UNCHANGED vars
    <2>1. /\ inFlight' = inFlight /\ op' = op /\ pc' = pc /\ mod' = mod /\ status' = status
      BY <1>1, Zenon DEF vars, rowVars, taskVars
    <2>2. \A w \in Workers, m \in Modules :
             ShownAs(w)' = ShownAs(w) /\ (Holds(w, m)' <=> Holds(w, m)) /\ (Busy(m)' <=> Busy(m))
      BY <2>1 DEF ShownAs, Holds, Busy
    <2>3. ClaimsRead /\ ClaimsRead' /\ OneOperationPerModule
      BY ClaimsShow, ClaimsShowNext DEF ControlOK
    <2>4. \A m \in Modules : claims'[m] = claims[m]
      BY <2>1, <2>2, <2>3 DEF ClaimsRead, OneOperationPerModule, Busy
    <2> QED
      BY <2>1, <2>4 DEF claims
  <1>2. CASE Crash
    <2>1. claims' = [m \in Modules |-> "free"]
      BY <1>2 DEF Crash, claims, Busy
    <2> QED
      BY <1>2, <2>1 DEF Crash, Claims!Next, Claims!Restart, rowVars
  <1>3. ASSUME NEW w \in Workers, Request(w)
        PROVE  Claims!Next \/ (claims' = claims /\ status' = status)
    <2>1. CASE SetVisibility(w)
      <3>1. op[w] = "none" /\ op'[w] = "visibility" /\ inFlight' = inFlight /\ status' = status
        BY <2>1, IdleHasNone DEF SetVisibility, ControlOK, TypeOK, rowVars
      <3>2. \A v \in Workers \ {w} : pc'[v] = pc[v] /\ op'[v] = op[v] /\ mod'[v] = mod[v]
        BY <2>1 DEF SetVisibility, ControlOK, TypeOK
      <3> QED
        BY <3>1, <3>2, ClaimsUntouched
    <2>2. CASE ~SetVisibility(w)
      <3>1. PICK m \in Modules, o \in {"install", "enable", "disable", "uninstall"},
                  first \in PCs :
               /\ o = "install" => first = "record"
               /\ beginOp(w, m, o, first) /\ status' = status /\ pc[w] = "idle"
        BY <1>3, <2>2 DEF Request, Install, Enable, Disable, Uninstall, rowVars, PCs
      <3> QED
        BY <3>1, BeginsAsPromised
    <2> QED
      BY <2>1, <2>2
  <1>4. ASSUME NEW w \in Workers, RecordInstalling(w)
        PROVE  Claims!Next \/ (claims' = claims /\ status' = status)
    <2>1. pc[w] = "record" /\ op[w] = "install"
      BY <1>4, CallsByOperation DEF RecordInstalling
    <2>2. CASE status' = status /\ Return(w)
      BY <2>1, <2>2, ReturnsAsPromised
    <2>3. CASE status' = [status EXCEPT ![mod[w]] = "installing"] /\ Goto(w, "render")
      <3>1. /\ mod[w] \in Modules /\ claims[mod[w]] = "install"
            /\ \A n \in Modules \ {mod[w]} : ~Holds(w, n)
        BY <2>1, HolderShown DEF ShownAs, Holds
      <3>2. /\ ShownAs(w)' = "announced" /\ Holds(w, mod[w])'
            /\ \A v \in Workers \ {w} : pc'[v] = pc[v] /\ op'[v] = op[v] /\ mod'[v] = mod[v]
            /\ inFlight' = inFlight /\ mod' = mod
        BY <2>1, <2>3 DEF Goto, ShownAs, Holds, ControlOK, TypeOK
      <3>3. claims'[mod[w]] = "announced"
        BY <3>1, <3>2, ClaimsShowNext DEF ClaimsRead, ControlOK
      <3>4. claims' = [claims EXCEPT ![mod[w]] = "announced"]
        BY <3>1, <3>2, <3>3, OneClaimChanges
      <3> QED
        BY <2>3, <3>1, <3>4 DEF Claims!Next, Claims!Announce
    <2> QED
      BY <1>4, <2>2, <2>3, Zenon DEF RecordInstalling
  <1>5. ASSUME NEW w \in Workers, RecordOutcome(w)
        PROVE  Claims!Next \/ (claims' = claims /\ status' = status)
    <2>1. pc[w] = "finish" /\ op[w] \in {"install", "enable", "disable"} /\ mod[w] \in Modules
      BY <1>0, <1>5, CallsByOperation DEF RecordOutcome
    <2>2. CASE Abort(w) /\ status' = status
      BY <2>1, <2>2, AbortsAsPromised
    <2>3. CASE Return(w) /\ setStatus(mod[w], IF op[w] = "disable" THEN "stopped" ELSE "running")
      <3>1. CASE status[mod[w]] = "none"
        <4>1. op[w] # "install"
          BY <1>0, <2>1, <3>1 DEF InstallOwnsItsRow
        <4>2. status' = [status EXCEPT ![mod[w]] = status[mod[w]]]
          BY <1>0, <2>1, <2>3, <3>1 DEF setStatus
        <4> QED
          BY <2>1, <2>3, <4>1, <4>2, EndsAsPromised
      <3>2. CASE status[mod[w]] # "none" /\ op[w] = "disable"
        <4>1. status' = [status EXCEPT ![mod[w]] = "stopped"]
          BY <1>0, <2>1, <2>3, <3>2 DEF setStatus
        <4> QED
          BY <2>1, <2>3, <3>2, <4>1, EndsAsPromised
      <3>3. CASE status[mod[w]] # "none" /\ op[w] # "disable"
        <4>1. status' = [status EXCEPT ![mod[w]] = "running"]
          BY <1>0, <2>1, <2>3, <3>3 DEF setStatus
        <4> QED
          BY <2>1, <2>3, <3>3, <4>1, EndsAsPromised
      <3> QED
        BY <3>1, <3>2, <3>3
    <2> QED
      BY <1>5, <2>2, <2>3, Zenon DEF RecordOutcome
  <1>6. ASSUME NEW w \in Workers, markError(w)
        PROVE  Claims!Next \/ (claims' = claims /\ status' = status)
    <2>1. pc[w] = "fail" /\ op[w] = "install" /\ mod[w] \in Modules /\ Return(w)
      BY <1>0, <1>6, CallsByOperation DEF markError
    <2>2. status[mod[w]] # "none"
      BY <1>0, <2>1 DEF InstallOwnsItsRow
    <2>3. status' = [status EXCEPT ![mod[w]] = "error"]
      BY <1>0, <1>6, <2>1, <2>2 DEF markError, setStatus, Fails
    <2> QED
      BY <2>1, <2>3, EndsAsPromised
  <1>7. ASSUME NEW w \in Workers, DeleteRow(w)
        PROVE  Claims!Next \/ (claims' = claims /\ status' = status)
    <2>1. pc[w] = "delete" /\ op[w] = "uninstall" /\ Return(w)
      BY <1>7, CallsByOperation DEF DeleteRow
    <2>2. CASE status' = status
      BY <2>1, <2>2, ReturnsAsPromised
    <2>3. CASE status' = [status EXCEPT ![mod[w]] = "none"]
      BY <2>1, <2>3, EndsAsPromised
    <2> QED
      BY <1>7, <2>2, <2>3, Zenon DEF DeleteRow
  <1>8. ASSUME NEW w \in Workers, Step(w),
               ~RecordInstalling(w), ~RecordOutcome(w), ~markError(w), ~DeleteRow(w)
        PROVE  Claims!Next \/ (claims' = claims /\ status' = status)
    <2>1. /\ status' = status /\ pc[w] \notin {"idle", "record"}
          /\ \/ Abort(w)
             \/ Return(w) /\ op[w] # "install"
             \/ \E next : /\ next # "record" /\ pc' = [pc EXCEPT ![w] = next]
                          /\ UNCHANGED <<op, mod, inFlight>>
      BY <1>8, CallUnseen
    <2>2. CASE Abort(w)
      BY <2>1, <2>2, AbortsAsPromised
    <2>3. CASE Return(w) /\ op[w] # "install"
      BY <2>1, <2>3, ReturnsAsPromised
    <2>4. CASE \E next : /\ next # "record" /\ pc' = [pc EXCEPT ![w] = next]
                         /\ UNCHANGED <<op, mod, inFlight>>
      BY <2>1, <2>4, MovesUnseen
    <2> QED
      BY <2>1, <2>2, <2>3, <2>4
  <1> QED
    BY <1>1, <1>2, <1>3, <1>4, <1>5, <1>6, <1>7, <1>8 DEF Next

\* The manager is the service of ModuleClaim, for any modules, requests and
\* failures, provided that the UPDATE by which a failed install marks its row
\* goes through: an operation claims its module, an install announces itself,
\* and each ends by publishing one of its outcomes and giving the claim up in
\* the same step, on every path of doInstall, Enable, Disable and Uninstall.
THEOREM ManagerImplementsClaims ==
    ASSUME "mark" \notin Faults
    PROVE  Spec => ImplementsModuleClaim
  <1>1. Init => Claims!Init
    BY DEF Init, Claims!Init, claims, Busy
  <1>2. ControlOK /\ ProgressInv /\ (ControlOK /\ ProgressInv)' /\ [Next]_vars =>
            [Claims!Next]_Claims!vars
    BY StepAsPromised DEF Claims!vars
  <1> QED
    BY <1>1, <1>2, Progress, PTL DEF Spec, ImplementsModuleClaim, Claims!Spec

=============================================================================
