-------------------------- MODULE ModuleLifecycle --------------------------
(***************************************************************************)
(* The module manager of the platform: Install, Enable, Disable, Uninstall *)
(* and SetVisibility of a feature module, over the five stores they touch: *)
(* the installed_modules row, the archive of old configurations, the       *)
(* rendered compose directory, Docker's containers and volumes, and the    *)
(* nginx configuration (on disk, and as nginx last loaded it).             *)
(*                                                                         *)
(* Each request is a worker that walks the handler's calls one by one, so  *)
(* requests interleave, any call may fail, and the platform may crash      *)
(* between any two calls. A call that fails may already have had part of   *)
(* its effect. Of a module's configuration only its generated secret is    *)
(* kept: the value its data volume was initialised with and every later    *)
(* start must use again.                                                   *)
(***************************************************************************)
EXTENDS FiniteSets

CONSTANTS
    Modules,     \* module ids in the catalog
    Workers,     \* concurrent requests
    Secrets,     \* the values a generated or typed secret can take
    NoSecret,    \* no value: an empty field, an absent row or directory
    Typed,       \* what an admin may leave in the secret field of the form
    Routed,      \* modules whose manifest has routes
    Pathed,      \* modules whose manifest has path routes
    Faults       \* the calls that may fail

ASSUME LifecycleConstants ==
    /\ NoSecret \notin Secrets
    /\ Typed \subseteq Secrets \union {NoSecret}
    /\ Routed \subseteq Modules
    /\ Pathed \subseteq Modules

VARIABLES
    status,      \* installed_modules.status, "none" when there is no row
    secret,      \* the secret inside installed_modules.config
    visibility,  \* installed_modules.visibility
    archive,     \* the secret inside module_config_archive.config
    dir,         \* the secret in the rendered .env, NoSecret without a directory
    ctr,         \* the secret the running containers were started with
    vol,         \* the secret the data volume was initialised with
    vhost,       \* the primary vhost file of the module
    snippet,     \* the path-route snippet file of the module
    liveHost,    \* vhosts as nginx last loaded them
    livePath,    \* snippets as nginx last loaded them
    inFlight,    \* modules claimed by beginOp, in the platform's memory
    op, pc, mod, \* each worker: operation, next call, module
    cfg, tgt     \* each worker: its secret, the visibility it read or was given

rowVars   == <<status, secret, visibility, archive>>
hostVars  == <<dir, ctr, vol>>
nginxVars == <<vhost, snippet, liveHost, livePath>>
taskVars  == <<op, pc, mod, cfg, tgt>>
vars == <<rowVars, hostVars, nginxVars, inFlight, taskVars>>

MaybeSecret == Secrets \union {NoSecret}
Statuses == {"none", "installing", "running", "stopped", "error"}
Ops == {"none", "install", "enable", "disable", "uninstall", "visibility"}
\* The reloads that end SetRoutes, SetPathRoutes, RemoveRoutes, RemovePathRoutes.
Reloads == {"loadRoutes", "loadPaths", "unloadRoutes", "unloadPaths"}
PCs == {"idle", "record", "render", "up", "targets", "routes", "paths", "finish",
        "fail", "unroute", "unpath", "down", "rmdir", "archive", "delete", "save"}
           \union Reloads

TypeOK ==
    /\ status \in [Modules -> Statuses]
    /\ secret \in [Modules -> MaybeSecret]
    /\ visibility \in [Modules -> {"private", "public"}]
    /\ archive \in [Modules -> MaybeSecret]
    /\ dir \in [Modules -> MaybeSecret]
    /\ ctr \in [Modules -> MaybeSecret]
    /\ vol \in [Modules -> MaybeSecret]
    /\ vhost \in [Modules -> {"none", "private", "public"}]
    /\ snippet \in [Modules -> {"none", "portal"}]
    /\ liveHost \in [Modules -> {"none", "private", "public"}]
    /\ livePath \in [Modules -> {"none", "portal"}]
    /\ inFlight \in SUBSET Modules
    /\ op \in [Workers -> Ops]
    /\ pc \in [Workers -> PCs]
    /\ mod \in [Workers -> Modules]
    /\ cfg \in [Workers -> MaybeSecret]
    /\ tgt \in [Workers -> {"private", "public"}]

Init ==
    /\ status = [m \in Modules |-> "none"]
    /\ secret = [m \in Modules |-> NoSecret]
    /\ visibility = [m \in Modules |-> "private"]
    /\ archive = [m \in Modules |-> NoSecret]
    /\ dir = [m \in Modules |-> NoSecret]
    /\ ctr = [m \in Modules |-> NoSecret]
    /\ vol = [m \in Modules |-> NoSecret]
    /\ vhost = [m \in Modules |-> "none"]
    /\ snippet = [m \in Modules |-> "none"]
    /\ liveHost = vhost
    /\ livePath = snippet
    /\ inFlight = {}
    /\ op = [w \in Workers |-> "none"]
    /\ pc = [w \in Workers |-> "idle"]
    /\ mod \in [Workers -> Modules]
    /\ cfg = [w \in Workers |-> NoSecret]
    /\ tgt = [w \in Workers |-> "private"]

----------------------------------------------------------------------------
(* Steps shared by the operations.                                         *)

Fails(call) == call \in Faults

SecretsInUse ==
    UNION {{secret[m], archive[m], dir[m], ctr[m], vol[m]} : m \in Modules}
        \union {cfg[w] : w \in Workers}

\* 32 random bytes: a value nothing in the system holds.
randomSecret == CHOOSE s \in Secrets : s \notin SecretsInUse

Goto(w, next) ==
    /\ pc' = [pc EXCEPT ![w] = next]
    /\ UNCHANGED <<op, mod, cfg, tgt, inFlight>>

\* The handler returns: the deferred done() releases the module.
Return(w) ==
    /\ op' = [op EXCEPT ![w] = "none"]
    /\ pc' = [pc EXCEPT ![w] = "idle"]
    /\ cfg' = [cfg EXCEPT ![w] = NoSecret]
    /\ tgt' = [tgt EXCEPT ![w] = "private"]
    /\ inFlight' = IF op[w] = "visibility" THEN inFlight ELSE inFlight \ {mod[w]}
    /\ UNCHANGED mod

\* Mutant: a failed install only returns.
Abort_Unmarked(w) == Return(w)

\* Mutant: a failed install releases the module before it marks the row.
Abort_ReleasedEarly(w) ==
    IF op[w] = "install"
    THEN /\ pc' = [pc EXCEPT ![w] = "fail"]
         /\ inFlight' = inFlight \ {mod[w]}
         /\ UNCHANGED <<op, mod, cfg, tgt>>
    ELSE Return(w)

\* A call failed: the install goroutine marks the row, the others just return.
Abort(w) == IF op[w] = "install" THEN Goto(w, "fail") ELSE Return(w)

afterRoutes(m) == IF m \in Pathed THEN "paths" ELSE "finish"
afterUp(m) == IF m \in Routed THEN "targets" ELSE afterRoutes(m)

----------------------------------------------------------------------------
(* Requests.                                                               *)

\* Mutant: beginOp stores without looking.
beginOp_Unchecked(w, m, o, first) ==
    /\ inFlight' = inFlight \union {m}
    /\ op' = [op EXCEPT ![w] = o]
    /\ pc' = [pc EXCEPT ![w] = first]
    /\ mod' = [mod EXCEPT ![w] = m]

beginOp(w, m, o, first) ==
    /\ m \notin inFlight
    /\ inFlight' = inFlight \union {m}
    /\ op' = [op EXCEPT ![w] = o]
    /\ pc' = [pc EXCEPT ![w] = first]
    /\ mod' = [mod EXCEPT ![w] = m]

\* What Install reads back: the row's configuration, the archive only when
\* there is no row. A query that fails is not told from one that finds
\* nothing, so the archive, or nothing, may stand in for a row that is there.
previousSecrets(m) ==
    {IF status[m] # "none" THEN secret[m] ELSE archive[m]}
        \union (IF Fails("read") THEN {archive[m], NoSecret} ELSE {})

\* Mutant: the install form alone decides.
mergedSecret_Forgetful(previous, typed) == typed

\* What the admin typed wins over what was stored, an empty field does not.
mergedSecret(previous, typed) == IF typed # NoSecret THEN typed ELSE previous

Install(w) ==
    /\ pc[w] = "idle"
    /\ \E m \in Modules : \E typed \in Typed, previous \in previousSecrets(m) :
        /\ beginOp(w, m, "install", "record")
        /\ cfg' = [cfg EXCEPT ![w] = mergedSecret(previous, typed)]
    /\ UNCHANGED <<rowVars, hostVars, nginxVars, tgt>>

Enable(w) ==
    /\ pc[w] = "idle"
    /\ \E m \in Modules : beginOp(w, m, "enable", "up")
    /\ UNCHANGED <<rowVars, hostVars, nginxVars, cfg, tgt>>

Disable(w) ==
    /\ pc[w] = "idle"
    /\ \E m \in Modules : beginOp(w, m, "disable", "unroute")
    /\ UNCHANGED <<rowVars, hostVars, nginxVars, cfg, tgt>>

Uninstall(w) ==
    /\ pc[w] = "idle"
    /\ \E m \in Modules : beginOp(w, m, "uninstall", "unroute")
    /\ UNCHANGED <<rowVars, hostVars, nginxVars, cfg, tgt>>

\* SetVisibility does not go through beginOp.
SetVisibility(w) ==
    /\ pc[w] = "idle"
    /\ \E m \in Modules, v \in {"private", "public"} :
        /\ op' = [op EXCEPT ![w] = "visibility"]
        /\ pc' = [pc EXCEPT ![w] = "save"]
        /\ mod' = [mod EXCEPT ![w] = m]
        /\ tgt' = [tgt EXCEPT ![w] = v]
    /\ UNCHANGED <<rowVars, hostVars, nginxVars, inFlight, cfg>>

----------------------------------------------------------------------------
(* The calls of the handlers, in the order each operation makes them.      *)

\* INSERT ... ON CONFLICT: a new row starts with an empty configuration and
\* private, an existing one keeps both.
RecordInstalling(w) ==
    LET m == mod[w] IN
    /\ pc[w] = "record"
    /\ \/ /\ status' = [status EXCEPT ![m] = "installing"]
          /\ Goto(w, "render")
       \/ /\ Fails("db")
          /\ UNCHANGED status
          /\ Return(w)
    /\ UNCHANGED <<secret, visibility, archive, hostVars, nginxVars>>

\* An empty secret field is generated, then the compose directory is written.
RenderCompose(w) ==
    LET m == mod[w] IN
    /\ pc[w] = "render"
    /\ \/ /\ cfg[w] # NoSecret \/ ~(Secrets \subseteq SecretsInUse)
          /\ LET s == IF cfg[w] # NoSecret THEN cfg[w] ELSE randomSecret IN
             /\ cfg' = [cfg EXCEPT ![w] = s]
             /\ dir' = [dir EXCEPT ![m] = s]
          /\ pc' = [pc EXCEPT ![w] = "up"]
          /\ UNCHANGED <<op, mod, tgt, inFlight>>
       \/ /\ Fails("render")
          /\ UNCHANGED dir
          /\ Goto(w, "fail")
    /\ UNCHANGED <<rowVars, ctr, vol, nginxVars>>

\* docker compose up -d: a first start initialises the volume, a later one
\* recreates the containers with the rendered environment. Without a rendered
\* directory it cannot run; when it fails it may have started the containers.
ComposeUp(w) ==
    LET m == mod[w]
        Started == /\ ctr' = [ctr EXCEPT ![m] = dir[m]]
                   /\ vol' = [vol EXCEPT ![m] = IF @ = NoSecret THEN dir[m] ELSE @]
    IN
    /\ pc[w] = "up"
    /\ \/ /\ dir[m] # NoSecret
          /\ Started
          /\ Goto(w, afterUp(m))
       \/ /\ Fails("up")
          /\ dir[m] # NoSecret
          /\ Started
          /\ Abort(w)
       \/ /\ Fails("up") \/ dir[m] = NoSecret
          /\ UNCHANGED <<ctr, vol>>
          /\ Abort(w)
    /\ UNCHANGED <<rowVars, dir, nginxVars>>

\* The visibility the next SetRoutes will publish; private without a row.
RouteTargets(w) ==
    LET m == mod[w] IN
    /\ pc[w] = "targets"
    /\ \/ /\ tgt' = [tgt EXCEPT ![w] = IF status[m] = "none" THEN "private"
                                        ELSE visibility[m]]
          /\ pc' = [pc EXCEPT ![w] = "routes"]
          /\ UNCHANGED <<op, mod, cfg, inFlight>>
       \/ /\ Fails("db")
          /\ Abort(w)
    /\ UNCHANGED <<rowVars, hostVars, nginxVars>>

\* Writes the vhost files. Nothing in proxy.Manager keeps other requests out
\* between the files and the reload that loads them.
SetRoutes(w) ==
    LET m == mod[w] IN
    /\ pc[w] = "routes"
    /\ \/ /\ vhost' = [vhost EXCEPT ![m] = tgt[w]]
          /\ Goto(w, "loadRoutes")
       \/ /\ Fails("write")
          /\ UNCHANGED vhost
          /\ Abort(w)
    /\ UNCHANGED <<rowVars, hostVars, snippet, liveHost, livePath>>

SetPathRoutes(w) ==
    LET m == mod[w] IN
    /\ pc[w] = "paths"
    /\ \/ /\ snippet' = [snippet EXCEPT ![m] = "portal"]
          /\ Goto(w, "loadPaths")
       \/ /\ Fails("write")
          /\ UNCHANGED snippet
          /\ Abort(w)
    /\ UNCHANGED <<rowVars, hostVars, vhost, liveHost, livePath>>

\* The call after a reload; SetVisibility's is its last.
afterReload(w) ==
    CASE pc[w] = "loadRoutes"   -> afterRoutes(mod[w])
      [] pc[w] = "loadPaths"    -> "finish"
      [] pc[w] = "unloadRoutes" -> "unpath"
      [] pc[w] = "unloadPaths"  -> "down"

Reloaded(w) == IF op[w] = "visibility" THEN Return(w) ELSE Goto(w, afterReload(w))

\* Mutant: the callers ignore that the reload failed.
ReloadNginx_Unchecked(w) ==
    /\ pc[w] \in Reloads
    /\ \/ liveHost' = vhost /\ livePath' = snippet
       \/ Fails("reload") /\ UNCHANGED <<liveHost, livePath>>
    /\ Reloaded(w)
    /\ UNCHANGED <<rowVars, hostVars, vhost, snippet>>

\* nginx loads every file as it is now, of all modules; a call that is given
\* up may have done so too.
ReloadNginx(w) ==
    /\ pc[w] \in Reloads
    /\ \/ /\ liveHost' = vhost
          /\ livePath' = snippet
          /\ Reloaded(w)
       \/ /\ Fails("reload")
          /\ \/ liveHost' = vhost /\ livePath' = snippet
             \/ UNCHANGED <<liveHost, livePath>>
          /\ Abort(w)
    /\ UNCHANGED <<rowVars, hostVars, vhost, snippet>>

\* UPDATE installed_modules ... WHERE module_id: no effect without a row.
setStatus(m, s) == status' = [status EXCEPT ![m] = IF @ = "none" THEN @ ELSE s]

\* The last UPDATE of doInstall, Enable and Disable.
RecordOutcome(w) ==
    LET m == mod[w] IN
    /\ pc[w] = "finish"
    /\ \/ /\ setStatus(m, IF op[w] = "disable" THEN "stopped" ELSE "running")
          /\ secret' = IF op[w] = "install" /\ status[m] # "none"
                       THEN [secret EXCEPT ![m] = cfg[w]] ELSE secret
          /\ Return(w)
       \/ /\ Fails("db")
          /\ UNCHANGED <<status, secret>>
          /\ Abort(w)
    /\ UNCHANGED <<visibility, archive, hostVars, nginxVars>>

\* Mutant: markError writes a status nobody knows.
markError_Unknown(w) ==
    /\ pc[w] = "fail"
    /\ setStatus(mod[w], "failed")
    /\ Return(w)
    /\ UNCHANGED <<secret, visibility, archive, hostVars, nginxVars>>

markError(w) ==
    /\ pc[w] = "fail"
    /\ \/ setStatus(mod[w], "error")
       \/ Fails("mark") /\ UNCHANGED status
    /\ Return(w)
    /\ UNCHANGED <<secret, visibility, archive, hostVars, nginxVars>>

\* With no vhost file left there is nothing to reload for.
RemoveRoutes(w) ==
    LET m == mod[w] IN
    /\ pc[w] = "unroute"
    /\ \/ /\ vhost' = [vhost EXCEPT ![m] = "none"]
          /\ Goto(w, IF vhost[m] = "none" THEN "unpath" ELSE "unloadRoutes")
       \/ /\ Fails("write")
          /\ UNCHANGED vhost
          /\ Return(w)
    /\ UNCHANGED <<rowVars, hostVars, snippet, liveHost, livePath>>

RemovePathRoutes(w) ==
    LET m == mod[w] IN
    /\ pc[w] = "unpath"
    /\ \/ /\ snippet' = [snippet EXCEPT ![m] = "none"]
          /\ Goto(w, IF snippet[m] = "none" THEN "down" ELSE "unloadPaths")
       \/ /\ Fails("write")
          /\ UNCHANGED snippet
          /\ Return(w)
    /\ UNCHANGED <<rowVars, hostVars, vhost, liveHost, livePath>>

\* docker compose down runs in the rendered directory and keeps the volume.
ComposeDown(w) ==
    LET m == mod[w] IN
    /\ pc[w] = "down"
    /\ \/ /\ dir[m] # NoSecret
          /\ ctr' = [ctr EXCEPT ![m] = NoSecret]
          /\ Goto(w, IF op[w] = "disable" THEN "finish" ELSE "rmdir")
       \/ /\ Fails("down")
          /\ dir[m] # NoSecret
          /\ ctr' = [ctr EXCEPT ![m] = NoSecret]
          /\ Return(w)
       \/ /\ Fails("down") \/ dir[m] = NoSecret
          /\ UNCHANGED ctr
          /\ Return(w)
    /\ UNCHANGED <<rowVars, dir, vol, nginxVars>>

RemoveDir(w) ==
    /\ pc[w] = "rmdir"
    /\ \/ /\ dir' = [dir EXCEPT ![mod[w]] = NoSecret]
          /\ Goto(w, "archive")
       \/ /\ Fails("write")
          /\ UNCHANGED dir
          /\ Return(w)
    /\ UNCHANGED <<rowVars, ctr, vol, nginxVars>>

\* Mutant: an old archive entry is kept.
ArchiveConfig_KeepsOld(w) ==
    LET m == mod[w] IN
    /\ pc[w] = "archive"
    /\ archive' = IF status[m] = "none" \/ archive[m] # NoSecret THEN archive
                  ELSE [archive EXCEPT ![m] = secret[m]]
    /\ Goto(w, "delete")
    /\ UNCHANGED <<status, secret, visibility, hostVars, nginxVars>>

\* INSERT ... SELECT: nothing to archive without a row.
ArchiveConfig(w) ==
    LET m == mod[w] IN
    /\ pc[w] = "archive"
    /\ \/ /\ archive' = IF status[m] = "none" THEN archive
                        ELSE [archive EXCEPT ![m] = secret[m]]
          /\ Goto(w, "delete")
       \/ /\ Fails("db")
          /\ UNCHANGED archive
          /\ Return(w)
    /\ UNCHANGED <<status, secret, visibility, hostVars, nginxVars>>

\* Mutant: the failing return of Uninstall forgets done().
DeleteRow_Unreleased(w) ==
    LET m == mod[w] IN
    /\ pc[w] = "delete"
    /\ status' = [status EXCEPT ![m] = "none"]
    /\ secret' = [secret EXCEPT ![m] = NoSecret]
    /\ visibility' = [visibility EXCEPT ![m] = "private"]
    /\ op' = [op EXCEPT ![w] = "none"]
    /\ pc' = [pc EXCEPT ![w] = "idle"]
    /\ UNCHANGED <<archive, hostVars, nginxVars, inFlight, mod, cfg, tgt>>

DeleteRow(w) ==
    LET m == mod[w] IN
    /\ pc[w] = "delete"
    /\ \/ /\ status' = [status EXCEPT ![m] = "none"]
          /\ secret' = [secret EXCEPT ![m] = NoSecret]
          /\ visibility' = [visibility EXCEPT ![m] = "private"]
       \/ /\ Fails("db")
          /\ UNCHANGED <<status, secret, visibility>>
    /\ Return(w)
    /\ UNCHANGED <<archive, hostVars, nginxVars>>

SaveVisibility(w) ==
    LET m == mod[w] IN
    /\ pc[w] = "save"
    /\ \/ /\ visibility' = IF status[m] = "none" THEN visibility
                           ELSE [visibility EXCEPT ![m] = tgt[w]]
          /\ IF m \in Routed THEN Goto(w, "targets") ELSE Return(w)
       \/ /\ Fails("db")
          /\ UNCHANGED visibility
          /\ Return(w)
    /\ UNCHANGED <<status, secret, archive, hostVars, nginxVars>>

\* The platform's process dies and starts again: the requests and the claims
\* are gone, everything the stores hold stays as it was.
Crash ==
    /\ Fails("crash")
    /\ inFlight' = {}
    /\ op' = [w \in Workers |-> "none"]
    /\ pc' = [w \in Workers |-> "idle"]
    /\ cfg' = [w \in Workers |-> NoSecret]
    /\ tgt' = [w \in Workers |-> "private"]
    /\ UNCHANGED <<rowVars, hostVars, nginxVars, mod>>

----------------------------------------------------------------------------

Request(w) == Install(w) \/ Enable(w) \/ Disable(w) \/ Uninstall(w) \/ SetVisibility(w)

Step(w) ==
    \/ RecordInstalling(w)
    \/ RenderCompose(w)
    \/ ComposeUp(w)
    \/ RouteTargets(w)
    \/ SetRoutes(w)
    \/ SetPathRoutes(w)
    \/ ReloadNginx(w)
    \/ RecordOutcome(w)
    \/ markError(w)
    \/ RemoveRoutes(w)
    \/ RemovePathRoutes(w)
    \/ ComposeDown(w)
    \/ RemoveDir(w)
    \/ ArchiveConfig(w)
    \/ DeleteRow(w)
    \/ SaveVisibility(w)

Next == Crash \/ \E w \in Workers : Request(w) \/ Step(w)

\* Every accepted request keeps being scheduled, and longOp's timeout ends
\* every call; nobody is obliged to send requests, and no crash is promised.
Fairness == \A w \in Workers : WF_vars(Step(w))

Spec == Init /\ [][Next]_vars /\ Fairness

----------------------------------------------------------------------------
(* Properties.                                                             *)

Busy(m) == m \in inFlight

\* The calls doInstall, Enable, Disable and Uninstall make under the claim.
Holds(w, m) == op[w] \notin {"none", "visibility"} /\ mod[w] = m

\* beginOp's promise: two lifecycle operations never run on one module at the
\* same time, and the claim is held exactly while an operation is under way,
\* through every early return and failure path.
OneOperationPerModule ==
    \A m \in Modules :
        /\ Busy(m) <=> \E w \in Workers : Holds(w, m)
        /\ \A v, w \in Workers : Holds(v, m) /\ Holds(w, m) => v = w

\* The UPDATEs at the end of the install goroutine do not check that they hit
\* a row. They always do: from the moment the install is recorded until it
\* settles, the row is there and says "installing".
InstallOwnsItsRow ==
    \A w \in Workers :
        op[w] = "install" /\ pc[w] # "record" => status[mod[w]] = "installing"

\* The recorded secret is the one in use: a module that has a recorded secret
\* is rendered with it and its containers were started with it, even when an
\* operation stopped half-way.
DeployedSecretsAgree ==
    \A m \in Modules : secret[m] # NoSecret =>
        dir[m] \in {NoSecret, secret[m]} /\ ctr[m] \in {NoSecret, secret[m]}

\* A recorded secret outlives the row: it leaves the row only once the
\* archive holds it, whatever call of Uninstall fails or whichever requests
\* come in between, and only the row it replaces can overwrite the archive.
ConfigKept ==
    \A m \in Modules :
        /\ secret[m] # NoSecret /\ secret'[m] = NoSecret => archive'[m] = secret[m]
        /\ archive'[m] # archive[m] => archive'[m] = secret[m]

ConfigSurvivesUninstall == [][ConfigKept]_vars

\* What the status says was true when it was recorded: a module becomes
\* "running" only with its containers up on the rendered environment and its
\* routes loaded in nginx, and "stopped" only with its containers gone; no
\* other request undid an earlier step in between.
StatusTrue ==
    \A m \in Modules :
        /\ status[m] # "running" /\ status'[m] = "running" =>
             /\ ctr[m] # NoSecret /\ ctr[m] = dir[m]
             /\ m \in Routed => vhost[m] # "none" /\ liveHost[m] # "none"
             /\ m \in Pathed => livePath[m] # "none"
        /\ status[m] # "stopped" /\ status'[m] = "stopped" => ctr[m] = NoSecret

StatusIsTrueWhenRecorded == [][StatusTrue]_vars

\* Every operation ends and releases its module, whatever fails: no failure
\* path forgets done(), and after a crash nothing stays claimed.
ClaimsAreReleased == \A m \in Modules : Busy(m) ~> ~Busy(m)

\* The claim on a module, as the service shows it: the operation that holds it,
\* and of an install whether it is announced.
ShownAs(w) == IF op[w] = "install" /\ pc[w] # "record" THEN "announced" ELSE op[w]
claims == [m \in Modules |->
              IF Busy(m) THEN ShownAs(CHOOSE w \in Workers : Holds(w, m)) ELSE "free"]

\* Refinement: seen through its status and its claim, the manager is the
\* service of ModuleClaim. In particular an announced install always settles
\* to "running" or "error" in the step that releases the module, whatever
\* call of it fails (but for the one that writes "error"), and only the
\* operation that holds a module moves its status.
Claims == INSTANCE ModuleClaim WITH
    Restarts <- Fails("crash"), state <- status, claim <- claims

ImplementsModuleClaim == Claims!Spec

\* A module that is set to private is not served to the internet: once no
\* request is under way, nginx serves the visibility that is recorded.
VisibilityIsHonoured ==
    \A m \in Modules :
        /\ \A w \in Workers : pc[w] = "idle"
        /\ visibility[m] = "private"
        => liveHost[m] # "public"

\* Installing a module again reuses the secrets its data volume was
\* initialised with: the recorded secret is never another one.
SecretsMatchTheVolume ==
    \A m \in Modules :
        secret[m] # NoSecret /\ vol[m] # NoSecret => vol[m] = secret[m]

=============================================================================
