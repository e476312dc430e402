--------------------------------- MODULE Phones --------------------------------
(***************************************************************************)
(* The phone service: the admin's requests change rows of the database,    *)
(* and each then runs Apply (router.go), which renders Asterisk's three    *)
(* configuration files from the rows and tells Asterisk to reload.  Two    *)
(* requests run at once; a mutex serialises Apply, whose three reads are   *)
(* not one transaction.  The service and Asterisk stop at any moment.      *)
(*                                                                         *)
(* Names, owners and how a line of a file looks are left out.  The menu    *)
(* has one key; the greeting is uploaded by one request at a time.         *)
(***************************************************************************)
EXTENDS Integers, FiniteSets, TLC

CONSTANTS
    Numbers,      \* extensions an admin may use
    Workers,
    Flaky,        \* what may fail: "db", "write", "ami"
    MaxPasswords, MaxRequests, MaxEvents \* bounds

ASSUME PhoneConstants ==
    /\ Numbers # {} /\ Workers # {} /\ "nobody" \notin Numbers \union Workers
    /\ Flaky \subseteq {"db", "write", "ami"}
    /\ MaxPasswords \in Nat \ {0} /\ {MaxRequests, MaxEvents} \subseteq Nat

VARIABLES
    pw,       \* voip_extensions: each number's SIP password, 0 for no row
    main,     \* voip_extensions: the numbers in the main group
    trunk,    \* voip_settings: the outside line
    menu,     \* voip_settings and voip_ivr_options: the phone menu
    greeting, \* the greeting file: none, too short to count, or good
    files,    \* the generated files in the shared volume
    running,  \* what Asterisk has loaded of them
    asterisk, \* "down", "up", or the file it is about to read as it starts
    serving,  \* the phone service has started
    applyMu,  \* who holds it
    job,      \* each worker's request
    failing, asked, lastPw, events, \* bounds; events: stops and recordings by phone
    unapplied, \* history: a change was saved and its Apply did not get through
    recorded,  \* history: the greeting was recorded by phone since the last Apply
    unloaded,  \* history: Asterisk missed a reload
    retired    \* history: passwords an admin has replaced or deleted, and was told so

rows    == <<pw, main, trunk, menu>>
engine  == <<files, running, asterisk>>
bounds  == <<failing, asked, lastPw, events>>
history == <<unapplied, recorded, unloaded, retired>>
vars == <<rows, greeting, engine, serving, applyMu, job, bounds, history>>

Nobody   == "nobody"
Files    == {"pjsip", "dialplan", "voicemail"}
Lines    == {"off", "national", "international"}
NoMenu   == [on |-> FALSE, recorder |-> Nobody, targets |-> {}]
Menus    == [on : BOOLEAN, recorder : Numbers \union {Nobody}, targets : SUBSET Numbers]
Existing == {n \in Numbers : pw[n] # 0}

\* What Apply knows: the extensions, the line, the menu with HasGreeting.
Now == [pw |-> pw, main |-> main, trunk |-> trunk, menu |-> menu, has |-> greeting = "good"]

Idle == [op |-> "none", pc |-> "idle", num |-> Nobody, main |-> FALSE,
         trunk |-> [line |-> "off", pw |-> 0], menu |-> NoMenu, old |-> 0,
         seen |-> [pw |-> [n \in Numbers |-> 0], main |-> {},
                   trunk |-> [line |-> "off", pw |-> 0], menu |-> NoMenu, has |-> FALSE],
         todo |-> {}, missed |-> FALSE]

----------------------------------------------------------------------------
(* Render: the contents of the three files.                                *)

Listed(s) == {n \in Numbers : s.pw[n] # 0}

\* Mutant: the keys ring whom they were set up for.
renderMenu_Deleted(s) == IF s.menu.on /\ s.has THEN s.menu.targets ELSE {}

\* Whom the menu's key rings; {} for no menu.
renderMenu(s) == IF s.menu.on /\ s.has THEN s.menu.targets \intersect Listed(s) ELSE {}

renderPJSIP(s) == [phones |-> s.pw, trunk |-> IF s.trunk.line = "off" THEN 0 ELSE s.trunk.pw]
renderDialplan(s) == [phones |-> Listed(s), ring |-> s.main \intersect Listed(s),
                      line |-> s.trunk.line, menu |-> renderMenu(s),
                      recorder |-> s.menu.recorder]
renderVoicemail(s) == Listed(s)
Render(s) == [pjsip |-> renderPJSIP(s), dialplan |-> renderDialplan(s),
              voicemail |-> renderVoicemail(s)]

TypeOK ==
    /\ pw \in [Numbers -> 0 .. MaxPasswords] /\ main \subseteq Existing
    /\ trunk \in [line : Lines, pw : 0 .. 1] /\ (trunk.line # "off" => trunk.pw # 0)
    /\ menu \in Menus /\ greeting \in {"none", "short", "good"}
    /\ DOMAIN files = Files /\ DOMAIN running = Files
    /\ asterisk \in {"down", "up"} \union Files /\ serving \in BOOLEAN
    /\ applyMu \in Workers \union {Nobody}
    /\ \A w \in Workers :
        /\ job[w].op \in {"none", "start", "create", "update", "reset", "delete", "menu",
                          "settings", "upload"}
        /\ applyMu = w <=> job[w].pc \in {"extensions", "line", "ivr", "write", "reload"}
    /\ failing \in Flaky \union {"nothing"}
    /\ asked \in 0 .. MaxRequests /\ lastPw \in 0 .. MaxPasswords
    /\ events \in 0 .. MaxEvents
    /\ \A p, q \in Numbers : pw[p] = pw[q] /\ pw[p] # 0 => p = q

\* One phone is set up, in the main group, perhaps with a menu, and all is running.
Init ==
    /\ \E n \in Numbers :
        /\ pw = [m \in Numbers |-> IF m = n THEN 1 ELSE 0] /\ main = {n}
        /\ \/ greeting = "none" /\ menu = NoMenu
           \/ greeting = "good" /\ menu = [on |-> TRUE, recorder |-> n, targets |-> {n}]
    /\ trunk = [line |-> "off", pw |-> 0]
    /\ files = Render(Now) /\ running = files
    /\ asterisk = "up" /\ serving = TRUE
    /\ applyMu = Nobody /\ job = [w \in Workers |-> Idle]
    /\ failing \in Flaky \union {"nothing"}
    /\ asked = 0 /\ lastPw = 1 /\ events = 0
    /\ unapplied = FALSE /\ recorded = FALSE /\ unloaded = FALSE /\ retired = {}

----------------------------------------------------------------------------
(* Requests: what each writes before it runs Apply.                        *)

Goto(w, pc) == job' = [job EXCEPT ![w].pc = pc]
Refuse(w) == job' = [job EXCEPT ![w] = Idle]
Fails(what) == failing = what

Begin(w, request) ==
    /\ serving /\ job[w].op = "none" /\ asked < MaxRequests
    /\ asked' = asked + 1
    /\ job' = [job EXCEPT ![w] = request]
    /\ UNCHANGED <<rows, greeting, engine, serving, applyMu, failing, lastPw, events, history>>

Request(w) ==
    \/ \E n \in Numbers, op \in {"create", "reset", "delete"} :
        Begin(w, [Idle EXCEPT !.op = op, !.pc = op, !.num = n])
    \/ \E n \in Numbers, b \in BOOLEAN :
        Begin(w, [Idle EXCEPT !.op = "update", !.pc = "update", !.num = n, !.main = b])
    \/ \E m \in Menus : Begin(w, [Idle EXCEPT !.op = "menu", !.pc = "check menu", !.menu = m])
    \/ \E line \in Lines, p \in 0 .. 1 :
        Begin(w, [Idle EXCEPT !.op = "settings", !.pc = "settings",
                              !.trunk = [line |-> line, pw |-> p]])
    \/ /\ \A v \in Workers : job[v].op # "upload"
       /\ Begin(w, [Idle EXCEPT !.op = "upload", !.pc = "upload"])

\* A statement on voip_extensions, and its frame; one that fails changes nothing.
Row(w, op) == job[w].pc = op /\ UNCHANGED <<trunk, menu, greeting, engine, serving, applyMu,
                                             failing, asked, events, history>>

CreateExtension(w) ==
    /\ Row(w, "create") /\ UNCHANGED main
    /\ \/ /\ pw[job[w].num] = 0 /\ lastPw < MaxPasswords
          /\ lastPw' = lastPw + 1 /\ pw' = [pw EXCEPT ![job[w].num] = lastPw + 1]
          /\ Goto(w, "lock")
       \/ (pw[job[w].num] # 0 \/ Fails("db")) /\ Refuse(w) /\ UNCHANGED <<pw, lastPw>>

UpdateExtension(w) ==
    /\ Row(w, "update") /\ UNCHANGED <<pw, lastPw>>
    /\ \/ /\ pw[job[w].num] # 0 /\ Goto(w, "lock")
          /\ main' = IF job[w].main THEN main \union {job[w].num} ELSE main \ {job[w].num}
       \/ (pw[job[w].num] = 0 \/ Fails("db")) /\ Refuse(w) /\ UNCHANGED main

Secret(w, n) == job' = [job EXCEPT ![w].pc = "lock", ![w].old = pw[n]]

ResetPassword(w) ==
    /\ Row(w, "reset") /\ UNCHANGED main
    /\ \/ /\ pw[job[w].num] # 0 /\ lastPw < MaxPasswords
          /\ lastPw' = lastPw + 1 /\ pw' = [pw EXCEPT ![job[w].num] = lastPw + 1]
          /\ Secret(w, job[w].num)
       \/ (pw[job[w].num] = 0 \/ Fails("db")) /\ Refuse(w) /\ UNCHANGED <<pw, lastPw>>

\* The menu goes on naming the number.
DeleteExtension(w) ==
    /\ Row(w, "delete") /\ UNCHANGED lastPw
    /\ \/ /\ pw[job[w].num] # 0 /\ Secret(w, job[w].num)
          /\ pw' = [pw EXCEPT ![job[w].num] = 0] /\ main' = main \ {job[w].num}
       \/ (pw[job[w].num] = 0 \/ Fails("db")) /\ Refuse(w) /\ UNCHANGED <<pw, main>>

\* The extensions and the greeting are looked up first.
CheckMenu(w) ==
    LET m == job[w].menu
        valid == /\ m.recorder # Nobody => m.recorder \in Existing
                 /\ m.targets \subseteq Existing
                 /\ m.on => greeting = "good" /\ m.targets # {}
    IN
    /\ job[w].pc = "check menu"
    /\ \/ valid /\ Goto(w, "menu")
       \/ (~valid \/ Fails("db")) /\ Refuse(w)
    /\ UNCHANGED <<rows, greeting, engine, serving, applyMu, bounds, history>>

\* One transaction.
SaveMenu(w) ==
    /\ job[w].pc = "menu"
    /\ \/ menu' = job[w].menu /\ Goto(w, "lock")
       \/ Fails("db") /\ Refuse(w) /\ UNCHANGED menu
    /\ UNCHANGED <<pw, main, trunk, greeting, engine, serving, applyMu, bounds, history>>

\* No password given keeps the saved one, which is read first.
ReadSettings(w) ==
    LET kept == IF job[w].trunk.pw = 0 THEN trunk.pw ELSE job[w].trunk.pw IN
    /\ job[w].pc = "settings"
    /\ \/ /\ job[w].trunk.line # "off" => kept # 0
          /\ job' = [job EXCEPT ![w].pc = "save settings", ![w].trunk.pw = kept]
       \/ ((job[w].trunk.line # "off" /\ kept = 0) \/ Fails("db")) /\ Refuse(w)
    /\ UNCHANGED <<rows, greeting, engine, serving, applyMu, bounds, history>>

SaveSettings(w) ==
    /\ job[w].pc = "save settings"
    /\ \/ trunk' = job[w].trunk /\ Goto(w, "lock")
       \/ Fails("db") /\ Refuse(w) /\ UNCHANGED trunk
    /\ UNCHANGED <<pw, main, menu, greeting, engine, serving, applyMu, bounds, history>>

\* convertGreeting: the file is replaced when ffmpeg has succeeded.
UploadGreeting(w) ==
    /\ job[w].pc = "upload"
    /\ \/ greeting' = "good" /\ Goto(w, "lock")
       \/ Refuse(w) /\ UNCHANGED greeting
    /\ UNCHANGED <<rows, engine, serving, applyMu, bounds, history>>

----------------------------------------------------------------------------
(* Apply.                                                                  *)

\* Mutant: the mutex is not unlocked on the way out.
Error_NoDefer(w) ==
    /\ Refuse(w) /\ unapplied' = TRUE
    /\ UNCHANGED <<applyMu, running, asterisk, serving, retired>>

\* An error ends the request; at the start of the service it ends the process.
Error(w) ==
    /\ Refuse(w) /\ applyMu' = Nobody /\ unapplied' = TRUE
    /\ UNCHANGED <<running, asterisk, serving, retired>>

\* Mutant: an Apply that is under way is trusted to read this change, too.
Lock_TrustsOther(w) ==
    /\ job[w].pc = "lock"
    /\ \/ /\ applyMu = Nobody /\ applyMu' = w /\ Goto(w, "extensions")
          /\ UNCHANGED retired
       \/ /\ applyMu # Nobody /\ Refuse(w) /\ UNCHANGED applyMu
          /\ retired' = retired \union IF job[w].old = 0 THEN {}
                                       ELSE {[pw |-> job[w].old, loaded |-> TRUE]}
    /\ UNCHANGED <<rows, greeting, engine, serving, bounds, unapplied, recorded, unloaded>>

Lock(w) ==
    /\ job[w].pc = "lock" /\ applyMu = Nobody
    /\ applyMu' = w /\ Goto(w, "extensions")
    /\ UNCHANGED <<rows, greeting, engine, serving, bounds, history>>

LoadExtensions(w) ==
    /\ job[w].pc = "extensions"
    /\ \/ /\ job' = [job EXCEPT ![w].pc = "line", ![w].seen.pw = pw, ![w].seen.main = main]
          /\ unapplied' = FALSE \* whatever failed before is read now
          /\ UNCHANGED <<running, asterisk, serving, applyMu, retired>>
       \/ Fails("db") /\ Error(w)
    /\ UNCHANGED <<rows, greeting, files, bounds, recorded, unloaded>>

LoadSettings(w) ==
    /\ job[w].pc = "line"
    /\ \/ /\ job' = [job EXCEPT ![w].pc = "ivr", ![w].seen.trunk = trunk]
          /\ UNCHANGED <<running, asterisk, serving, applyMu, retired, unapplied>>
       \/ Fails("db") /\ Error(w)
    /\ UNCHANGED <<rows, greeting, files, bounds, recorded, unloaded>>

LoadIVR(w) ==
    /\ job[w].pc = "ivr"
    /\ \/ /\ job' = [job EXCEPT ![w].pc = "write", ![w].seen.menu = menu,
                                ![w].seen.has = greeting = "good", ![w].todo = Files]
          /\ recorded' = FALSE
          /\ UNCHANGED <<running, asterisk, serving, applyMu, retired, unapplied>>
       \/ Fails("db") /\ Error(w) /\ UNCHANGED recorded
    /\ UNCHANGED <<rows, greeting, files, bounds, unloaded>>

\* A map of files: any order, each by rename.
WriteFile(w) ==
    /\ job[w].pc = "write"
    /\ \/ \E f \in job[w].todo :
            /\ files' = [files EXCEPT ![f] = Render(job[w].seen)[f]]
            /\ job' = IF job[w].todo # {f} THEN [job EXCEPT ![w].todo = @ \ {f}]
                      ELSE [job EXCEPT ![w].pc = "reload", ![w].todo = Files,
                                       ![w].seen = Idle.seen]
            /\ UNCHANGED <<running, asterisk, serving, applyMu, retired, unapplied>>
       \/ Fails("write") /\ Error(w) /\ UNCHANGED files
    /\ UNCHANGED <<rows, greeting, bounds, recorded, unloaded>>

\* One session of three commands in this order; its failure is logged.
NextFile(todo) == IF "pjsip" \in todo THEN "pjsip"
               ELSE IF "dialplan" \in todo THEN "dialplan" ELSE "voicemail"

Reload(w) ==
    /\ job[w].pc = "reload" /\ job[w].todo # {}
    /\ LET f == NextFile(job[w].todo) IN
       \/ /\ asterisk = "up" /\ running' = [running EXCEPT ![f] = files[f]]
          /\ job' = [job EXCEPT ![w].todo = @ \ {f}] /\ UNCHANGED unloaded
       \/ /\ asterisk # "up" \/ Fails("ami")
          /\ job' = [job EXCEPT ![w].todo = {}, ![w].missed = TRUE]
          /\ unloaded' = TRUE /\ UNCHANGED running
    /\ UNCHANGED <<rows, greeting, files, asterisk, serving, applyMu, bounds,
                   unapplied, recorded, retired>>

\* The admin reads that it worked.
Reply(w) ==
    /\ job[w].pc = "reload" /\ job[w].todo = {}
    /\ Refuse(w) /\ applyMu' = Nobody
    /\ serving' = TRUE
    /\ unloaded' = (unloaded /\ job[w].missed)
    /\ retired' = retired \union IF job[w].old = 0 THEN {}
                                 ELSE {[pw |-> job[w].old, loaded |-> ~job[w].missed]}
    /\ UNCHANGED <<rows, greeting, engine, bounds, unapplied, recorded>>

----------------------------------------------------------------------------
(* The processes, and the phone.                                           *)

\* The service stops between two steps.  What it had saved may not be applied.
Stop ==
    /\ events < MaxEvents /\ events' = events + 1
    /\ serving' = FALSE /\ applyMu' = Nobody /\ unapplied' = TRUE
    /\ job' = [w \in Workers |-> Idle]
    /\ UNCHANGED <<rows, greeting, engine, failing, asked, lastPw, recorded, unloaded, retired>>

\* main applies the rows before it serves; Docker restarts it when that fails.
Start ==
    /\ ~serving /\ \A w \in Workers : job[w].op = "none"
    /\ \E w \in Workers :
        job' = [job EXCEPT ![w] = [Idle EXCEPT !.op = "start", !.pc = "lock"]]
    /\ UNCHANGED <<rows, greeting, engine, serving, applyMu, bounds, history>>

AsteriskStops ==
    /\ asterisk # "down" /\ events < MaxEvents /\ events' = events + 1
    /\ asterisk' = "down"
    /\ UNCHANGED <<rows, greeting, files, running, serving, applyMu, job, failing, asked,
                   lastPw, history>>

\* It reads the three files one after another and then answers.
AsteriskStarts ==
    /\ asterisk # "up"
    /\ asterisk' = CASE asterisk = "down" -> "pjsip" [] asterisk = "pjsip" -> "dialplan"
                     [] asterisk = "dialplan" -> "voicemail" [] asterisk = "voicemail" -> "up"
    /\ running' = IF asterisk = "down" THEN running
                  ELSE [running EXCEPT ![asterisk] = files[asterisk]]
    /\ UNCHANGED <<rows, greeting, files, serving, applyMu, job, bounds, history>>

\* *99 from the recorder's phone writes the greeting file itself.
RecordByPhone ==
    /\ asterisk = "up" /\ running.dialplan.recorder # Nobody
    /\ running.pjsip.phones[running.dialplan.recorder] # 0
    /\ events < MaxEvents /\ events' = events + 1
    /\ greeting' \in {"short", "good"} \ {greeting}
    /\ recorded' = TRUE
    /\ UNCHANGED <<rows, engine, serving, applyMu, job, failing, asked, lastPw,
                   unapplied, unloaded, retired>>

Step(w) ==
    \/ CreateExtension(w) \/ UpdateExtension(w) \/ ResetPassword(w) \/ DeleteExtension(w)
    \/ CheckMenu(w) \/ SaveMenu(w) \/ ReadSettings(w) \/ SaveSettings(w) \/ UploadGreeting(w)
    \/ Lock(w) \/ LoadExtensions(w) \/ LoadSettings(w) \/ LoadIVR(w)
    \/ WriteFile(w) \/ Reload(w) \/ Reply(w)

\* Which number and which worker it is makes no difference.
Symmetry == Permutations(Numbers) \union Permutations(Workers)

Next ==
    \/ \E w \in Workers : Request(w) \/ Step(w)
    \/ Stop \/ Start \/ AsteriskStops \/ AsteriskStarts \/ RecordByPhone

Spec == Init /\ [][Next]_vars

----------------------------------------------------------------------------
(* Properties.                                                             *)

Quiet == serving /\ \A w \in Workers : job[w].op = "none"

\* When nothing is in progress the files say what the rows say, and so does
\* Asterisk, in whatever order two requests wrote, read and reloaded - unless a
\* request ended with an error after it saved, Asterisk missed a reload, or the
\* greeting was recorded by phone (router.go: "so two saves at once can't
\* interleave writing files from two different DB snapshots").  The menu then
\* rings nobody who has no phone.
ConfigFollows ==
    Quiet /\ ~unapplied =>
        /\ ~recorded => files = Render(Now)
        /\ asterisk = "up" /\ ~unloaded =>
            /\ running = files
            /\ \A n \in running.dialplan.menu :
                   running.pjsip.phones[n] # 0 /\ n \in running.voicemail

\* A password an admin was told is replaced or deleted is in no file any more, and
\* no phone signs in with it unless Asterisk missed the reload.
RetiredStaysOut ==
    \A r \in retired : \A n \in Numbers :
        /\ files.pjsip.phones[n] # r.pw
        /\ r.loaded => running.pjsip.phones[n] # r.pw
=============================================================================
