--------------------------- MODULE Phones_proofs ---------------------------
(***************************************************************************)
(* Proofs about Phones, for any numbers, requests and failing calls.       *)
(***************************************************************************)
EXTENDS Phones, TLAPS

----------------------------------------------------------------------------
(* The inductive invariant.                                                *)

Ops == {"none", "start", "create", "update", "reset", "delete", "menu", "settings", "upload"}
Held == {"extensions", "line", "ivr", "write", "reload"}
Writes == {"create", "update", "reset", "delete", "menu", "save settings", "upload"}
PCs == {"idle", "check menu", "settings", "lock"} \union Writes \union Held

Trunks == [line : Lines, pw : 0 .. 1]
Secrets == [Numbers -> 0 .. MaxPasswords]
Views == [pw : Secrets, main : SUBSET Numbers, trunk : Trunks, menu : Menus, has : BOOLEAN]
Jobs == [op : Ops, pc : PCs, num : Numbers \union {Nobody}, main : BOOLEAN, trunk : Trunks,
         menu : Menus, old : 0 .. MaxPasswords, seen : Views, todo : SUBSET Files,
         missed : BOOLEAN]

\* The rows: every password was given out once.
RowsInv ==
    /\ pw \in Secrets /\ lastPw \in 0 .. MaxPasswords
    /\ \A n \in Numbers : pw[n] <= lastPw
    /\ \A p, q \in Numbers : pw[p] = pw[q] /\ pw[p] # 0 => p = q
    /\ main \subseteq Existing
    /\ trunk \in Trunks /\ (trunk.line # "off" => trunk.pw # 0)
    /\ menu \in Menus
    /\ greeting \in {"none", "short", "good"}

\* What a request has established by its next step.
JobOK(r) ==
    /\ r.op = "none" => r.pc = "idle"
    /\ r.pc \in {"create", "update", "reset", "delete"} => r.num \in Numbers
    /\ r.pc = "save settings" => (r.trunk.line # "off" => r.trunk.pw # 0)

JobsInv ==
    /\ job \in [Workers -> Jobs]
    /\ \A w \in Workers : JobOK(job[w])

\* Apply has one request in it at a time.
MutexInv ==
    /\ applyMu \in Workers \union {Nobody}
    /\ \A w \in Workers : applyMu = w <=> job[w].pc \in Held

EngineInv ==
    /\ files = [f \in Files |-> files[f]] /\ running = [f \in Files |-> running[f]]
    /\ asterisk \in {"down", "up"} \union Files

\* A request has saved and has not begun to apply what it saved.
Pending == \E w \in Workers : job[w].pc = "lock"

\* What the rows say, with a greeting or without.
NowHas(b) == [pw |-> pw, main |-> main, trunk |-> trunk, menu |-> menu, has |-> b]

\* The files say what the rows say; the greeting may have been recorded since.
FilesFollow ==
    /\ \E b \in BOOLEAN : files = Render(NowHas(b))
    /\ ~recorded => files = Render(Now)

\* What the request in Apply has read is what the rows say, or a request is
\* waiting that will read them again; what it has written is what it has read,
\* what it has loaded is what it has written.
ViewOK(w) ==
    /\ job[w].pc \in {"line", "ivr", "write"} /\ ~Pending =>
          job[w].seen.pw = pw /\ job[w].seen.main = main
    /\ job[w].pc \in {"ivr", "write"} /\ ~Pending => job[w].seen.trunk = trunk
    /\ job[w].pc = "write" /\ ~Pending => job[w].seen.menu = menu
    /\ job[w].pc = "write" /\ ~Pending /\ ~recorded => job[w].seen.has = (greeting = "good")
    /\ job[w].pc = "write" => \A f \in Files \ job[w].todo : files[f] = Render(job[w].seen)[f]
    /\ job[w].pc = "reload" /\ ~Pending => FilesFollow

LoadOK(w) ==
    /\ job[w].missed => job[w].pc = "reload" /\ unloaded
    /\ job[w].pc = "reload" /\ ~job[w].missed =>
          \A f \in Files \ job[w].todo : running[f] = files[f]

\* With nobody in Apply, and nothing failed, all is applied that no request is
\* waiting to apply.
AppliedInv ==
    applyMu = Nobody /\ ~unapplied =>
        /\ Pending \/ FilesFollow
        /\ ~unloaded => running = files

\* Nobody has a password p, nor will anyone get it.
GivenOut(p) == p \in 1 .. lastPw /\ \A n \in Numbers : pw[n] # p

\* The password p is not in the first of the files fs.
NotIn(p, fs) == \A n \in Numbers : fs["pjsip"].phones[n] # p

\* An old password is out of the rows, out of the view that is read after
\* that, out of the file written from it, and out of what is loaded from that.
OldOK(w) ==
    job[w].old # 0 =>
        /\ GivenOut(job[w].old)
        /\ job[w].pc \in {"line", "ivr", "write"} =>
              \A n \in Numbers : job[w].seen.pw[n] # job[w].old
        /\ (job[w].pc = "write" /\ "pjsip" \notin job[w].todo) \/ job[w].pc = "reload" =>
              NotIn(job[w].old, files)
        /\ job[w].pc = "reload" /\ "pjsip" \notin job[w].todo /\ ~job[w].missed =>
              NotIn(job[w].old, running)

RetiredInv ==
    \A r \in retired :
        /\ GivenOut(r.pw) /\ NotIn(r.pw, files) /\ (r.loaded => NotIn(r.pw, running))
        /\ \A w \in Workers : job[w].pc \in {"line", "ivr", "write"} =>
              \A n \in Numbers : job[w].seen.pw[n] # r.pw

BoundsInv ==
    /\ failing \in Flaky \union {"nothing"}
    /\ asked \in 0 .. MaxRequests /\ events \in 0 .. MaxEvents

PhonesInv ==
    /\ BoundsInv /\ RowsInv /\ JobsInv /\ MutexInv /\ EngineInv
    /\ \A w \in Workers : ViewOK(w) /\ LoadOK(w) /\ OldOK(w)
    /\ AppliedInv /\ RetiredInv
    /\ serving \in BOOLEAN

----------------------------------------------------------------------------
(* The helpers.                                                            *)

\* The bounds are numbers, and nobody is somebody else.
LEMMA Bounds ==
    /\ MaxPasswords \in Nat \ {0} /\ MaxRequests \in Nat /\ MaxEvents \in Nat
    /\ Nobody \notin Numbers /\ Nobody \notin Workers
  BY PhoneConstants DEF Nobody

\* The names of the requests and of their steps.
LEMMA Names ==
    /\ "none" \in Ops /\ "start" \in Ops /\ "create" \in Ops /\ "update" \in Ops
    /\ "reset" \in Ops /\ "delete" \in Ops /\ "menu" \in Ops /\ "settings" \in Ops
    /\ "upload" \in Ops
    /\ "idle" \in PCs /\ "check menu" \in PCs /\ "settings" \in PCs /\ "lock" \in PCs
    /\ "create" \in PCs /\ "update" \in PCs /\ "reset" \in PCs /\ "delete" \in PCs
    /\ "menu" \in PCs /\ "save settings" \in PCs /\ "upload" \in PCs
    /\ "extensions" \in PCs /\ "line" \in PCs /\ "ivr" \in PCs /\ "write" \in PCs
    /\ "reload" \in PCs
  BY DEF PCs, Ops, Writes, Held

\* What the parts of a request are.
LEMMA JobParts ==
    \A r \in Jobs :
        /\ r.op \in Ops /\ r.pc \in PCs /\ r.num \in Numbers \union {Nobody}
        /\ r.main \in BOOLEAN /\ r.trunk \in Trunks /\ r.menu \in Menus
        /\ r.old \in 0 .. MaxPasswords /\ r.seen \in Views /\ r.todo \in SUBSET Files
        /\ r.missed \in BOOLEAN
  BY Zenon DEF Jobs

\* There is a request of every kind, and none.
LEMMA NoJob ==
    /\ NoMenu \in Menus /\ Idle \in Jobs /\ JobOK(Idle)
    /\ Idle.op = "none" /\ Idle.pc = "idle" /\ Idle.old = 0 /\ ~Idle.missed
  <1>1. NoMenu \in Menus
    <2>1. FALSE \in BOOLEAN /\ Nobody \in Numbers \union {Nobody} /\ {} \in SUBSET Numbers
      OBVIOUS
    <2> QED
      BY <2>1, Zenon DEF NoMenu, Menus
  <1> DEFINE t == [line |-> "off", pw |-> 0]
             v == [pw |-> [n \in Numbers |-> 0], main |-> {}, trunk |-> t, menu |-> NoMenu,
                   has |-> FALSE]
  <1>2. t \in Trunks
    BY DEF Trunks, Lines
  <1>3. v \in Views
    <2>1. [n \in Numbers |-> 0] \in Secrets
      BY Bounds DEF Secrets
    <2>2. {} \in SUBSET Numbers /\ FALSE \in BOOLEAN
      OBVIOUS
    <2> HIDE DEF t
    <2> QED
      BY <1>1, <1>2, <2>1, <2>2, Zenon DEF Views
  <1>4. Idle.op = "none" /\ Idle.pc = "idle" /\ Idle.old = 0 /\ Idle.missed = FALSE
    BY Zenon DEF Idle
  <1>5. Idle \in Jobs
    <2>1. 0 \in 0 .. MaxPasswords
      BY Bounds
    <2>3. {} \in SUBSET Files /\ Nobody \in Numbers \union {Nobody} /\ FALSE \in BOOLEAN
      OBVIOUS
    <2>2. Idle = [op |-> "none", pc |-> "idle", num |-> Nobody, main |-> FALSE,
                  trunk |-> t, menu |-> NoMenu, old |-> 0, seen |-> v, todo |-> {},
                  missed |-> FALSE]
      BY Zenon DEF Idle
    <2> HIDE DEF t, v
    <2> QED
      BY <1>1, <1>2, <1>3, <2>1, <2>2, <2>3, Names, Zenon DEF Jobs
  <1> QED
    BY <1>1, <1>4, <1>5 DEF JobOK

\* A request that moves on is one.
LEMMA JobTouched ==
    ASSUME NEW r \in Jobs
    PROVE  /\ \A p \in PCs : LET c == [r EXCEPT !.pc = p] IN
                 c \in Jobs /\ c.pc = p /\ c.op = r.op /\ c.trunk = r.trunk /\ c.num = r.num
                 /\ c.old = r.old /\ c.missed = r.missed /\ c.menu = r.menu
           /\ \A p \in PCs, o \in 0 .. MaxPasswords :
                 LET c == [r EXCEPT !.pc = p, !.old = o] IN
                 c \in Jobs /\ c.pc = p /\ c.op = r.op /\ c.old = o /\ c.missed = r.missed
           /\ \A p \in PCs, t \in Trunks :
                 LET c == [r EXCEPT !.pc = p, !.trunk = t] IN
                 c \in Jobs /\ c.pc = p /\ c.op = r.op /\ c.trunk = t /\ c.old = r.old
                 /\ c.missed = r.missed
  BY DEF Jobs

----------------------------------------------------------------------------
(* The steps: what becomes of the requests.                                *)

\* What Apply reads of the rows, request by request.
LEMMA Reads ==
    ASSUME JobsInv, NEW w \in Workers
    PROVE  /\ \A p \in Secrets, m \in SUBSET Numbers :
                 job' = [job EXCEPT ![w].pc = "line", ![w].seen.pw = p, ![w].seen.main = m] =>
                 /\ job'[w] \in Jobs /\ job'[w].pc = "line" /\ job'[w].op = job[w].op
                 /\ job'[w].old = job[w].old /\ job'[w].missed = job[w].missed
                 /\ job'[w].seen.pw = p /\ job'[w].seen.main = m
           /\ \A t \in Trunks :
                 job' = [job EXCEPT ![w].pc = "ivr", ![w].seen.trunk = t] =>
                 /\ job'[w] \in Jobs /\ job'[w].pc = "ivr" /\ job'[w].op = job[w].op
                 /\ job'[w].old = job[w].old /\ job'[w].missed = job[w].missed
                 /\ job'[w].seen.pw = job[w].seen.pw /\ job'[w].seen.main = job[w].seen.main
                 /\ job'[w].seen.trunk = t
           /\ \A m \in Menus, b \in BOOLEAN :
                 job' = [job EXCEPT ![w].pc = "write", ![w].seen.menu = m, ![w].seen.has = b,
                                    ![w].todo = Files] =>
                 /\ job'[w] \in Jobs /\ job'[w].pc = "write" /\ job'[w].op = job[w].op
                 /\ job'[w].old = job[w].old /\ job'[w].missed = job[w].missed
                 /\ job'[w].seen.pw = job[w].seen.pw /\ job'[w].seen.main = job[w].seen.main
                 /\ job'[w].seen.trunk = job[w].seen.trunk
                 /\ job'[w].seen.menu = m /\ job'[w].seen.has = b /\ job'[w].todo = Files
  <1>0. /\ job \in [Workers -> Jobs] /\ job[w] \in Jobs /\ job[w].seen \in Views
        /\ job[w].todo \in SUBSET Files
    BY JobParts DEF JobsInv
  <1>1. ASSUME NEW p \in Secrets, NEW m \in SUBSET Numbers,
               job' = [job EXCEPT ![w].pc = "line", ![w].seen.pw = p, ![w].seen.main = m]
        PROVE  /\ job'[w] \in Jobs /\ job'[w].pc = "line" /\ job'[w].op = job[w].op
               /\ job'[w].old = job[w].old /\ job'[w].missed = job[w].missed
               /\ job'[w].seen.pw = p /\ job'[w].seen.main = m
    <2> DEFINE v == [job[w].seen EXCEPT !.pw = p, !.main = m]
    <2>1. job'[w] = [job[w] EXCEPT !.pc = "line", !.seen = v, !.todo = job[w].todo]
      BY <1>0, <1>1, Zenon DEF Jobs, Views
    <2>2. v \in Views /\ v.pw = p /\ v.main = m
      BY <1>0, <1>1 DEF Views
    <2> HIDE DEF v
    <2>3. "line" \in PCs /\ Files \in SUBSET Files
      BY Names
    <2>4. /\ job'[w] \in Jobs /\ job'[w].pc = "line" /\ job'[w].op = job[w].op
          /\ job'[w].seen = v /\ job'[w].todo = job[w].todo /\ job'[w].old = job[w].old
          /\ job'[w].missed = job[w].missed
      BY <1>0, <2>1, <2>2, <2>3 DEF Jobs
    <2> QED
      BY <2>2, <2>4, Zenon
  <1>2. ASSUME NEW t \in Trunks, job' = [job EXCEPT ![w].pc = "ivr", ![w].seen.trunk = t]
        PROVE  /\ job'[w] \in Jobs /\ job'[w].pc = "ivr" /\ job'[w].op = job[w].op
               /\ job'[w].old = job[w].old /\ job'[w].missed = job[w].missed
               /\ job'[w].seen.pw = job[w].seen.pw /\ job'[w].seen.main = job[w].seen.main
               /\ job'[w].seen.trunk = t
    <2> DEFINE v == [job[w].seen EXCEPT !.trunk = t]
    <2>1. job'[w] = [job[w] EXCEPT !.pc = "ivr", !.seen = v, !.todo = job[w].todo]
      BY <1>0, <1>2, Zenon DEF Jobs, Views
    <2>2. /\ v \in Views /\ v.pw = job[w].seen.pw /\ v.main = job[w].seen.main
          /\ v.trunk = t
      BY <1>0, <1>2 DEF Views
    <2> HIDE DEF v
    <2>3. "ivr" \in PCs /\ Files \in SUBSET Files
      BY Names
    <2>4. /\ job'[w] \in Jobs /\ job'[w].pc = "ivr" /\ job'[w].op = job[w].op
          /\ job'[w].seen = v /\ job'[w].todo = job[w].todo /\ job'[w].old = job[w].old
          /\ job'[w].missed = job[w].missed
      BY <1>0, <2>1, <2>2, <2>3 DEF Jobs
    <2> QED
      BY <2>2, <2>4, Zenon
  <1>3. ASSUME NEW m \in Menus, NEW b \in BOOLEAN,
               job' = [job EXCEPT ![w].pc = "write", ![w].seen.menu = m, ![w].seen.has = b,
                                  ![w].todo = Files]
        PROVE  /\ job'[w] \in Jobs /\ job'[w].pc = "write" /\ job'[w].op = job[w].op
               /\ job'[w].old = job[w].old /\ job'[w].missed = job[w].missed
               /\ job'[w].seen.pw = job[w].seen.pw /\ job'[w].seen.main = job[w].seen.main
               /\ job'[w].seen.trunk = job[w].seen.trunk
               /\ job'[w].seen.menu = m /\ job'[w].seen.has = b /\ job'[w].todo = Files
    <2> DEFINE v == [job[w].seen EXCEPT !.menu = m, !.has = b]
    <2>1. job'[w] = [job[w] EXCEPT !.pc = "write", !.seen = v, !.todo = Files]
      BY <1>0, <1>3, Zenon DEF Jobs, Views
    <2>2. /\ v \in Views /\ v.pw = job[w].seen.pw /\ v.main = job[w].seen.main
          /\ v.trunk = job[w].seen.trunk /\ v.menu = m /\ v.has = b
      BY <1>0, <1>3, Zenon DEF Views
    <2> HIDE DEF v
    <2>3. "write" \in PCs /\ Files \in SUBSET Files
      BY Names
    <2>4. /\ job'[w] \in Jobs /\ job'[w].pc = "write" /\ job'[w].op = job[w].op
          /\ job'[w].seen = v /\ job'[w].todo = Files /\ job'[w].old = job[w].old
          /\ job'[w].missed = job[w].missed
      BY <1>0, <2>1, <2>2, <2>3 DEF Jobs
    <2> QED
      BY <2>2, <2>4, Zenon
  <1> QED
    BY <1>1, <1>2, <1>3

\* A request that begins knows what it asks for, and has read nothing.
LEMMA Begun ==
    ASSUME JobsInv, NEW w \in Workers, Request(w)
    PROVE  /\ job' = [job EXCEPT ![w] = job'[w]] /\ job'[w] \in Jobs /\ JobOK(job'[w])
           /\ job[w].op = "none" /\ serving
           /\ job'[w].pc \in {"create", "reset", "delete", "update", "check menu", "settings",
                              "upload"}
           /\ job'[w].old = 0 /\ ~job'[w].missed
           /\ UNCHANGED <<rows, greeting, engine, serving, applyMu, failing, lastPw, events,
                          history>>
           /\ asked < MaxRequests /\ asked' = asked + 1
  <1>0. /\ job \in [Workers -> Jobs] /\ Idle \in Jobs
        /\ Idle.pc = "idle" /\ Idle.old = 0 /\ ~Idle.missed
    BY NoJob DEF JobsInv
  <1>1. ASSUME NEW r \in Jobs, JobOK(r), r.old = 0, ~r.missed, Begin(w, r),
               r.pc \in {"create", "reset", "delete", "update", "check menu", "settings",
                         "upload"}
        PROVE  /\ job' = [job EXCEPT ![w] = job'[w]] /\ job'[w] \in Jobs /\ JobOK(job'[w])
               /\ job[w].op = "none" /\ serving
               /\ job'[w].pc \in {"create", "reset", "delete", "update", "check menu",
                                  "settings", "upload"}
               /\ job'[w].old = 0 /\ ~job'[w].missed
               /\ UNCHANGED <<rows, greeting, engine, serving, applyMu, failing, lastPw,
                              events, history>>
               /\ asked < MaxRequests /\ asked' = asked + 1
    <2>1. /\ job' = [job EXCEPT ![w] = r] /\ job[w].op = "none" /\ serving
          /\ UNCHANGED <<rows, greeting, engine, serving, applyMu, failing, lastPw,
                         events, history>>
          /\ asked < MaxRequests /\ asked' = asked + 1
      BY <1>1, Zenon DEF Begin
    <2>2. job'[w] = r
      BY <1>0, <2>1
    <2> QED
      BY <1>1, <2>1, <2>2
  <1>2. ASSUME NEW n \in Numbers, NEW op \in {"create", "reset", "delete"}
        PROVE  LET r == [Idle EXCEPT !.op = op, !.pc = op, !.num = n] IN
               r \in Jobs /\ JobOK(r) /\ r.old = 0 /\ ~r.missed /\ r.pc = op
    BY <1>0, Names DEF Jobs, JobOK
  <1>3. ASSUME NEW n \in Numbers, NEW b \in BOOLEAN
        PROVE  LET r == [Idle EXCEPT !.op = "update", !.pc = "update", !.num = n, !.main = b]
               IN  r \in Jobs /\ JobOK(r) /\ r.old = 0 /\ ~r.missed /\ r.pc = "update"
    <2> DEFINE r == [Idle EXCEPT !.op = "update", !.pc = "update", !.num = n, !.main = b]
    <2>1. /\ r \in Jobs /\ r.op = "update" /\ r.pc = "update" /\ r.num = n /\ r.old = Idle.old
          /\ r.missed = Idle.missed
      BY <1>0, Names, Zenon DEF Jobs
    <2> HIDE DEF r
    <2>2. r \in Jobs /\ JobOK(r) /\ r.old = 0 /\ ~r.missed /\ r.pc = "update"
      BY <1>0, <2>1 DEF JobOK
    <2> QED
      BY <2>2 DEF r
  <1>4. ASSUME NEW m \in Menus
        PROVE  LET r == [Idle EXCEPT !.op = "menu", !.pc = "check menu", !.menu = m] IN
               r \in Jobs /\ JobOK(r) /\ r.old = 0 /\ ~r.missed /\ r.pc = "check menu"
    BY <1>0, Names DEF Jobs, JobOK
  <1>5. ASSUME NEW line \in Lines, NEW p \in 0 .. 1
        PROVE  LET r == [Idle EXCEPT !.op = "settings", !.pc = "settings",
                                     !.trunk = [line |-> line, pw |-> p]] IN
               r \in Jobs /\ JobOK(r) /\ r.old = 0 /\ ~r.missed /\ r.pc = "settings"
    <2>1. [line |-> line, pw |-> p] \in Trunks
      BY DEF Trunks
    <2> QED
      BY <1>0, <2>1, Names DEF Jobs, JobOK
  <1>6. LET r == [Idle EXCEPT !.op = "upload", !.pc = "upload"] IN
        r \in Jobs /\ JobOK(r) /\ r.old = 0 /\ ~r.missed /\ r.pc = "upload"
    BY <1>0, Names DEF Jobs, JobOK
  <1>7. CASE \E n \in Numbers, op \in {"create", "reset", "delete"} :
                Begin(w, [Idle EXCEPT !.op = op, !.pc = op, !.num = n])
    BY <1>1, <1>2, <1>7
  <1>8. CASE \E n \in Numbers, b \in BOOLEAN :
                Begin(w, [Idle EXCEPT !.op = "update", !.pc = "update", !.num = n, !.main = b])
    <2> PICK n \in Numbers, b \in BOOLEAN :
                Begin(w, [Idle EXCEPT !.op = "update", !.pc = "update", !.num = n, !.main = b])
      BY <1>8, Zenon
    <2> DEFINE r == [Idle EXCEPT !.op = "update", !.pc = "update", !.num = n, !.main = b]
    <2>1. r \in Jobs /\ JobOK(r) /\ r.old = 0 /\ ~r.missed /\ r.pc = "update" /\ Begin(w, r)
      BY <1>3, Zenon
    <2> HIDE DEF r
    <2> QED
      BY <1>1, <2>1
  <1>9. CASE \E m \in Menus :
                Begin(w, [Idle EXCEPT !.op = "menu", !.pc = "check menu", !.menu = m])
    BY <1>1, <1>4, <1>9
  <1>10. CASE \E line \in Lines, p \in 0 .. 1 :
                Begin(w, [Idle EXCEPT !.op = "settings", !.pc = "settings",
                                      !.trunk = [line |-> line, pw |-> p]])
    BY <1>1, <1>5, <1>10
  <1>11. CASE Begin(w, [Idle EXCEPT !.op = "upload", !.pc = "upload"])
    BY <1>1, <1>6, <1>11
  <1> QED
    BY <1>7, <1>8, <1>9, <1>10, <1>11, Zenon DEF Request

\* The steps that save what the admin asked for.
SaveStep(w) ==
    \/ CreateExtension(w) \/ UpdateExtension(w) \/ ResetPassword(w) \/ DeleteExtension(w)
    \/ CheckMenu(w) \/ SaveMenu(w) \/ ReadSettings(w) \/ SaveSettings(w) \/ UploadGreeting(w)

\* What a request does before Apply leaves Apply alone.
LEMMA SavesApart ==
    ASSUME NEW w \in Workers, SaveStep(w)
    PROVE  /\ UNCHANGED <<engine, serving, applyMu, failing, asked, events, history>>
           /\ \E r : job' = [job EXCEPT ![w] = r]
           /\ job[w].pc \in Writes \union {"check menu", "settings"}
  <1> USE DEF SaveStep, Row, Refuse, Goto, Secret, Writes, bounds, rows
  <1>1. CASE CreateExtension(w)
    BY <1>1, Zenon DEF CreateExtension
  <1>2. CASE UpdateExtension(w)
    BY <1>2, Zenon DEF UpdateExtension
  <1>3. CASE ResetPassword(w)
    BY <1>3, Zenon DEF ResetPassword
  <1>4. CASE DeleteExtension(w)
    BY <1>4, Zenon DEF DeleteExtension
  <1>5. CASE CheckMenu(w)
    BY <1>5, Zenon DEF CheckMenu
  <1>6. CASE SaveMenu(w)
    BY <1>6, Zenon DEF SaveMenu
  <1>7. CASE ReadSettings(w)
    BY <1>7, Zenon DEF ReadSettings
  <1>8. CASE SaveSettings(w)
    BY <1>8, Zenon DEF SaveSettings
  <1>9. CASE UploadGreeting(w)
    BY <1>9, Zenon DEF UploadGreeting
  <1> QED
    BY <1>1, <1>2, <1>3, <1>4, <1>5, <1>6, <1>7, <1>8, <1>9, Zenon

\* It changes nothing and goes on, or saves rows and goes on to Apply.
Saved(w) ==
    /\ job'[w] \in Jobs /\ JobOK(job'[w]) /\ RowsInv'
    /\ job'[w].missed => job[w].missed
    /\ \A p : GivenOut(p) => GivenOut(p)'
    /\ \/ UNCHANGED <<pw, main, trunk, menu, greeting>> /\ job'[w].pc \notin Held
       \/ job'[w].pc = "lock"
    /\ \/ job'[w].old \in {0, job[w].old}
       \/ job'[w].pc = "lock" /\ job'[w].old \in 1 .. lastPw'
          /\ \A n \in Numbers : pw'[n] # job'[w].old

\* That is all a step before Apply does.
LEMMA Saves ==
    ASSUME JobsInv, RowsInv, NEW w \in Workers, SaveStep(w)
    PROVE  Saved(w)
  <1>0. /\ job \in [Workers -> Jobs] /\ job[w] \in Jobs /\ JobOK(job[w])
        /\ Idle \in Jobs /\ JobOK(Idle) /\ Idle.pc = "idle" /\ Idle.old = 0 /\ ~Idle.missed
        /\ "idle" \notin Held /\ "menu" \notin Held /\ "save settings" \notin Held
    BY NoJob DEF JobsInv, Held
  <1>1. ASSUME Refuse(w), UNCHANGED <<rows, greeting, lastPw>> PROVE Saved(w)
    <2>1. job'[w] = Idle /\ UNCHANGED <<pw, main, trunk, menu, greeting, lastPw>>
      BY <1>0, <1>1 DEF Refuse, rows
    <2>2. RowsInv' /\ \A p : GivenOut(p) => GivenOut(p)'
      BY <2>1 DEF RowsInv, GivenOut, Existing
    <2> QED
      BY <1>0, <2>1, <2>2 DEF Saved
  <1>2. ASSUME NEW p \in PCs, Goto(w, p), p \in {"lock", "menu"},
               job[w].pc \in Writes \union {"check menu"}
        PROVE  /\ job'[w] \in Jobs /\ JobOK(job'[w]) /\ job'[w].pc = p
               /\ job'[w].old = job[w].old /\ job'[w].missed = job[w].missed
    <2>1. job'[w] = [job[w] EXCEPT !.pc = p]
      BY <1>0, <1>2, Zenon DEF Goto, Jobs
    <2>2. /\ job'[w] \in Jobs /\ job'[w].pc = p /\ job'[w].op = job[w].op
          /\ job'[w].old = job[w].old /\ job'[w].missed = job[w].missed
      BY <1>0, <2>1 DEF Jobs
    <2> QED
      BY <1>0, <1>2, <2>2 DEF JobOK, Writes
  <1>3. "lock" \in PCs /\ "menu" \in PCs
    BY Names
  <1>4. CASE CreateExtension(w)
    <2>1. /\ UNCHANGED <<main, trunk, menu, greeting>> /\ job[w].pc = "create"
          /\ \/ /\ lastPw < MaxPasswords /\ lastPw' = lastPw + 1
                /\ pw' = [pw EXCEPT ![job[w].num] = lastPw + 1]
                /\ Goto(w, "lock")
             \/ Refuse(w) /\ UNCHANGED <<pw, lastPw>>
      BY <1>4, Zenon DEF CreateExtension, Row
    <2>2. CASE Refuse(w) /\ UNCHANGED <<pw, lastPw>>
      BY <1>1, <2>1, <2>2 DEF rows
    <2>3. CASE /\ lastPw < MaxPasswords /\ lastPw' = lastPw + 1
               /\ pw' = [pw EXCEPT ![job[w].num] = lastPw + 1]
               /\ Goto(w, "lock")
      <3>1. job[w].num \in Numbers
        BY <1>0, <2>1 DEF JobOK
      <3>2. RowsInv' /\ \A p : GivenOut(p) => GivenOut(p)'
        BY <2>1, <2>3, <3>1, Bounds DEF RowsInv, GivenOut, Existing, Secrets
      <3> QED
        BY <1>2, <1>3, <2>1, <2>3, <3>2 DEF Saved, Writes
    <2> QED
      BY <2>1, <2>2, <2>3
  <1>5. CASE UpdateExtension(w)
    <2>1. /\ UNCHANGED <<pw, lastPw, trunk, menu, greeting>> /\ job[w].pc = "update"
          /\ \/ /\ pw[job[w].num] # 0 /\ Goto(w, "lock")
                /\ main' \subseteq main \union {job[w].num}
             \/ Refuse(w) /\ UNCHANGED main
      BY <1>5, Zenon DEF UpdateExtension, Row
    <2>2. CASE Refuse(w) /\ UNCHANGED main
      BY <1>1, <2>1, <2>2 DEF rows
    <2>3. CASE pw[job[w].num] # 0 /\ Goto(w, "lock") /\ main' \subseteq main \union {job[w].num}
      <3>1. job[w].num \in Numbers
        BY <1>0, <2>1 DEF JobOK
      <3>2. RowsInv' /\ \A p : GivenOut(p) => GivenOut(p)'
        BY <2>1, <2>3, <3>1 DEF RowsInv, GivenOut, Existing
      <3> QED
        BY <1>2, <1>3, <2>1, <2>3, <3>2 DEF Saved, Writes
    <2> QED
      BY <2>1, <2>2, <2>3
  <1>6. ASSUME NEW n \in Numbers, Secret(w, n), job[w].pc \in Writes
        PROVE  /\ job'[w] \in Jobs /\ JobOK(job'[w]) /\ job'[w].pc = "lock"
               /\ job'[w].old = pw[n] /\ job'[w].missed = job[w].missed
    <2>1. job'[w] = [job[w] EXCEPT !.pc = "lock", !.old = pw[n]]
      BY <1>0, <1>6, Zenon DEF Secret, Jobs
    <2>2. pw[n] \in 0 .. MaxPasswords
      BY DEF RowsInv, Secrets
    <2>3. /\ job'[w] \in Jobs /\ job'[w].pc = "lock" /\ job'[w].op = job[w].op
          /\ job'[w].old = pw[n] /\ job'[w].missed = job[w].missed
      BY <1>0, <1>3, <2>1, <2>2 DEF Jobs
    <2> QED
      BY <1>0, <1>6, <2>3 DEF JobOK, Writes
  <1>7. CASE ResetPassword(w)
    <2>1. /\ UNCHANGED <<main, trunk, menu, greeting>> /\ job[w].pc = "reset"
          /\ \/ /\ lastPw < MaxPasswords /\ lastPw' = lastPw + 1
                /\ pw[job[w].num] # 0
                /\ pw' = [pw EXCEPT ![job[w].num] = lastPw + 1]
                /\ Secret(w, job[w].num)
             \/ Refuse(w) /\ UNCHANGED <<pw, lastPw>>
      BY <1>7, Zenon DEF ResetPassword, Row
    <2>2. CASE Refuse(w) /\ UNCHANGED <<pw, lastPw>>
      BY <1>1, <2>1, <2>2 DEF rows
    <2>3. CASE /\ lastPw < MaxPasswords /\ lastPw' = lastPw + 1
               /\ pw[job[w].num] # 0
               /\ pw' = [pw EXCEPT ![job[w].num] = lastPw + 1]
               /\ Secret(w, job[w].num)
      <3>1. job[w].num \in Numbers
        BY <1>0, <2>1 DEF JobOK
      <3>2. RowsInv' /\ \A p : GivenOut(p) => GivenOut(p)'
        BY <2>1, <2>3, <3>1, Bounds DEF RowsInv, GivenOut, Existing, Secrets
      <3>3. /\ pw[job[w].num] \in 1 .. lastPw'
            /\ \A n \in Numbers : pw'[n] # pw[job[w].num]
        BY <2>1, <2>3, <3>1, Bounds DEF RowsInv, Secrets
      <3> QED
        BY <1>6, <2>1, <2>3, <3>1, <3>2, <3>3 DEF Saved, Writes
    <2> QED
      BY <2>1, <2>2, <2>3
  <1>8. CASE DeleteExtension(w)
    <2>1. /\ UNCHANGED <<lastPw, trunk, menu, greeting>> /\ job[w].pc = "delete"
          /\ \/ /\ pw[job[w].num] # 0 /\ Secret(w, job[w].num)
                /\ pw' = [pw EXCEPT ![job[w].num] = 0] /\ main' = main \ {job[w].num}
             \/ Refuse(w) /\ UNCHANGED <<pw, main>>
      BY <1>8, Zenon DEF DeleteExtension, Row
    <2>2. CASE Refuse(w) /\ UNCHANGED <<pw, main>>
      BY <1>1, <2>1, <2>2 DEF rows
    <2>3. CASE /\ pw[job[w].num] # 0 /\ Secret(w, job[w].num)
               /\ pw' = [pw EXCEPT ![job[w].num] = 0] /\ main' = main \ {job[w].num}
      <3>1. job[w].num \in Numbers
        BY <1>0, <2>1 DEF JobOK
      <3>2. RowsInv' /\ \A p : GivenOut(p) => GivenOut(p)'
        BY <2>1, <2>3, <3>1, Bounds DEF RowsInv, GivenOut, Existing, Secrets
      <3>3. /\ pw[job[w].num] \in 1 .. lastPw'
            /\ \A n \in Numbers : pw'[n] # pw[job[w].num]
        BY <2>1, <2>3, <3>1, Bounds DEF RowsInv, Secrets
      <3> QED
        BY <1>6, <2>1, <2>3, <3>1, <3>2, <3>3 DEF Saved, Writes
    <2> QED
      BY <2>1, <2>2, <2>3
  <1>9. CASE CheckMenu(w)
    <2>1. /\ UNCHANGED <<rows, greeting, lastPw>> /\ job[w].pc = "check menu"
          /\ Goto(w, "menu") \/ Refuse(w)
      BY <1>9, Zenon DEF CheckMenu, bounds
    <2>2. CASE Refuse(w)
      BY <1>1, <2>1, <2>2
    <2>3. CASE Goto(w, "menu")
      <3>1. UNCHANGED <<pw, main, trunk, menu, greeting, lastPw>>
        BY <2>1 DEF rows
      <3>2. RowsInv' /\ \A p : GivenOut(p) => GivenOut(p)'
        BY <3>1 DEF RowsInv, GivenOut, Existing
      <3> QED
        BY <1>0, <1>2, <1>3, <2>1, <2>3, <3>1, <3>2 DEF Saved
    <2> QED
      BY <2>1, <2>2, <2>3
  <1>10. CASE SaveMenu(w)
    <2>1. /\ UNCHANGED <<pw, main, trunk, greeting, lastPw>> /\ job[w].pc = "menu"
          /\ (menu' = job[w].menu /\ Goto(w, "lock")) \/ (Refuse(w) /\ UNCHANGED menu)
      BY <1>10, Zenon DEF SaveMenu, bounds
    <2>2. CASE Refuse(w) /\ UNCHANGED menu
      BY <1>1, <2>1, <2>2 DEF rows
    <2>3. CASE menu' = job[w].menu /\ Goto(w, "lock")
      <3>1. menu' \in Menus
        BY <1>0, <2>3, JobParts
      <3>2. RowsInv' /\ \A p : GivenOut(p) => GivenOut(p)'
        BY <2>1, <3>1 DEF RowsInv, GivenOut, Existing
      <3> QED
        BY <1>2, <1>3, <2>1, <2>3, <3>2 DEF Saved, Writes
    <2> QED
      BY <2>1, <2>2, <2>3
  <1>11. CASE ReadSettings(w)
    <2> DEFINE kept == IF job[w].trunk.pw = 0 THEN trunk.pw ELSE job[w].trunk.pw
    <2>1. /\ UNCHANGED <<rows, greeting, lastPw>> /\ job[w].pc = "settings"
          /\ \/ /\ job[w].trunk.line # "off" => kept # 0
                /\ job' = [job EXCEPT ![w].pc = "save settings", ![w].trunk.pw = kept]
             \/ Refuse(w)
      BY <1>11, Zenon DEF ReadSettings, bounds
    <2>2. CASE Refuse(w)
      BY <1>1, <2>1, <2>2
    <2>3. CASE /\ job[w].trunk.line # "off" => kept # 0
               /\ job' = [job EXCEPT ![w].pc = "save settings", ![w].trunk.pw = kept]
      <3>1. job[w].trunk \in Trunks /\ trunk \in Trunks
        BY <1>0, JobParts DEF RowsInv
      <3> DEFINE t == [job[w].trunk EXCEPT !.pw = kept]
      <3>2. t \in Trunks /\ t.pw = kept /\ t.line = job[w].trunk.line
        BY <3>1 DEF Trunks
      <3>3. job'[w] = [job[w] EXCEPT !.pc = "save settings", !.trunk = t]
        BY <1>0, <2>3, <3>1, Zenon DEF Jobs, Trunks
      <3> HIDE DEF t
      <3>4. "save settings" \in PCs
        BY Names
      <3>5. /\ job'[w] \in Jobs /\ job'[w].pc = "save settings" /\ job'[w].op = job[w].op
            /\ job'[w].old = job[w].old /\ job'[w].missed = job[w].missed
            /\ job'[w].trunk = t
        BY <1>0, <3>2, <3>3, <3>4 DEF Jobs
      <3>6. JobOK(job'[w])
        BY <1>0, <2>1, <2>3, <3>2, <3>5 DEF JobOK
      <3>7. UNCHANGED <<pw, main, trunk, menu, greeting, lastPw>>
        BY <2>1 DEF rows
      <3>8. RowsInv' /\ \A p : GivenOut(p) => GivenOut(p)'
        BY <3>7 DEF RowsInv, GivenOut, Existing
      <3> QED
        BY <1>0, <3>5, <3>6, <3>7, <3>8 DEF Saved
    <2> QED
      BY <2>1, <2>2, <2>3
  <1>12. CASE SaveSettings(w)
    <2>1. /\ UNCHANGED <<pw, main, menu, greeting, lastPw>> /\ job[w].pc = "save settings"
          /\ (trunk' = job[w].trunk /\ Goto(w, "lock")) \/ (Refuse(w) /\ UNCHANGED trunk)
      BY <1>12, Zenon DEF SaveSettings, bounds
    <2>2. CASE Refuse(w) /\ UNCHANGED trunk
      BY <1>1, <2>1, <2>2 DEF rows
    <2>3. CASE trunk' = job[w].trunk /\ Goto(w, "lock")
      <3>1. trunk' \in Trunks /\ (trunk'.line # "off" => trunk'.pw # 0)
        BY <1>0, <2>1, <2>3, JobParts DEF JobOK
      <3>2. RowsInv' /\ \A p : GivenOut(p) => GivenOut(p)'
        BY <2>1, <3>1 DEF RowsInv, GivenOut, Existing
      <3> QED
        BY <1>2, <1>3, <2>1, <2>3, <3>2 DEF Saved, Writes
    <2> QED
      BY <2>1, <2>2, <2>3
  <1>13. CASE UploadGreeting(w)
    <2>1. /\ UNCHANGED <<rows, lastPw>> /\ job[w].pc = "upload"
          /\ (greeting' = "good" /\ Goto(w, "lock")) \/ (Refuse(w) /\ UNCHANGED greeting)
      BY <1>13, Zenon DEF UploadGreeting, bounds
    <2>2. CASE Refuse(w) /\ UNCHANGED greeting
      BY <1>1, <2>1, <2>2
    <2>3. CASE greeting' = "good" /\ Goto(w, "lock")
      <3>1. UNCHANGED <<pw, main, trunk, menu, lastPw>>
        BY <2>1 DEF rows
      <3>2. RowsInv' /\ \A p : GivenOut(p) => GivenOut(p)'
        BY <2>3, <3>1 DEF RowsInv, GivenOut, Existing
      <3> QED
        BY <1>2, <1>3, <2>1, <2>3, <3>2 DEF Saved, Writes
    <2> QED
      BY <2>1, <2>2, <2>3
  <1> QED
    BY <1>4, <1>5, <1>7, <1>8, <1>9, <1>10, <1>11, <1>12, <1>13 DEF SaveStep

\* The steps of Apply.
ApplyStep(w) ==
    \/ Lock(w) \/ LoadExtensions(w) \/ LoadSettings(w) \/ LoadIVR(w)
    \/ WriteFile(w) \/ Reload(w) \/ Reply(w)

\* The next file to load is one of those to load, the passwords first.
LEMMA NextFiles ==
    ASSUME NEW todo \in SUBSET Files, todo # {}
    PROVE  /\ NextFile(todo) \in todo
           /\ "pjsip" \in todo => NextFile(todo) = "pjsip"
  BY DEF NextFile, Files

\* What each does, field by field: it ends, or goes on with the same request.
Goes(w, pc) ==
    /\ job'[w] \in Jobs /\ JobOK(job'[w])
    /\ job'[w].pc = pc /\ job'[w].old = job[w].old

Errored(w) ==
    /\ job[w].pc \in Held /\ job'[w] = Idle /\ applyMu' = Nobody /\ unapplied'
    /\ UNCHANGED <<files, running, asterisk, recorded, unloaded, retired, serving>>
Locked(w) ==
    /\ job[w].pc = "lock" /\ applyMu = Nobody /\ applyMu' = w
    /\ Goes(w, "extensions") /\ job'[w].missed = job[w].missed
    /\ UNCHANGED <<files, running, asterisk, unapplied, recorded, unloaded, retired, serving>>
ReadRows(w) ==
    /\ job[w].pc = "extensions" /\ Goes(w, "line") /\ job'[w].missed = job[w].missed
    /\ job'[w].seen.pw = pw /\ job'[w].seen.main = main
    /\ UNCHANGED <<applyMu, files, running, asterisk, recorded, unloaded, retired, serving>>
ReadLine(w) ==
    /\ job[w].pc = "line" /\ Goes(w, "ivr") /\ job'[w].missed = job[w].missed
    /\ job'[w].seen.pw = job[w].seen.pw /\ job'[w].seen.main = job[w].seen.main
    /\ job'[w].seen.trunk = trunk
    /\ UNCHANGED <<applyMu, files, running, asterisk, unapplied, recorded, unloaded, retired,
                   serving>>
ReadMenu(w) ==
    /\ job[w].pc = "ivr" /\ Goes(w, "write") /\ job'[w].missed = job[w].missed
    /\ job'[w].seen.pw = job[w].seen.pw /\ job'[w].seen.main = job[w].seen.main
    /\ job'[w].seen.trunk = job[w].seen.trunk /\ job'[w].seen.menu = menu
    /\ job'[w].seen.has = (greeting = "good") /\ job'[w].todo = Files
    /\ UNCHANGED <<applyMu, files, running, asterisk, unapplied, unloaded, retired, serving>>
Wrote(w, f) ==
    /\ job[w].pc = "write" /\ f \in job[w].todo /\ job'[w].missed = job[w].missed
    /\ files' = [files EXCEPT ![f] = Render(job[w].seen)[f]]
    /\ \/ /\ Goes(w, "write") /\ job'[w].seen = job[w].seen
          /\ job'[w].todo = job[w].todo \ {f}
       \/ /\ Goes(w, "reload") /\ job[w].todo = {f} /\ job'[w].todo = Files
    /\ UNCHANGED <<applyMu, running, asterisk, unapplied, recorded, unloaded, retired, serving>>
Loaded(w) ==
    /\ job[w].pc = "reload" /\ job[w].todo # {} /\ Goes(w, "reload")
    /\ \/ /\ running' = [running EXCEPT ![NextFile(job[w].todo)] = files[NextFile(job[w].todo)]]
          /\ job'[w].todo = job[w].todo \ {NextFile(job[w].todo)}
          /\ job'[w].missed = job[w].missed
          /\ UNCHANGED unloaded
       \/ /\ job'[w].todo = {} /\ job'[w].missed
          /\ unloaded' /\ UNCHANGED running
    /\ UNCHANGED <<applyMu, files, asterisk, unapplied, recorded, retired, serving>>
Replied(w) ==
    /\ job[w].pc = "reload" /\ job[w].todo = {} /\ job'[w] = Idle /\ applyMu' = Nobody
    /\ unloaded' <=> unloaded /\ job[w].missed
    /\ \A r \in retired' : \/ r \in retired
                           \/ job[w].old # 0 /\ r.pw = job[w].old /\ (r.loaded => ~job[w].missed)
    /\ UNCHANGED <<files, running, asterisk, unapplied, recorded>>
    /\ serving' \in BOOLEAN

\* Apply changes no row, and one request.
LEMMA AppliesApart ==
    ASSUME NEW w \in Workers, ApplyStep(w)
    PROVE  /\ UNCHANGED <<pw, main, trunk, menu, greeting, failing, asked, lastPw, events>>
           /\ \E r : job' = [job EXCEPT ![w] = r]
           /\ job[w].pc \in Held \union {"lock"}
  <1> USE DEF ApplyStep, Refuse, Goto, Held, rows, bounds, Error
  <1>1. CASE Lock(w)
    BY <1>1, Zenon DEF Lock
  <1>2. CASE LoadExtensions(w)
    BY <1>2, Zenon DEF LoadExtensions
  <1>3. CASE LoadSettings(w)
    BY <1>3, Zenon DEF LoadSettings
  <1>4. CASE LoadIVR(w)
    BY <1>4, Zenon DEF LoadIVR
  <1>5. CASE WriteFile(w)
    BY <1>5, Zenon DEF WriteFile
  <1>6. CASE Reload(w)
    BY <1>6, Zenon DEF Reload
  <1>7. CASE Reply(w)
    BY <1>7, Zenon DEF Reply
  <1> QED
    BY <1>1, <1>2, <1>3, <1>4, <1>5, <1>6, <1>7, Zenon

\* What a step of Apply is.
LEMMA Applies ==
    ASSUME JobsInv, RowsInv, serving \in BOOLEAN, NEW w \in Workers, ApplyStep(w)
    PROVE  \/ Errored(w) \/ Locked(w) \/ ReadRows(w) \/ ReadLine(w) \/ ReadMenu(w)
           \/ (\E f \in Files : Wrote(w, f)) \/ Loaded(w) \/ Replied(w)
  <1>0. /\ job \in [Workers -> Jobs] /\ job[w] \in Jobs /\ JobOK(job[w])
        /\ job[w].todo \in SUBSET Files
    BY JobParts DEF JobsInv
  <1>1. CASE job[w].pc \in Held /\ Error(w) /\ UNCHANGED <<files, recorded, unloaded>>
    <2>1. /\ job[w].pc \in Held /\ job' = [job EXCEPT ![w] = Idle] /\ applyMu' = Nobody
          /\ unapplied'
          /\ UNCHANGED <<files, running, asterisk, recorded, unloaded, retired, serving>>
      BY <1>1, Zenon DEF Error, Refuse
    <2>2. job'[w] = Idle
      BY <1>0, <2>1
    <2> QED
      BY <2>1, <2>2, Zenon DEF Errored
  <1>2. CASE Lock(w)
    <2>1. /\ job[w].pc = "lock" /\ applyMu = Nobody /\ applyMu' = w
          /\ job' = [job EXCEPT ![w].pc = "extensions"]
          /\ UNCHANGED <<files, running, asterisk, unapplied, recorded, unloaded, retired,
                         serving>>
      BY <1>2, Zenon DEF Lock, Goto, engine, history
    <2>2. job'[w] = [job[w] EXCEPT !.pc = "extensions"]
      BY <1>0, <2>1, Zenon DEF Jobs
    <2>3. "extensions" \in PCs
      BY Names
    <2>4. /\ job'[w] \in Jobs /\ job'[w].pc = "extensions" /\ job'[w].op = job[w].op
          /\ job'[w].old = job[w].old /\ job'[w].missed = job[w].missed
      BY <1>0, <2>2, <2>3 DEF Jobs
    <2>5. JobOK(job'[w])
      BY <1>0, <2>1, <2>4 DEF JobOK
    <2> QED
      BY <2>1, <2>4, <2>5, Zenon DEF Locked, Goes
  <1>3. CASE LoadExtensions(w)
    <2>1. /\ job[w].pc = "extensions" /\ UNCHANGED <<files, recorded, unloaded>>
          /\ \/ /\ job' = [job EXCEPT ![w].pc = "line", ![w].seen.pw = pw, ![w].seen.main = main]
                /\ UNCHANGED <<running, asterisk, serving, applyMu, retired>>
             \/ Error(w)
      BY <1>3, Zenon DEF LoadExtensions
    <2>2. CASE Error(w)
      BY <1>1, <2>1, <2>2 DEF Held
    <2>3. CASE /\ job' = [job EXCEPT ![w].pc = "line", ![w].seen.pw = pw, ![w].seen.main = main]
               /\ UNCHANGED <<running, asterisk, serving, applyMu, retired>>
      <3>1. pw \in Secrets /\ main \in SUBSET Numbers
        BY DEF RowsInv, Existing
      <3>2. /\ job'[w] \in Jobs /\ job'[w].pc = "line" /\ job'[w].op = job[w].op
            /\ job'[w].old = job[w].old /\ job'[w].missed = job[w].missed
            /\ job'[w].seen.pw = pw /\ job'[w].seen.main = main
        BY <2>3, <3>1, Reads
      <3>3. JobOK(job'[w])
        BY <1>0, <2>1, <3>2 DEF JobOK
      <3> QED
        BY <2>1, <2>3, <3>2, <3>3, Zenon DEF ReadRows, Goes
    <2> QED
      BY <2>1, <2>2, <2>3
  <1>4. CASE LoadSettings(w)
    <2>1. /\ job[w].pc = "line" /\ UNCHANGED <<files, recorded, unloaded>>
          /\ \/ /\ job' = [job EXCEPT ![w].pc = "ivr", ![w].seen.trunk = trunk]
                /\ UNCHANGED <<running, asterisk, serving, applyMu, retired, unapplied>>
             \/ Error(w)
      BY <1>4, Zenon DEF LoadSettings
    <2>2. CASE Error(w)
      BY <1>1, <2>1, <2>2 DEF Held
    <2>3. CASE /\ job' = [job EXCEPT ![w].pc = "ivr", ![w].seen.trunk = trunk]
               /\ UNCHANGED <<running, asterisk, serving, applyMu, retired, unapplied>>
      <3>1. trunk \in Trunks
        BY DEF RowsInv
      <3>2. /\ job'[w] \in Jobs /\ job'[w].pc = "ivr" /\ job'[w].op = job[w].op
            /\ job'[w].old = job[w].old /\ job'[w].missed = job[w].missed
            /\ job'[w].seen.pw = job[w].seen.pw /\ job'[w].seen.main = job[w].seen.main
            /\ job'[w].seen.trunk = trunk
        BY <2>3, <3>1, Reads
      <3>3. JobOK(job'[w])
        BY <1>0, <2>1, <3>2 DEF JobOK
      <3> QED
        BY <2>1, <2>3, <3>2, <3>3, Zenon DEF ReadLine, Goes
    <2> QED
      BY <2>1, <2>2, <2>3
  <1>5. CASE LoadIVR(w)
    <2>1. /\ job[w].pc = "ivr" /\ UNCHANGED <<files, unloaded>>
          /\ \/ /\ job' = [job EXCEPT ![w].pc = "write", ![w].seen.menu = menu,
                                      ![w].seen.has = (greeting = "good"), ![w].todo = Files]
                /\ UNCHANGED <<running, asterisk, serving, applyMu, retired, unapplied>>
             \/ Error(w) /\ UNCHANGED recorded
      BY <1>5, Zenon DEF LoadIVR
    <2>2. CASE Error(w) /\ UNCHANGED recorded
      BY <1>1, <2>1, <2>2 DEF Held
    <2>3. CASE /\ job' = [job EXCEPT ![w].pc = "write", ![w].seen.menu = menu,
                                     ![w].seen.has = (greeting = "good"), ![w].todo = Files]
               /\ UNCHANGED <<running, asterisk, serving, applyMu, retired, unapplied>>
      <3>1. menu \in Menus
        BY DEF RowsInv
      <3>2. (greeting = "good") \in BOOLEAN
        OBVIOUS
      <3>3. /\ job'[w] \in Jobs /\ job'[w].pc = "write" /\ job'[w].op = job[w].op
            /\ job'[w].old = job[w].old /\ job'[w].missed = job[w].missed
            /\ job'[w].seen.pw = job[w].seen.pw /\ job'[w].seen.main = job[w].seen.main
            /\ job'[w].seen.trunk = job[w].seen.trunk /\ job'[w].seen.menu = menu
            /\ job'[w].seen.has = (greeting = "good") /\ job'[w].todo = Files
        BY <2>3, <3>1, <3>2, Reads, Zenon
      <3>4. JobOK(job'[w])
        BY <1>0, <2>1, <3>3 DEF JobOK
      <3> QED
        BY <2>1, <2>3, <3>3, <3>4, Zenon DEF ReadMenu, Goes
    <2> QED
      BY <2>1, <2>2, <2>3
  <1>6. CASE WriteFile(w)
    <2>1. /\ job[w].pc = "write" /\ UNCHANGED <<recorded, unloaded>>
          /\ \/ /\ \E f \in job[w].todo :
                      /\ files' = [files EXCEPT ![f] = Render(job[w].seen)[f]]
                      /\ \/ job' = [job EXCEPT ![w].todo = job[w].todo \ {f}]
                         \/ /\ job[w].todo = {f}
                            /\ job' = [job EXCEPT ![w].pc = "reload", ![w].todo = Files,
                                                  ![w].seen = Idle.seen]
                /\ UNCHANGED <<running, asterisk, serving, applyMu, retired, unapplied>>
             \/ Error(w) /\ UNCHANGED files
      <3>1. ASSUME NEW f \in job[w].todo,
                   job' = IF job[w].todo # {f} THEN [job EXCEPT ![w].todo = @ \ {f}]
                          ELSE [job EXCEPT ![w].pc = "reload", ![w].todo = Files,
                                           ![w].seen = Idle.seen]
            PROVE  \/ job' = [job EXCEPT ![w].todo = job[w].todo \ {f}]
                   \/ /\ job[w].todo = {f}
                      /\ job' = [job EXCEPT ![w].pc = "reload", ![w].todo = Files,
                                            ![w].seen = Idle.seen]
        <4>1. [job EXCEPT ![w].todo = @ \ {f}] = [job EXCEPT ![w].todo = job[w].todo \ {f}]
          BY <1>0
        <4> QED
          BY <3>1, <4>1, Zenon
      <3> QED
        BY <1>6, <3>1, Zenon DEF WriteFile
    <2>2. CASE Error(w) /\ UNCHANGED files
      BY <1>1, <2>1, <2>2 DEF Held
    <2>3. ASSUME NEW f \in job[w].todo,
                 files' = [files EXCEPT ![f] = Render(job[w].seen)[f]],
                 job' = [job EXCEPT ![w].todo = job[w].todo \ {f}],
                 UNCHANGED <<running, asterisk, serving, applyMu, retired, unapplied>>
          PROVE  Wrote(w, f)
      <3>1. job'[w] = [job[w] EXCEPT !.todo = job[w].todo \ {f}]
        BY <1>0, <2>3, Zenon DEF Jobs
      <3>2. /\ job'[w] \in Jobs /\ job'[w].pc = "write" /\ job'[w].op = job[w].op
            /\ job'[w].old = job[w].old /\ job'[w].missed = job[w].missed
            /\ job'[w].seen = job[w].seen /\ job'[w].todo = job[w].todo \ {f}
        BY <1>0, <2>1, <3>1 DEF Jobs
      <3>3. JobOK(job'[w])
        BY <1>0, <2>1, <3>2 DEF JobOK
      <3> QED
        BY <2>1, <2>3, <3>2, <3>3, Zenon DEF Wrote, Goes
    <2>4. ASSUME NEW f \in job[w].todo, job[w].todo = {f},
                 files' = [files EXCEPT ![f] = Render(job[w].seen)[f]],
                 job' = [job EXCEPT ![w].pc = "reload", ![w].todo = Files,
                                    ![w].seen = Idle.seen],
                 UNCHANGED <<running, asterisk, serving, applyMu, retired, unapplied>>
          PROVE  Wrote(w, f)
      <3> DEFINE v == Idle.seen
      <3>1. v \in Views /\ "reload" \in PCs
        BY NoJob, JobParts, Names
      <3> HIDE DEF v
      <3>2. job'[w] = [job[w] EXCEPT !.pc = "reload", !.todo = Files, !.seen = v]
        BY <1>0, <2>4, Zenon DEF Jobs, v
      <3>3. /\ job'[w] \in Jobs /\ job'[w].pc = "reload" /\ job'[w].op = job[w].op
            /\ job'[w].old = job[w].old /\ job'[w].missed = job[w].missed
            /\ job'[w].todo = Files
        BY <1>0, <3>1, <3>2 DEF Jobs
      <3>4. JobOK(job'[w])
        BY <1>0, <2>1, <3>3 DEF JobOK
      <3> QED
        BY <2>1, <2>4, <3>3, <3>4, Zenon DEF Wrote, Goes
    <2>5. \A f \in job[w].todo : f \in Files
      BY <1>0
    <2> QED
      BY <2>1, <2>2, <2>3, <2>4, <2>5, Zenon
  <1>7. CASE Reload(w)
    <2> DEFINE f == NextFile(job[w].todo)
    <2>1. /\ job[w].pc = "reload" /\ job[w].todo # {}
          /\ UNCHANGED <<files, asterisk, serving, applyMu, unapplied, recorded, retired>>
          /\ \/ /\ running' = [running EXCEPT ![f] = files[f]]
                /\ job' = [job EXCEPT ![w].todo = @ \ {f}] /\ UNCHANGED unloaded
             \/ /\ job' = [job EXCEPT ![w].todo = {}, ![w].missed = TRUE]
                /\ unloaded' /\ UNCHANGED running
      BY <1>7, Zenon DEF Reload
    <2> HIDE DEF f
    <2>2. CASE /\ running' = [running EXCEPT ![f] = files[f]]
               /\ job' = [job EXCEPT ![w].todo = @ \ {f}] /\ UNCHANGED unloaded
      <3>1. job'[w] = [job[w] EXCEPT !.todo = job[w].todo \ {f}]
        BY <1>0, <2>2, Zenon DEF Jobs
      <3>2. /\ job'[w] \in Jobs /\ job'[w].pc = "reload" /\ job'[w].op = job[w].op
            /\ job'[w].old = job[w].old /\ job'[w].missed = job[w].missed
            /\ job'[w].todo = job[w].todo \ {f}
        BY <1>0, <2>1, <3>1 DEF Jobs
      <3>3. JobOK(job'[w])
        BY <1>0, <2>1, <3>2 DEF JobOK
      <3> QED
        BY <2>1, <2>2, <3>2, <3>3, Zenon DEF Loaded, Goes, f
    <2>3. CASE /\ job' = [job EXCEPT ![w].todo = {}, ![w].missed = TRUE]
               /\ unloaded' /\ UNCHANGED running
      <3>1. job'[w] = [job[w] EXCEPT !.todo = {}, !.missed = TRUE]
        BY <1>0, <2>3, Zenon DEF Jobs
      <3>2. {} \in SUBSET Files
        OBVIOUS
      <3>3. /\ job'[w] \in Jobs /\ job'[w].pc = job[w].pc /\ job'[w].op = job[w].op
            /\ job'[w].old = job[w].old /\ job'[w].missed /\ job'[w].todo = {}
            /\ job'[w].num = job[w].num /\ job'[w].trunk = job[w].trunk
        BY <1>0, <3>1, <3>2, Zenon DEF Jobs
      <3>4. JobOK(job'[w])
        BY <1>0, <2>1, <3>3 DEF JobOK
      <3> QED
        BY <2>1, <2>3, <3>3, <3>4, Zenon DEF Loaded, Goes
    <2> QED
      BY <2>1, <2>2, <2>3
  <1>8. CASE Reply(w)
    <2>1. /\ job[w].pc = "reload" /\ job[w].todo = {} /\ job' = [job EXCEPT ![w] = Idle]
          /\ applyMu' = Nobody /\ serving' = TRUE
          /\ unloaded' = (unloaded /\ job[w].missed)
          /\ retired' = retired \union
                           IF job[w].old = 0 THEN {}
                           ELSE {[pw |-> job[w].old, loaded |-> ~job[w].missed]}
          /\ UNCHANGED <<files, running, asterisk, unapplied, recorded>>
      BY <1>8, Zenon DEF Reply, Refuse, engine
    <2>2. job'[w] = Idle
      BY <1>0, <2>1
    <2>3. ASSUME NEW r \in retired'
          PROVE  \/ r \in retired
                 \/ job[w].old # 0 /\ r.pw = job[w].old /\ (r.loaded => ~job[w].missed)
      <3>1. r \in retired \/ (job[w].old # 0
                              /\ r = [pw |-> job[w].old, loaded |-> ~job[w].missed])
        BY <2>1, Zenon
      <3>2. ASSUME r = [pw |-> job[w].old, loaded |-> ~job[w].missed]
            PROVE  r.pw = job[w].old /\ r.loaded = ~job[w].missed
        BY <3>2, Zenon
      <3> QED
        BY <3>1, <3>2, Zenon
    <2>4. serving' \in BOOLEAN /\ (unloaded' <=> unloaded /\ job[w].missed)
      BY <2>1, Zenon
    <2> QED
      BY <2>1, <2>2, <2>3, <2>4, Zenon DEF Replied
  <1> QED
    BY <1>2, <1>3, <1>4, <1>5, <1>6, <1>7, <1>8 DEF ApplyStep

\* Any of the three leaves the other requests alone.
Turn(w) ==
    /\ JobsInv' /\ job'[w] \in Jobs
    /\ \A v \in Workers \ {w} : job'[v] = job[v]

\* Every step of a request is a turn of its worker.
LEMMA Turns ==
    ASSUME JobsInv, RowsInv, serving \in BOOLEAN, NEW w \in Workers,
           Request(w) \/ SaveStep(w) \/ ApplyStep(w)
    PROVE  Turn(w)
  <1>1. \E r : job' = [job EXCEPT ![w] = r]
    BY Begun, SavesApart, AppliesApart, Zenon
  <1>2. job'[w] \in Jobs /\ JobOK(job'[w])
    <2>1. CASE Request(w)
      BY <2>1, Begun
    <2>2. CASE SaveStep(w)
      BY <2>2, Saves DEF Saved
    <2>3. CASE ApplyStep(w)
      BY <2>3, Applies, NoJob
         DEF Errored, Locked, ReadRows, ReadLine, ReadMenu, Wrote, Loaded, Replied, Goes
    <2> QED
      BY <2>1, <2>2, <2>3
  <1> QED
    BY <1>1, <1>2 DEF Turn, JobsInv

\* Everything the system does.
LEMMA Steps ==
    ASSUME [Next]_vars
    PROVE  \/ \E w \in Workers : Request(w) \/ SaveStep(w) \/ ApplyStep(w)
           \/ Stop \/ Start \/ AsteriskStops \/ AsteriskStarts \/ RecordByPhone
           \/ UNCHANGED vars
  BY Zenon DEF Next, Step, SaveStep, ApplyStep

\* The rest of what happens, field by field.
LEMMA Happens ==
    ASSUME JobsInv
    PROVE  /\ Stop => /\ ~serving' /\ applyMu' = Nobody /\ unapplied'
                      /\ job' = [w \in Workers |-> Idle]
                      /\ UNCHANGED <<pw, main, trunk, menu, greeting, lastPw, files, running,
                                     asterisk, recorded, unloaded, retired>>
           /\ Start => /\ \A w \in Workers : job[w].op = "none"
                       /\ \E w \in Workers :
                             job' = [job EXCEPT ![w] = [Idle EXCEPT !.op = "start",
                                                                    !.pc = "lock"]]
                       /\ UNCHANGED <<pw, main, trunk, menu, greeting, lastPw, files, running,
                                      asterisk, recorded, unloaded, retired, unapplied,
                                      applyMu, serving>>
           /\ AsteriskStops \/ AsteriskStarts \/ RecordByPhone \/ UNCHANGED vars =>
                UNCHANGED <<pw, main, trunk, menu, lastPw, files, unloaded, retired, unapplied,
                            applyMu, serving, job>>
           /\ AsteriskStops => asterisk' = "down" /\ UNCHANGED <<greeting, recorded, running>>
           /\ AsteriskStarts =>
                /\ UNCHANGED <<greeting, recorded>> /\ asterisk # "up"
                /\ \/ UNCHANGED running
                   \/ asterisk # "down"
                      /\ running' = [running EXCEPT ![asterisk] = files[asterisk]]
           /\ RecordByPhone =>
                /\ greeting' \in {"short", "good"} /\ recorded' /\ UNCHANGED <<running, asterisk>>
           /\ UNCHANGED vars => UNCHANGED <<greeting, recorded, running, asterisk>>
  <1> USE DEF rows, engine, history, bounds, vars
  <1>1. ASSUME Stop
        PROVE  /\ ~serving' /\ applyMu' = Nobody /\ unapplied'
               /\ job' = [w \in Workers |-> Idle]
               /\ UNCHANGED <<pw, main, trunk, menu, greeting, lastPw, files, running,
                              asterisk, recorded, unloaded, retired>>
    BY <1>1, Zenon DEF Stop
  <1>2. ASSUME Start
        PROVE  /\ \A w \in Workers : job[w].op = "none"
               /\ \E w \in Workers :
                     job' = [job EXCEPT ![w] = [Idle EXCEPT !.op = "start", !.pc = "lock"]]
               /\ UNCHANGED <<pw, main, trunk, menu, greeting, lastPw, files, running,
                              asterisk, recorded, unloaded, retired, unapplied, applyMu,
                              serving>>
    BY <1>2, Zenon DEF Start
  <1>3. ASSUME AsteriskStops
        PROVE  /\ UNCHANGED <<pw, main, trunk, menu, lastPw, files, unloaded, retired,
                              unapplied, applyMu, serving, job, greeting, recorded, running>>
               /\ asterisk' = "down"
    BY <1>3, Zenon DEF AsteriskStops
  <1>4. ASSUME AsteriskStarts
        PROVE  /\ UNCHANGED <<pw, main, trunk, menu, lastPw, files, unloaded, retired,
                              unapplied, applyMu, serving, job, greeting, recorded>>
               /\ asterisk # "up"
               /\ \/ UNCHANGED running
                  \/ asterisk # "down"
                     /\ running' = [running EXCEPT ![asterisk] = files[asterisk]]
    BY <1>4, Zenon DEF AsteriskStarts
  <1>5. ASSUME RecordByPhone
        PROVE  /\ UNCHANGED <<pw, main, trunk, menu, lastPw, files, unloaded, retired,
                              unapplied, applyMu, serving, job, running, asterisk>>
               /\ greeting' \in {"short", "good"} /\ recorded'
    BY <1>5, Zenon DEF RecordByPhone
  <1> QED
    BY <1>1, <1>2, <1>3, <1>4, <1>5, Zenon

----------------------------------------------------------------------------
(* The steps: each part of the invariant.                                  *)

\* The rows and the requests are kept in their types.
LEMMA RowsStep ==
    ASSUME JobsInv, RowsInv, serving \in BOOLEAN, [Next]_vars
    PROVE  RowsInv' /\ JobsInv' /\ serving' \in BOOLEAN
  <1>1. ASSUME NEW w \in Workers, Request(w) \/ SaveStep(w) \/ ApplyStep(w)
        PROVE  RowsInv' /\ JobsInv' /\ serving' \in BOOLEAN
    <2>1. JobsInv'
      BY <1>1, Turns DEF Turn
    <2>2. RowsInv'
      <3>1. CASE SaveStep(w)
        BY <3>1, Saves DEF Saved
      <3>2. CASE Request(w) \/ ApplyStep(w)
        <4>1. UNCHANGED <<pw, main, trunk, menu, greeting, lastPw>>
          BY <3>2, Begun, AppliesApart, Zenon DEF rows
        <4> QED
          BY <4>1 DEF RowsInv, Existing
      <3> QED
        BY <1>1, <3>1, <3>2
    <2>3. serving' \in BOOLEAN
      <3>1. CASE Request(w) \/ SaveStep(w)
        BY <3>1, Begun, SavesApart, Zenon
      <3>2. CASE ApplyStep(w)
        BY <3>2, Applies, Zenon
           DEF Errored, Locked, ReadRows, ReadLine, ReadMenu, Wrote, Loaded, Replied
      <3> QED
        BY <1>1, <3>1, <3>2
    <2> QED
      BY <2>1, <2>2, <2>3
  <1>2. CASE Stop
    <2>1. /\ UNCHANGED <<pw, main, trunk, menu, greeting, lastPw>>
          /\ job' = [w \in Workers |-> Idle] /\ ~serving'
      BY <1>2, Happens
    <2>2. RowsInv'
      BY <2>1 DEF RowsInv, Existing
    <2>3. JobsInv'
      BY <2>1, NoJob DEF JobsInv
    <2>4. serving' = FALSE
      BY <1>2, Zenon DEF Stop
    <2> QED
      BY <2>2, <2>3, <2>4
  <1>3. CASE Start
    <2>1. /\ UNCHANGED <<pw, main, trunk, menu, greeting, lastPw, serving>>
          /\ \E w \in Workers :
                job' = [job EXCEPT ![w] = [Idle EXCEPT !.op = "start", !.pc = "lock"]]
      BY <1>3, Happens
    <2>2. RowsInv'
      BY <2>1 DEF RowsInv, Existing
    <2> DEFINE r == [Idle EXCEPT !.op = "start", !.pc = "lock"]
    <2>3. r \in Jobs /\ JobOK(r)
      BY NoJob, Names DEF Jobs, JobOK
    <2> HIDE DEF r
    <2>4. JobsInv'
      BY <2>1, <2>3 DEF JobsInv, r
    <2> QED
      BY <2>1, <2>2, <2>4
  <1>4. CASE AsteriskStops \/ AsteriskStarts \/ RecordByPhone \/ UNCHANGED vars
    <2>1. /\ UNCHANGED <<pw, main, trunk, menu, lastPw, job, serving>>
          /\ greeting' \in {greeting, "short", "good"}
      BY <1>4, Happens
    <2> QED
      BY <2>1 DEF RowsInv, Existing, JobsInv
  <1> QED
    BY <1>1, <1>2, <1>3, <1>4, Steps

\* Who is in Apply is who holds the mutex.
LEMMA MutexStep ==
    ASSUME JobsInv, RowsInv, serving \in BOOLEAN, MutexInv, [Next]_vars
    PROVE  MutexInv'
  <1>1. ASSUME NEW w \in Workers, Request(w) \/ SaveStep(w) \/ ApplyStep(w)
        PROVE  MutexInv'
    <2>0. /\ \A v \in Workers \ {w} : job'[v] = job[v]
          /\ Idle.pc = "idle" /\ JobOK(job[w])
      BY <1>1, Turns, NoJob DEF Turn, JobsInv
    <2>1. CASE Request(w)
      BY <2>0, <2>1, Begun DEF MutexInv, Held, JobOK
    <2>2. CASE SaveStep(w)
      <3>1. UNCHANGED applyMu /\ job[w].pc \notin Held
        BY <2>2, SavesApart DEF Held, Writes
      <3>2. job'[w].pc \notin Held
        <4>1. Saved(w)
          BY <2>2, Saves
        <4> QED
          BY <4>1 DEF Saved, Held
      <3> QED
        BY <2>0, <3>1, <3>2 DEF MutexInv
    <2>3. CASE ApplyStep(w)
      <3>1. CASE Errored(w) \/ Replied(w)
        BY <2>0, <3>1, Bounds DEF Errored, Replied, MutexInv, Held
      <3>2. CASE Locked(w)
        BY <2>0, <3>2, Bounds DEF Locked, Goes, MutexInv, Held
      <3>3. CASE ReadRows(w) \/ ReadLine(w) \/ ReadMenu(w) \/ (\E f \in Files : Wrote(w, f))
                 \/ Loaded(w)
        <4>1. UNCHANGED applyMu /\ job[w].pc \in Held /\ job'[w].pc \in Held
          BY <3>3 DEF ReadRows, ReadLine, ReadMenu, Wrote, Loaded, Goes, Held
        <4> QED
          BY <2>0, <4>1 DEF MutexInv
      <3> QED
        BY <2>3, <3>1, <3>2, <3>3, Applies
    <2> QED
      BY <1>1, <2>1, <2>2, <2>3
  <1>2. CASE Stop
    BY <1>2, Happens, NoJob, Bounds DEF MutexInv, Held
  <1>3. CASE Start
    <2>1. /\ UNCHANGED applyMu /\ \A w \in Workers : job[w].op = "none"
          /\ \E w \in Workers :
                job' = [job EXCEPT ![w] = [Idle EXCEPT !.op = "start", !.pc = "lock"]]
      BY <1>3, Happens
    <2>2. \A v \in Workers : job[v].pc = "idle"
      BY <2>1 DEF JobsInv, JobOK
    <2>3. \A v \in Workers : job'[v].pc \in {"idle", "lock"}
      BY <2>1, <2>2, NoJob DEF JobsInv, Jobs
    <2> QED
      BY <2>1, <2>2, <2>3 DEF MutexInv, Held
  <1>4. CASE AsteriskStops \/ AsteriskStarts \/ RecordByPhone \/ UNCHANGED vars
    <2>1. UNCHANGED <<applyMu, job>>
      BY <1>4, Happens
    <2> QED
      BY <2>1 DEF MutexInv
  <1> QED
    BY <1>1, <1>2, <1>3, <1>4, Steps

\* A view that agrees with the rows is what the rows say.
LEMMA ViewIsNow ==
    ASSUME NEW v \in Views, v.pw = pw, v.main = main, v.trunk = trunk, v.menu = menu
    PROVE  v = NowHas(v.has) /\ v.has \in BOOLEAN
  BY Zenon DEF Views, NowHas

\* What the rows say goes with them.
LEMMA NowKept ==
    /\ Now = NowHas(greeting = "good")
    /\ UNCHANGED <<pw, main, trunk, menu>> => \A b \in BOOLEAN : NowHas(b)' = NowHas(b)
    /\ UNCHANGED <<pw, main, trunk, menu, greeting>> => Now' = Now
  BY Zenon DEF Now, NowHas

\* So do the files that follow them.
LEMMA FollowKept ==
    ASSUME FilesFollow, UNCHANGED <<pw, main, trunk, menu, files>>,
           recorded' \/ UNCHANGED <<greeting, recorded>>
    PROVE  FilesFollow'
  <1>1. \E b \in BOOLEAN : files' = Render(NowHas(b)')
    BY NowKept, Zenon DEF FilesFollow
  <1>2. ~recorded' => files' = Render(Now')
    BY NowKept, Zenon DEF FilesFollow
  <1> QED
    BY <1>1, <1>2, Zenon DEF FilesFollow, Render, renderPJSIP, renderDialplan,
       renderVoicemail, renderMenu, Listed

\* A file at a time, the files become what was read.
LEMMA Rendered ==
    ASSUME NEW v, NEW fs, fs = [f \in Files |-> fs[f]], \A f \in Files : fs[f] = Render(v)[f]
    PROVE  fs = Render(v)
  BY DEF Render, Files

\* The engine stays a set of three files, and what a step of Apply or a start of
\* Asterisk does to one of them leaves the others.
LEMMA EngineStep ==
    ASSUME JobsInv, RowsInv, serving \in BOOLEAN, EngineInv, [Next]_vars
    PROVE  EngineInv'
  <1>1. ASSUME NEW w \in Workers, Request(w) \/ SaveStep(w) \/ ApplyStep(w)
        PROVE  EngineInv'
    <2>1. CASE Request(w) \/ SaveStep(w)
      <3>1. UNCHANGED engine
        BY <2>1, Begun, SavesApart, Zenon
      <3> QED
        BY <3>1 DEF engine, EngineInv
    <2>2. CASE ApplyStep(w)
      <3>1. ASSUME NEW f \in Files, Wrote(w, f) PROVE EngineInv'
        BY <3>1 DEF Wrote, EngineInv
      <3>2. CASE Loaded(w)
        <4>1. job[w].todo \in SUBSET Files
          BY JobParts DEF JobsInv
        <4>2. NextFile(job[w].todo) \in Files
          BY <3>2, <4>1, NextFiles DEF Loaded
        <4> QED
          BY <3>2, <4>2 DEF Loaded, EngineInv
      <3>3. CASE Errored(w) \/ Locked(w) \/ ReadRows(w) \/ ReadLine(w) \/ ReadMenu(w)
                   \/ Replied(w)
        <4>1. UNCHANGED <<files, running, asterisk>>
          BY <3>3, Zenon DEF Errored, Locked, ReadRows, ReadLine, ReadMenu, Replied
        <4> QED
          BY <4>1 DEF EngineInv
      <3> QED
        BY <2>2, <3>1, <3>2, <3>3, Applies
    <2> QED
      BY <1>1, <2>1, <2>2
  <1>2. CASE Stop \/ Start \/ RecordByPhone \/ UNCHANGED vars
    <2>1. UNCHANGED <<files, running, asterisk>>
      BY <1>2, Happens
    <2> QED
      BY <2>1 DEF EngineInv
  <1>3. CASE AsteriskStops
    BY <1>3, Happens DEF EngineInv
  <1>4. CASE AsteriskStarts
    <2>1. /\ UNCHANGED files
          /\ \/ UNCHANGED running
             \/ /\ asterisk # "up" /\ asterisk # "down"
                /\ running' = [running EXCEPT ![asterisk] = files[asterisk]]
      BY <1>4, Happens
    <2>2. asterisk' \in {"down", "up"} \union Files
      <3>1. asterisk' = CASE asterisk = "down" -> "pjsip" [] asterisk = "pjsip" -> "dialplan"
                          [] asterisk = "dialplan" -> "voicemail"
                          [] asterisk = "voicemail" -> "up"
        BY <1>4, Zenon DEF AsteriskStarts
      <3>2. asterisk \in {"down", "pjsip", "dialplan", "voicemail"}
        BY <1>4, Happens DEF EngineInv, Files
      <3>3. asterisk' \in {"pjsip", "dialplan", "voicemail", "up"}
        BY <3>1, <3>2
      <3> QED
        BY <3>3 DEF Files
    <2> QED
      BY <2>1, <2>2 DEF EngineInv
  <1> QED
    BY <1>1, <1>2, <1>3, <1>4, Steps

\* Whoever has to apply what it saved goes on waiting, unless it is its turn.
LEMMA StillPending ==
    ASSUME JobsInv, NEW w \in Workers, \A v \in Workers \ {w} : job'[v] = job[v],
           job[w].pc # "lock" \/ job'[w].pc = "lock"
    PROVE  Pending => Pending'
  BY DEF Pending

\* What Apply has read, written and loaded, and what it has left when it is over.
ApplyInv == AppliedInv /\ \A w \in Workers : ViewOK(w) /\ LoadOK(w)

\* While somebody is in Apply, nobody else is.
LEMMA Alone ==
    ASSUME MutexInv, NEW w \in Workers, job[w].pc \in Held \/ applyMu = Nobody,
           NEW v \in Workers \ {w}
    PROVE  job[v].pc \notin Held
  BY Bounds DEF MutexInv

\* A request that does not reach Apply in this step keeps it in order.
LEMMA OutsideApply ==
    ASSUME JobsInv, ApplyInv, NEW w \in Workers,
           \A v \in Workers \ {w} : job'[v] = job[v],
           job[w].pc # "lock", job'[w].pc \notin Held, ~job'[w].missed,
           UNCHANGED <<applyMu, files, running, unapplied, recorded, unloaded>>,
           UNCHANGED <<pw, main, trunk, menu, greeting>> \/ job'[w].pc = "lock"
    PROVE  ApplyInv'
  <1>1. Pending => Pending'
    BY StillPending
  <1>2. job'[w].pc = "lock" => Pending'
    BY DEF Pending
  <1>3. FilesFollow => FilesFollow' \/ Pending'
    BY <1>2, FollowKept
  <1>4. AppliedInv'
    BY <1>1, <1>3 DEF ApplyInv, AppliedInv
  <1>5. ASSUME NEW v \in Workers PROVE ViewOK(v)' /\ LoadOK(v)'
    <2>1. CASE v = w
      BY <2>1 DEF ViewOK, LoadOK, Held
    <2>2. CASE v # w
      <3>1. job'[v] = job[v] /\ ViewOK(v) /\ LoadOK(v)
        BY <2>2 DEF ApplyInv
      <3>2. CASE Pending'
        BY <3>1, <3>2 DEF ViewOK, LoadOK
      <3>3. CASE ~Pending'
        <4>1. UNCHANGED <<pw, main, trunk, menu, greeting>> /\ ~Pending
          BY <1>1, <1>2, <3>3
        <4>2. FilesFollow => FilesFollow'
          BY <4>1, FollowKept
        <4> QED
          BY <3>1, <3>3, <4>1, <4>2 DEF ViewOK, LoadOK
      <3> QED
        BY <3>2, <3>3
    <2> QED
      BY <2>1, <2>2
  <1> QED
    BY <1>4, <1>5 DEF ApplyInv

\* A step of Apply keeps it in order: what it read last, it writes and loads.
LEMMA InsideApply ==
    ASSUME JobsInv, RowsInv, serving \in BOOLEAN, MutexInv, EngineInv, EngineInv', ApplyInv,
           NEW w \in Workers, ApplyStep(w)
    PROVE  ApplyInv'
  <1>0. /\ UNCHANGED <<pw, main, trunk, menu, greeting>>
        /\ \A v \in Workers \ {w} : job'[v] = job[v]
        /\ job[w] \in Jobs /\ job'[w] \in Jobs
        /\ job[w].todo \in SUBSET Files /\ job[w].seen \in Views
    BY AppliesApart, Turns, JobParts DEF JobsInv, Turn
  <1>1. Idle.pc = "idle" /\ ~Idle.missed
    BY NoJob
  <1>2. \A v \in Workers \ {w} : job'[v].pc \notin Held
    <2>1. job[w].pc \in Held \/ applyMu = Nobody
      BY Applies DEF Errored, Locked, ReadRows, ReadLine, ReadMenu, Wrote, Loaded, Replied, Held
    <2> QED
      BY <1>0, <2>1, Alone
  <1>3. ASSUME AppliedInv', ViewOK(w)', LoadOK(w)' PROVE ApplyInv'
    <2>1. ASSUME NEW v \in Workers \ {w} PROVE ViewOK(v)' /\ LoadOK(v)'
      <3>1. job'[v] = job[v] /\ LoadOK(v) /\ job'[v].pc \notin Held
        BY <1>0, <1>2 DEF ApplyInv
      <3> QED
        BY <3>1 DEF ViewOK, LoadOK, Held
    <2> QED
      BY <1>3, <2>1 DEF ApplyInv
  <1>4. ViewOK(w) /\ \A v \in Workers : job[v].missed => job[v].pc = "reload" /\ unloaded
    BY DEF ApplyInv, LoadOK
  <1>5. job[w].pc # "lock" => (Pending => Pending')
    BY <1>0, StillPending
  <1>6. CASE Errored(w)
    BY <1>1, <1>3, <1>4, <1>6 DEF Errored, AppliedInv, ViewOK, LoadOK, Held
  <1>7. CASE Locked(w)
    BY <1>3, <1>4, <1>7, Bounds DEF Locked, Goes, AppliedInv, ViewOK, LoadOK
  <1>8. CASE ReadRows(w) \/ ReadLine(w) \/ ReadMenu(w)
    <2>1. /\ job[w].pc \in Held /\ job[w].pc # "lock" /\ UNCHANGED <<applyMu, unloaded>>
          /\ job'[w].missed = job[w].missed
      BY <1>8 DEF ReadRows, ReadLine, ReadMenu, Held
    <2>2. applyMu' = w
      BY <2>1 DEF MutexInv
    <2>3. AppliedInv'
      BY <2>2, Bounds DEF AppliedInv
    <2>4. LoadOK(w)'
      BY <1>4, <1>8, <2>1 DEF ReadRows, ReadLine, ReadMenu, Goes, LoadOK
    <2>5. ViewOK(w)'
      <3>1. CASE ReadRows(w)
        BY <1>0, <3>1 DEF ReadRows, Goes, ViewOK
      <3>2. CASE ReadLine(w)
        BY <1>0, <1>4, <1>5, <3>2 DEF ReadLine, Goes, ViewOK
      <3>3. CASE ReadMenu(w)
        <4>1. /\ job'[w].pc = "write" /\ job[w].pc = "ivr" /\ job'[w].todo = Files
              /\ job'[w].seen.pw = job[w].seen.pw /\ job'[w].seen.main = job[w].seen.main
              /\ job'[w].seen.trunk = job[w].seen.trunk /\ job'[w].seen.menu = menu
              /\ job'[w].seen.has = (greeting' = "good")
          BY <1>0, <3>3, Zenon DEF ReadMenu, Goes
        <4>2. ~Pending' =>
                /\ job'[w].seen.pw = pw' /\ job'[w].seen.main = main'
                /\ job'[w].seen.trunk = trunk' /\ job'[w].seen.menu = menu'
          BY <1>0, <1>4, <1>5, <4>1 DEF ViewOK
        <4>3. \A f \in Files \ job'[w].todo : files'[f] = Render(job[w].seen)'[f]
          BY <4>1
        <4>4. /\ job'[w].pc \in {"line", "ivr", "write"} /\ ~Pending' =>
                   job'[w].seen.pw = pw' /\ job'[w].seen.main = main'
              /\ job'[w].pc # "reload"
          BY <4>1, <4>2
        <4> QED
          BY <4>1, <4>2, <4>3, <4>4, Zenon DEF ViewOK
      <3> QED
        BY <1>8, <3>1, <3>2, <3>3
    <2> QED
      BY <1>3, <1>4, <2>1, <2>3, <2>4, <2>5
  <1>9. ASSUME NEW f \in Files, Wrote(w, f) PROVE ApplyInv'
    <2>1. /\ job[w].pc = "write" /\ UNCHANGED <<applyMu, recorded, unloaded>>
          /\ job'[w].missed = job[w].missed /\ f \in job[w].todo
          /\ files' = [files EXCEPT ![f] = Render(job[w].seen)[f]]
          /\ \/ /\ job'[w].pc = "write" /\ job'[w].seen = job[w].seen
                /\ job'[w].todo = job[w].todo \ {f}
             \/ /\ job'[w].pc = "reload" /\ job[w].todo = {f} /\ job'[w].todo = Files
      BY <1>9 DEF Wrote, Goes
    <2>2. applyMu' = w
      BY <2>1 DEF MutexInv, Held
    <2>3. AppliedInv'
      BY <2>2, Bounds DEF AppliedInv
    <2>4. LoadOK(w)'
      BY <1>4, <2>1 DEF LoadOK
    <2>5. \A g \in Files : g \notin job[w].todo \ {f} => files'[g] = Render(job[w].seen)[g]
      BY <1>4, <2>1 DEF ViewOK, EngineInv
    <2>6. ~Pending' =>
            /\ job[w].seen.pw = pw /\ job[w].seen.main = main
            /\ job[w].seen.trunk = trunk /\ job[w].seen.menu = menu
            /\ ~recorded => job[w].seen.has = (greeting = "good")
      BY <1>4, <1>5, <2>1 DEF ViewOK
    <2>7. CASE /\ job'[w].pc = "write" /\ job'[w].seen = job[w].seen
               /\ job'[w].todo = job[w].todo \ {f}
      <3>1. \A g \in Files \ job'[w].todo : files'[g] = Render(job'[w].seen)[g]
        BY <2>5, <2>7
      <3>2. ViewOK(w)'
        BY <1>0, <2>1, <2>6, <2>7, <3>1 DEF ViewOK, Render, renderPJSIP, renderDialplan,
           renderVoicemail, renderMenu, Listed
      <3> QED
        BY <1>3, <1>4, <2>1, <2>3, <2>4, <3>2
    <2>8. CASE job'[w].pc = "reload" /\ job[w].todo = {f}
      <3>1. files' = Render(job[w].seen)
        BY <2>5, <2>8, Rendered DEF EngineInv
      <3>2. ASSUME ~Pending' PROVE FilesFollow'
        <4>1. /\ job[w].seen = NowHas(job[w].seen.has) /\ job[w].seen.has \in BOOLEAN
          BY <1>0, <2>6, <3>2, ViewIsNow
        <4>2. ~recorded => job[w].seen = Now
          BY <2>6, <3>2, <4>1, NowKept, Zenon
        <4>3. (\A b \in BOOLEAN : NowHas(b)' = NowHas(b)) /\ Now' = Now
          BY <1>0, NowKept, Zenon
        <4> QED
          BY <2>1, <3>1, <4>1, <4>2, <4>3, Zenon DEF FilesFollow
      <3>3. ViewOK(w)'
        BY <2>8, <3>2 DEF ViewOK
      <3> QED
        BY <1>3, <1>4, <2>1, <2>3, <2>4, <3>3
    <2> QED
      BY <2>1, <2>7, <2>8
  <1>10. CASE Loaded(w)
    <2> DEFINE f == NextFile(job[w].todo)
    <2>1. /\ job[w].pc = "reload" /\ job'[w].pc = "reload"
          /\ UNCHANGED <<applyMu, files, recorded, unapplied>>
          /\ \/ /\ running' = [running EXCEPT ![f] = files[f]]
                /\ job'[w].todo = job[w].todo \ {f} /\ job'[w].missed = job[w].missed
                /\ UNCHANGED unloaded
             \/ job'[w].missed /\ unloaded'
      BY <1>10 DEF Loaded, Goes
    <2> HIDE DEF f
    <2>2. applyMu' = w
      BY <2>1 DEF MutexInv, Held
    <2>3. AppliedInv'
      BY <2>2, Bounds DEF AppliedInv
    <2>4. LoadOK(w)'
      BY <1>4, <2>1 DEF LoadOK, ApplyInv, EngineInv
    <2>5. FilesFollow => FilesFollow'
      BY <1>0, <2>1, FollowKept
    <2>6. ViewOK(w)'
      BY <1>4, <1>5, <2>1, <2>5 DEF ViewOK
    <2> QED
      BY <1>3, <2>3, <2>4, <2>6
  <1>11. CASE Replied(w)
    <2>1. /\ job[w].pc = "reload" /\ job[w].todo = {} /\ job'[w].pc = "idle"
          /\ ~job'[w].missed /\ (unloaded' <=> unloaded /\ job[w].missed)
          /\ UNCHANGED <<files, running, recorded>>
      BY <1>1, <1>11 DEF Replied
    <2>2. Pending' \/ FilesFollow'
      <3>1. FilesFollow => FilesFollow'
        BY <1>0, <2>1, FollowKept
      <3> QED
        BY <1>4, <1>5, <2>1, <3>1 DEF ViewOK
    <2>3. ~unloaded' => running' = files'
      <3>1. ~unloaded' => ~job[w].missed
        BY <1>4, <2>1
      <3>2. ~job[w].missed => \A f \in Files : running[f] = files[f]
        BY <2>1 DEF ApplyInv, LoadOK
      <3>3. (\A f \in Files : running[f] = files[f]) => running = files
        BY DEF EngineInv
      <3> QED
        BY <2>1, <3>1, <3>2, <3>3
    <2>4. AppliedInv' /\ ViewOK(w)' /\ LoadOK(w)'
      BY <2>1, <2>2, <2>3 DEF AppliedInv, ViewOK, LoadOK
    <2> QED
      BY <1>3, <2>4
  <1> QED
    BY <1>6, <1>7, <1>8, <1>9, <1>10, <1>11, Applies

\* Every step keeps that.
LEMMA ApplyStays ==
    ASSUME JobsInv, RowsInv, serving \in BOOLEAN, MutexInv, EngineInv, ApplyInv, [Next]_vars
    PROVE  ApplyInv'
  <1>0. EngineInv' /\ MutexInv' /\ Idle.pc = "idle" /\ ~Idle.missed
    BY EngineStep, MutexStep, NoJob
  <1>1. ASSUME NEW w \in Workers, Request(w) \/ SaveStep(w) \/ ApplyStep(w)
        PROVE  ApplyInv'
    <2>1. \A v \in Workers \ {w} : job'[v] = job[v]
      BY <1>1, Turns DEF Turn
    <2>2. CASE Request(w)
      <3>1. /\ job[w].op = "none" /\ job'[w].pc \notin Held /\ ~job'[w].missed
            /\ UNCHANGED <<applyMu, files, running, unapplied, recorded, unloaded>>
            /\ UNCHANGED <<pw, main, trunk, menu, greeting>>
        BY <2>2, Begun DEF rows, engine, history, Held
      <3>2. job[w].pc = "idle"
        BY <3>1 DEF JobsInv, JobOK
      <3> QED
        BY <2>1, <3>1, <3>2, OutsideApply
    <2>3. CASE SaveStep(w)
      <3>1. /\ UNCHANGED <<applyMu, files, running, unapplied, recorded, unloaded>>
            /\ job[w].pc # "lock" /\ job[w].pc # "reload"
        BY <2>3, SavesApart DEF engine, history, Writes
      <3>2. /\ UNCHANGED <<pw, main, trunk, menu, greeting>> \/ job'[w].pc = "lock"
            /\ job'[w].pc \notin Held
            /\ job'[w].missed => job[w].missed
        BY <2>3, Saves DEF Saved, Held
      <3>3. ~job[w].missed
        BY <3>1 DEF ApplyInv, LoadOK
      <3> QED
        BY <2>1, <3>1, <3>2, <3>3, OutsideApply
    <2>4. CASE ApplyStep(w)
      BY <1>0, <2>4, InsideApply
    <2> QED
      BY <1>1, <2>2, <2>3, <2>4
  <1>2. CASE Stop
    <2>1. unapplied' /\ \A w \in Workers : job'[w].pc = "idle" /\ ~job'[w].missed
      BY <1>0, <1>2, Happens
    <2> QED
      BY <2>1 DEF ApplyInv, AppliedInv, ViewOK, LoadOK
  <1>3. CASE Start
    <2>1. /\ \A w \in Workers : job[w].op = "none"
          /\ \E w \in Workers :
                job' = [job EXCEPT ![w] = [Idle EXCEPT !.op = "start", !.pc = "lock"]]
          /\ UNCHANGED <<applyMu, files, running, unapplied, recorded, unloaded>>
      BY <1>3, Happens
    <2> PICK w \in Workers :
                job' = [job EXCEPT ![w] = [Idle EXCEPT !.op = "start", !.pc = "lock"]]
      BY <2>1
    <2>2. \A v \in Workers : job[v].pc = "idle"
      BY <2>1 DEF JobsInv, JobOK
    <2>3. /\ job'[w].pc = "lock" /\ ~job'[w].missed
          /\ \A v \in Workers \ {w} : job'[v] = job[v]
      BY <1>0, NoJob DEF JobsInv, Jobs
    <2> QED
      BY <2>1, <2>2, <2>3, OutsideApply DEF Held
  <1>4. CASE AsteriskStops \/ AsteriskStarts \/ RecordByPhone \/ UNCHANGED vars
    <2>1. /\ UNCHANGED <<pw, main, trunk, menu, files, unloaded, unapplied, applyMu, job>>
          /\ recorded' \/ UNCHANGED <<greeting, recorded>>
      BY <1>4, Happens
    <2>2. UNCHANGED running \/ \E f \in Files : running' = [running EXCEPT ![f] = files[f]]
      BY <1>4, Happens DEF EngineInv
    <2>3. FilesFollow => FilesFollow'
      BY <2>1, FollowKept
    <2>4. Pending' = Pending
      BY <2>1 DEF Pending
    <2>5. \A f \in Files : running[f] = files[f] => running'[f] = files'[f]
      BY <2>1, <2>2 DEF EngineInv
    <2>6. running = files => running' = files'
      <3>1. (\A f \in Files : running'[f] = files'[f]) => running' = files'
        BY <1>0 DEF EngineInv
      <3> QED
        BY <2>5, <3>1
    <2>7. AppliedInv'
      BY <2>1, <2>3, <2>4, <2>6 DEF ApplyInv, AppliedInv
    <2>8. ASSUME NEW w \in Workers PROVE ViewOK(w)' /\ LoadOK(w)'
      <3>1. LoadOK(w)'
        BY <2>1, <2>5 DEF ApplyInv, LoadOK
      <3>2. ViewOK(w)
        BY DEF ApplyInv
      <3>3. /\ job'[w].pc = "write" /\ ~Pending' /\ ~recorded' =>
                  job'[w].seen.has = (greeting' = "good")
        BY <2>1, <2>4, <3>2, Zenon DEF ViewOK
      <3>4. job'[w].pc = "write" =>
               \A f \in Files \ job'[w].todo : files'[f] = Render(job[w].seen)[f]
        BY <2>1, <3>2 DEF ViewOK
      <3>5. ViewOK(w)'
        <4>1. /\ job'[w].pc \in {"line", "ivr", "write"} /\ ~Pending' =>
                    job'[w].seen.pw = pw' /\ job'[w].seen.main = main'
              /\ job'[w].pc \in {"ivr", "write"} /\ ~Pending' => job'[w].seen.trunk = trunk'
              /\ job'[w].pc = "write" /\ ~Pending' => job'[w].seen.menu = menu'
              /\ job'[w].pc = "reload" /\ ~Pending' => FilesFollow'
          BY <2>1, <2>3, <2>4, <3>2, Zenon DEF ViewOK
        <4>2. Render(job[w].seen)' = Render(job[w].seen)
          BY <2>1 DEF Render, renderPJSIP, renderDialplan, renderVoicemail, renderMenu, Listed
        <4>3. job'[w].pc = "write" =>
                 \A f \in Files \ job'[w].todo : files'[f] = Render(job[w].seen)'[f]
          BY <3>4, <4>2
        <4> QED
          BY <3>3, <4>1, <4>3 DEF ViewOK
      <3> QED
        BY <3>1, <3>5
    <2> QED
      BY <2>7, <2>8 DEF ApplyInv
  <1> QED
    BY <1>1, <1>2, <1>3, <1>4, Steps

\* The old passwords, those that were reported and those on their way out.
PasswordsInv == RetiredInv /\ \A w \in Workers : OldOK(w)

\* What was given out and is in no row stays that way, if the engine and the
\* requests in Apply are left alone.
LEMMA OutsidePasswords ==
    ASSUME JobsInv, PasswordsInv, NEW w \in Workers,
           \A v \in Workers \ {w} : job'[v] = job[v],
           job'[w].pc \notin Held,
           job'[w].old # 0 => GivenOut(job[w].old)',
           UNCHANGED <<files, running, retired>>,
           \A p : GivenOut(p) => GivenOut(p)'
    PROVE  PasswordsInv'
  <1>1. OldOK(w)'
    BY DEF OldOK, Held, GivenOut
  <1>2. ASSUME NEW v \in Workers \ {w} PROVE OldOK(v)'
    <2>1. OldOK(v) /\ job'[v] = job[v]
      BY DEF PasswordsInv
    <2>2. GivenOut(job[v].old) => GivenOut(job[v].old)'
      BY <2>1 DEF GivenOut
    <2> QED
      BY <2>1, <2>2 DEF OldOK, NotIn, GivenOut
  <1>3. RetiredInv'
    BY DEF PasswordsInv, RetiredInv, NotIn, Held, GivenOut
  <1> QED
    BY <1>1, <1>2, <1>3 DEF PasswordsInv

\* In Apply: whoever reads now does not read them, what is written and loaded is
\* what was read, and nobody is told before that is done.
LEMMA InsidePasswords ==
    ASSUME JobsInv, RowsInv, serving \in BOOLEAN, MutexInv, EngineInv, PasswordsInv,
           NEW w \in Workers, ApplyStep(w)
    PROVE  PasswordsInv'
  <1>0. /\ UNCHANGED <<pw, lastPw>>
        /\ \A v \in Workers \ {w} : job'[v] = job[v]
        /\ job[w] \in Jobs /\ job'[w] \in Jobs
        /\ job[w].todo \in SUBSET Files
    BY AppliesApart, Turns, JobParts DEF JobsInv, Turn
  <1>1. Idle.pc = "idle" /\ Idle.old = 0
    BY NoJob
  <1>2. \A v \in Workers \ {w} : job[v].pc \notin Held
    <2>1. job[w].pc \in Held \/ applyMu = Nobody
      BY Applies DEF Errored, Locked, ReadRows, ReadLine, ReadMenu, Wrote, Loaded, Replied, Held
    <2> QED
      BY <2>1, Alone
  <1>3. \A p : GivenOut(p)' = GivenOut(p)
    BY <1>0 DEF GivenOut
  <1>4. ASSUME NEW v \in Workers \ {w} PROVE OldOK(v)'
    <2>1. OldOK(v) /\ job'[v] = job[v] /\ job[v].pc \notin Held
      BY <1>0, <1>2 DEF PasswordsInv
    <2> QED
      BY <1>0, <2>1 DEF OldOK, Held, GivenOut
  <1>5. ASSUME RetiredInv', OldOK(w)' PROVE PasswordsInv'
    BY <1>4, <1>5 DEF PasswordsInv
  <1>6. ASSUME UNCHANGED retired,
               \A p : NotIn(p, files) /\ (job[w].pc \in {"line", "ivr", "write"} =>
                                            \A n \in Numbers : job[w].seen.pw[n] # p)
                        => NotIn(p, files)',
               \A p : NotIn(p, files) /\ NotIn(p, running) => NotIn(p, running)',
               job'[w].pc \in {"line", "ivr", "write"} =>
                  job'[w].seen.pw = pw
                  \/ (job[w].pc \in {"line", "ivr", "write"} /\ job'[w].seen.pw = job[w].seen.pw)
        PROVE  RetiredInv'
    <2> SUFFICES ASSUME NEW r \in retired
                 PROVE  /\ GivenOut(r.pw)' /\ NotIn(r.pw, files)'
                        /\ (r.loaded => NotIn(r.pw, running)')
                        /\ \A v \in Workers : job'[v].pc \in {"line", "ivr", "write"} =>
                              \A n \in Numbers : job'[v].seen.pw[n] # r.pw
      BY <1>6 DEF RetiredInv
    <2>1. /\ GivenOut(r.pw) /\ NotIn(r.pw, files) /\ (r.loaded => NotIn(r.pw, running))
          /\ \A v \in Workers : job[v].pc \in {"line", "ivr", "write"} =>
                \A n \in Numbers : job[v].seen.pw[n] # r.pw
      BY DEF PasswordsInv, RetiredInv
    <2>2. GivenOut(r.pw)' /\ NotIn(r.pw, files)' /\ (r.loaded => NotIn(r.pw, running)')
      BY <1>3, <1>6, <2>1
    <2>3. ASSUME NEW v \in Workers, job'[v].pc \in {"line", "ivr", "write"}, NEW n \in Numbers
          PROVE  job'[v].seen.pw[n] # r.pw
      <3>1. pw[n] # r.pw
        BY <2>1 DEF GivenOut
      <3> QED
        BY <1>0, <1>6, <2>1, <2>3, <3>1
    <2> QED
      BY <2>2, <2>3
  <1>7. OldOK(w)
    BY DEF PasswordsInv
  <1>8. CASE Errored(w) \/ Locked(w)
    <2>1. /\ UNCHANGED <<files, running, retired>> /\ job'[w].pc \in {"idle", "extensions"}
          /\ job'[w].old \in {0, job[w].old}
      BY <1>1, <1>8 DEF Errored, Locked, Goes
    <2>2. job'[w].pc \notin {"line", "ivr", "write"}
      BY <2>1
    <2>3. RetiredInv'
      BY <1>6, <2>1, <2>2 DEF NotIn
    <2>4. OldOK(w)'
      BY <1>0, <1>7, <2>1 DEF OldOK, GivenOut
    <2> QED
      BY <1>5, <2>3, <2>4
  <1>9. CASE ReadRows(w) \/ ReadLine(w) \/ ReadMenu(w)
    <2>1. /\ UNCHANGED <<files, running, retired>> /\ job'[w].pc \in {"line", "ivr", "write"}
          /\ job'[w].old = job[w].old
          /\ \/ job'[w].seen.pw = pw
             \/ job[w].pc \in {"line", "ivr", "write"} /\ job'[w].seen.pw = job[w].seen.pw
          /\ job'[w].pc = "write" => job'[w].todo = Files
      BY <1>9 DEF ReadRows, ReadLine, ReadMenu, Goes
    <2>2. RetiredInv'
      <3>1. \A p : /\ NotIn(p, files) => NotIn(p, files)'
                  /\ NotIn(p, running) => NotIn(p, running)'
        BY <2>1 DEF NotIn
      <3> QED
        BY <1>6, <2>1, <3>1
    <2>3. "pjsip" \in Files
      BY DEF Files
    <2>4. OldOK(w)'
      BY <1>0, <1>7, <2>1, <2>3 DEF OldOK, GivenOut
    <2> QED
      BY <1>5, <2>2, <2>4
  <1>10. ASSUME NEW f \in Files, Wrote(w, f) PROVE PasswordsInv'
    <2>1. /\ job[w].pc = "write" /\ UNCHANGED <<running, retired>>
          /\ job'[w].old = job[w].old
          /\ files' = [files EXCEPT ![f] = Render(job[w].seen)[f]]
          /\ \/ /\ job'[w].pc = "write" /\ job'[w].seen = job[w].seen
                /\ job'[w].todo = job[w].todo \ {f}
             \/ /\ job'[w].pc = "reload" /\ job[w].todo = {f} /\ job'[w].todo = Files
      BY <1>10 DEF Wrote, Goes
    <2>2. Render(job[w].seen)["pjsip"].phones = job[w].seen.pw /\ "pjsip" \in Files
      BY DEF Render, renderPJSIP, Files
    <2>3. files'["pjsip"] = files["pjsip"] \/ files'["pjsip"].phones = job[w].seen.pw
      BY <2>1, <2>2 DEF EngineInv
    <2>4. f = "pjsip" => files'["pjsip"].phones = job[w].seen.pw
      BY <2>1, <2>2 DEF EngineInv
    <2>5. f # "pjsip" => files'["pjsip"] = files["pjsip"]
      BY <2>1, <2>2 DEF EngineInv
    <2>6. RetiredInv'
      BY <1>6, <2>1, <2>3 DEF NotIn
    <2>7. OldOK(w)'
      BY <1>0, <1>7, <2>1, <2>2, <2>4, <2>5 DEF OldOK, GivenOut, NotIn
    <2> QED
      BY <1>5, <2>6, <2>7
  <1>11. CASE Loaded(w)
    <2> DEFINE f == NextFile(job[w].todo)
    <2>1. f \in job[w].todo /\ ("pjsip" \in job[w].todo => f = "pjsip")
      BY <1>0, <1>11, NextFiles DEF Loaded
    <2> HIDE DEF f
    <2>2. /\ job[w].pc = "reload" /\ job'[w].pc = "reload"
          /\ UNCHANGED <<files, retired>> /\ job'[w].old = job[w].old
          /\ \/ /\ running' = [running EXCEPT ![f] = files[f]]
                /\ job'[w].todo = job[w].todo \ {f} /\ job'[w].missed = job[w].missed
             \/ UNCHANGED running /\ job'[w].missed
      BY <1>11 DEF Loaded, Goes, f
    <2>3. "pjsip" \in Files /\ Files = DOMAIN running
      BY DEF EngineInv, Files
    <2>4. running'["pjsip"] = running["pjsip"] \/ running'["pjsip"] = files["pjsip"]
      BY <2>2, <2>3
    <2>5. RetiredInv'
      BY <1>6, <2>2, <2>4 DEF NotIn
    <2>6. OldOK(w)'
      BY <1>0, <1>7, <2>1, <2>2, <2>3 DEF OldOK, GivenOut, NotIn
    <2> QED
      BY <1>5, <2>5, <2>6
  <1>12. CASE Replied(w)
    <2>1. /\ job[w].pc = "reload" /\ job[w].todo = {} /\ job'[w].pc = "idle"
          /\ job'[w].old = 0 /\ UNCHANGED <<files, running>>
      BY <1>1, <1>12 DEF Replied
    <2>2. ASSUME NEW r \in retired'
          PROVE  GivenOut(r.pw) /\ NotIn(r.pw, files) /\ (r.loaded => NotIn(r.pw, running))
      <3>1. \/ r \in retired
            \/ job[w].old # 0 /\ r.pw = job[w].old /\ (r.loaded => ~job[w].missed)
        BY <1>12 DEF Replied
      <3>2. CASE r \in retired
        BY <3>2 DEF PasswordsInv, RetiredInv
      <3>3. CASE job[w].old # 0 /\ r.pw = job[w].old /\ (r.loaded => ~job[w].missed)
        BY <1>7, <2>1, <3>3 DEF OldOK
      <3> QED
        BY <3>1, <3>2, <3>3
    <2>3. \A v \in Workers : job'[v].pc \notin Held
      BY <1>0, <1>2, <2>1 DEF Held
    <2>4. RetiredInv'
      BY <1>0, <2>1, <2>2, <2>3 DEF RetiredInv, Held, GivenOut, NotIn
    <2>5. OldOK(w)'
      BY <2>1 DEF OldOK
    <2> QED
      BY <1>5, <2>4, <2>5
  <1> QED
    BY <1>8, <1>9, <1>10, <1>11, <1>12, Applies

\* Every step keeps them out.
LEMMA PasswordsStay ==
    ASSUME JobsInv, RowsInv, serving \in BOOLEAN, MutexInv, EngineInv, PasswordsInv,
           [Next]_vars
    PROVE  PasswordsInv'
  <1>0. Idle.pc = "idle" /\ Idle.old = 0
    BY NoJob
  <1>1. ASSUME NEW w \in Workers, Request(w) \/ SaveStep(w) \/ ApplyStep(w)
        PROVE  PasswordsInv'
    <2>1. \A v \in Workers \ {w} : job'[v] = job[v]
      BY <1>1, Turns DEF Turn
    <2>2. CASE Request(w)
      <3>1. /\ job'[w].pc \notin Held /\ job'[w].old = 0
            /\ UNCHANGED <<files, running, retired, pw, lastPw>>
        BY <2>2, Begun DEF rows, engine, history, Held
      <3>2. \A p : GivenOut(p) => GivenOut(p)'
        BY <3>1 DEF GivenOut
      <3> QED
        BY <2>1, <3>1, <3>2, OutsidePasswords
    <2>3. CASE SaveStep(w)
      <3>1. UNCHANGED <<files, running, retired>>
        BY <2>3, SavesApart DEF engine, history
      <3>2. Saved(w)
        BY <2>3, Saves
      <3>3. job'[w].old # 0 => GivenOut(job[w].old)'
        BY <3>2 DEF Saved, PasswordsInv, OldOK, GivenOut
      <3>4. job'[w].pc \notin Held /\ \A p : GivenOut(p) => GivenOut(p)'
        BY <3>2 DEF Saved, Held
      <3> QED
        BY <2>1, <3>1, <3>3, <3>4, OutsidePasswords
    <2>4. CASE ApplyStep(w)
      BY <2>4, InsidePasswords
    <2> QED
      BY <1>1, <2>2, <2>3, <2>4
  <1>2. CASE Stop
    <2>1. /\ UNCHANGED <<pw, lastPw, files, running, retired>>
          /\ \A w \in Workers : job'[w].pc = "idle" /\ job'[w].old = 0
      BY <1>0, <1>2, Happens
    <2> QED
      BY <2>1 DEF PasswordsInv, RetiredInv, OldOK, GivenOut, NotIn
  <1>3. CASE Start
    <2>1. /\ \E w \in Workers :
                job' = [job EXCEPT ![w] = [Idle EXCEPT !.op = "start", !.pc = "lock"]]
          /\ UNCHANGED <<files, running, retired, pw, lastPw>>
      BY <1>3, Happens
    <2> PICK w \in Workers :
                job' = [job EXCEPT ![w] = [Idle EXCEPT !.op = "start", !.pc = "lock"]]
      BY <2>1
    <2>2. /\ job'[w].pc = "lock" /\ job'[w].old = 0
          /\ \A v \in Workers \ {w} : job'[v] = job[v]
      BY <1>0, NoJob DEF JobsInv, Jobs
    <2>3. \A p : GivenOut(p) => GivenOut(p)'
      BY <2>1 DEF GivenOut
    <2> QED
      BY <2>1, <2>2, <2>3, OutsidePasswords DEF Held
  <1>4. CASE AsteriskStops \/ AsteriskStarts \/ RecordByPhone \/ UNCHANGED vars
    <2>1. UNCHANGED <<pw, lastPw, files, retired, job>>
      BY <1>4, Happens
    <2>2. UNCHANGED running \/ \E f \in Files : running' = [running EXCEPT ![f] = files[f]]
      BY <1>4, Happens DEF EngineInv
    <2>3. running'["pjsip"] = running["pjsip"] \/ running'["pjsip"] = files["pjsip"]
      <3>1. "pjsip" \in Files /\ Files = DOMAIN running
        BY DEF EngineInv, Files
      <3> QED
        BY <2>2, <3>1
    <2>4. \A p : NotIn(p, files) /\ NotIn(p, running) => NotIn(p, running)'
      BY <2>3 DEF NotIn
    <2>5. RetiredInv'
      BY <2>1, <2>4 DEF PasswordsInv, RetiredInv, GivenOut, NotIn
    <2>6. ASSUME NEW w \in Workers PROVE OldOK(w)'
      <3>1. OldOK(w)
        BY DEF PasswordsInv
      <3> QED
        BY <2>1, <2>3, <3>1 DEF OldOK, GivenOut, NotIn
    <2> QED
      BY <2>5, <2>6 DEF PasswordsInv
  <1> QED
    BY <1>1, <1>2, <1>3, <1>4, Steps

\* What is counted stays within its bound.
LEMMA BoundsStep ==
    ASSUME JobsInv, RowsInv, serving \in BOOLEAN, BoundsInv, [Next]_vars
    PROVE  BoundsInv'
  <1>1. ASSUME NEW w \in Workers, Request(w) \/ SaveStep(w) \/ ApplyStep(w)
        PROVE  /\ UNCHANGED <<failing, events>>
               /\ UNCHANGED asked \/ (asked < MaxRequests /\ asked' = asked + 1)
    BY <1>1, Begun, SavesApart, AppliesApart, Zenon
  <1>2. CASE Stop \/ AsteriskStops \/ RecordByPhone
    <2>1. /\ UNCHANGED <<failing, asked>>
          /\ events < MaxEvents /\ events' = events + 1
      BY <1>2, Zenon DEF Stop, AsteriskStops, RecordByPhone
    <2> QED
      BY <2>1, Bounds DEF BoundsInv
  <1>3. CASE Start \/ AsteriskStarts \/ UNCHANGED vars
    <2>1. UNCHANGED <<failing, asked, events>>
      BY <1>3, Zenon DEF Start, AsteriskStarts, vars, bounds
    <2> QED
      BY <2>1 DEF BoundsInv
  <1> QED
    BY <1>1, <1>2, <1>3, Steps, Bounds DEF BoundsInv

----------------------------------------------------------------------------
(* The theorems.                                                           *)

\* The inductive invariant.
LEMMA PhonesInvariant == Spec => []PhonesInv
  <1>1. Init => PhonesInv
    <2> SUFFICES ASSUME Init PROVE PhonesInv
      OBVIOUS
    <2>1. /\ job = [w \in Workers |-> Idle] /\ applyMu = Nobody
          /\ asterisk = "up" /\ lastPw = 1 /\ asked = 0 /\ events = 0
          /\ retired = {} /\ failing \in Flaky \union {"nothing"}
          /\ files = Render(Now) /\ running = files
          /\ trunk = [line |-> "off", pw |-> 0]
      BY Zenon DEF Init
    <2>2. serving \in BOOLEAN
      BY Zenon DEF Init
    <2>3. PICK n \in Numbers :
              /\ pw = [m \in Numbers |-> IF m = n THEN 1 ELSE 0] /\ main = {n}
              /\ \/ greeting = "none" /\ menu = NoMenu
                 \/ greeting = "good" /\ menu = [on |-> TRUE, recorder |-> n, targets |-> {n}]
      BY Zenon DEF Init
    <2>4. menu \in Menus
      <3>1. [on |-> TRUE, recorder |-> n, targets |-> {n}] \in Menus
        <4>1. TRUE \in BOOLEAN /\ n \in Numbers \union {Nobody} /\ {n} \in SUBSET Numbers
          OBVIOUS
        <4> QED
          BY <4>1, Zenon DEF Menus
      <3> QED
        BY <2>3, <3>1, NoJob
    <2>5. trunk \in Trunks /\ trunk.line = "off"
      BY <2>1 DEF Trunks, Lines
    <2>6. greeting \in {"none", "short", "good"}
      BY <2>3
    <2>7. /\ pw = [m \in Numbers |-> IF m = n THEN 1 ELSE 0] /\ main = {n}
      BY <2>3
    <2>8. RowsInv
      BY <2>1, <2>4, <2>5, <2>6, <2>7, Bounds DEF RowsInv, Existing, Secrets
    <2>9. JobsInv /\ MutexInv /\ BoundsInv
      BY <2>1, NoJob, Bounds DEF JobsInv, MutexInv, BoundsInv, Held
    <2>10. EngineInv
      BY <2>1 DEF EngineInv, Render, Files
    <2>11. FilesFollow
      <3>1. Now = NowHas(greeting = "good") /\ (greeting = "good") \in BOOLEAN
        BY NowKept, Zenon
      <3> QED
        BY <2>1, <3>1, Zenon DEF FilesFollow
    <2>12. ApplyInv
      BY <2>1, <2>11, NoJob DEF ApplyInv, AppliedInv, ViewOK, LoadOK
    <2>13. PasswordsInv
      BY <2>1, NoJob DEF PasswordsInv, RetiredInv, OldOK
    <2> QED
      BY <2>2, <2>8, <2>9, <2>10, <2>12, <2>13 DEF PhonesInv, ApplyInv, PasswordsInv
  <1>2. PhonesInv /\ [Next]_vars => PhonesInv'
    <2> SUFFICES ASSUME PhonesInv, [Next]_vars PROVE PhonesInv'
      OBVIOUS
    <2>1. /\ JobsInv /\ RowsInv /\ MutexInv /\ EngineInv /\ BoundsInv /\ serving \in BOOLEAN
          /\ ApplyInv /\ PasswordsInv
      BY Zenon DEF PhonesInv, ApplyInv, PasswordsInv
    <2>2. JobsInv' /\ RowsInv' /\ serving' \in BOOLEAN
      BY <2>1, RowsStep
    <2>3. MutexInv' /\ EngineInv' /\ BoundsInv' /\ ApplyInv' /\ PasswordsInv'
      BY <2>1, MutexStep, EngineStep, BoundsStep, ApplyStays, PasswordsStay
    <2> QED
      BY <2>2, <2>3, Zenon DEF PhonesInv, ApplyInv, PasswordsInv
  <1> QED
    BY <1>1, <1>2, PTL DEF Spec

\* Every variable keeps its type; a phone in the main group is one that there is;
\* an outside line that is on has its password; no two phones share a password; the
\* mutex is held by the one request that is in Apply.
THEOREM PhonesTypeCorrect == Spec => []TypeOK
  <1>1. PhonesInv => TypeOK
    <2> SUFFICES ASSUME PhonesInv PROVE TypeOK
      OBVIOUS
    <2>1. /\ pw \in [Numbers -> 0 .. MaxPasswords] /\ main \subseteq Existing
          /\ trunk \in [line : Lines, pw : 0 .. 1] /\ (trunk.line # "off" => trunk.pw # 0)
          /\ menu \in Menus /\ greeting \in {"none", "short", "good"}
          /\ lastPw \in 0 .. MaxPasswords
          /\ \A p, q \in Numbers : pw[p] = pw[q] /\ pw[p] # 0 => p = q
      BY Zenon DEF PhonesInv, RowsInv, Secrets, Trunks
    <2>2. DOMAIN files = Files /\ DOMAIN running = Files
      BY DEF PhonesInv, EngineInv
    <2>3. asterisk \in {"down", "up"} \union Files /\ serving \in BOOLEAN
      BY Zenon DEF PhonesInv, EngineInv
    <2>4. /\ applyMu \in Workers \union {Nobody}
          /\ \A w \in Workers : applyMu = w <=> job[w].pc \in Held
      BY Zenon DEF PhonesInv, MutexInv
    <2>5. \A w \in Workers : job[w].op \in Ops
      BY JobParts DEF PhonesInv, JobsInv
    <2>6. failing \in Flaky \union {"nothing"} /\ asked \in 0 .. MaxRequests
          /\ events \in 0 .. MaxEvents
      BY Zenon DEF PhonesInv, BoundsInv
    <2> QED
      BY <2>1, <2>2, <2>3, <2>4, <2>5, <2>6, Zenon DEF TypeOK, Ops, Held
  <1> QED
    BY <1>1, PhonesInvariant, PTL

\* When nothing is in progress and nothing went wrong, the files and what Asterisk
\* runs say what the rows say (router.go's mutex is what does it: the last to
\* enter Apply reads what all the others saved).
THEOREM ConfigurationFollows == Spec => []ConfigFollows
  <1>1. PhonesInv => ConfigFollows
    <2> SUFFICES ASSUME PhonesInv, Quiet, ~unapplied
                 PROVE  /\ ~recorded => files = Render(Now)
                        /\ asterisk = "up" /\ ~unloaded =>
                             /\ running = files
                             /\ \A n \in running.dialplan.menu :
                                   /\ running.pjsip.phones[n] # 0
                                   /\ n \in running.voicemail
      BY Zenon DEF ConfigFollows
    <2>1. \A w \in Workers : job[w].pc = "idle"
      BY DEF Quiet, PhonesInv, JobsInv, JobOK
    <2>2. applyMu = Nobody /\ ~Pending
      BY <2>1 DEF PhonesInv, MutexInv, Pending, Held
    <2>3. FilesFollow /\ (~unloaded => running = files)
      BY <2>2 DEF PhonesInv, AppliedInv
    <2>4. PICK b \in BOOLEAN : files = Render(NowHas(b))
      BY <2>3, Zenon DEF FilesFollow
    <2>5. /\ files.pjsip.phones = pw /\ files.voicemail = Listed(NowHas(b))
          /\ files.dialplan.menu = renderMenu(NowHas(b))
      BY <2>4, Zenon DEF Render, renderPJSIP, renderVoicemail, renderDialplan, NowHas
    <2>6. NowHas(b).pw = pw
      BY Zenon DEF NowHas
    <2>7. \A n \in files.dialplan.menu : files.pjsip.phones[n] # 0 /\ n \in files.voicemail
      <3> DEFINE v == NowHas(b)
      <3>1. renderMenu(v) \subseteq Listed(v)
        BY Zenon DEF renderMenu
      <3> HIDE DEF v
      <3> QED
        BY <2>5, <2>6, <3>1 DEF Listed, v
    <2> QED
      BY <2>3, <2>7, Zenon DEF FilesFollow
  <1> QED
    BY <1>1, PhonesInvariant, PTL

\* A password an admin was told is replaced or deleted is in no file any more, and
\* no phone signs in with it unless Asterisk missed the reload.
THEOREM OldPasswordsStayOut == Spec => []RetiredStaysOut
  <1>1. PhonesInv => RetiredStaysOut
    BY DEF PhonesInv, RetiredInv, NotIn, RetiredStaysOut
  <1> QED
    BY <1>1, PhonesInvariant, PTL
============================================================================
