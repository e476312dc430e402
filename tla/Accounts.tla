------------------------------- MODULE Accounts --------------------------------
(***************************************************************************)
(* Employees' accounts: the directory (OpenLDAP) that owns people, their   *)
(* passwords and groups, and what the platform keeps in step with it call  *)
(* by call - the WebDAV server's logins and folder rules, the calendar     *)
(* server's logins, the portal's sessions, the list of disabled people.    *)
(* One admin request runs at a time, one employee signs in beside it, and  *)
(* an admin stops and starts the two servers' modules.                     *)
(*                                                                         *)
(* A password is a number, a new one each time, 0 for no entry; a hash is  *)
(* its password's number.  A folder has the name of its owner.             *)
(***************************************************************************)
EXTENDS Integers, Sequences

CONSTANTS
    Users, Groups,
    Services,     \* those that may fail: "ldap", "dav", "cal", "db"
    MaxPasswords, \* bound: passwords ever set
    MaxRequests,  \* bound: admin requests
    MaxSignIns,   \* bound: sign-ins
    MaxStops      \* bound: times a module is stopped

ASSUME AccountsConstants ==
    /\ Users \intersect Groups = {} /\ Users # {} /\ Groups # {}
    /\ Services \subseteq {"ldap", "dav", "cal", "db"}
    /\ {MaxRequests, MaxSignIns, MaxStops} \subseteq Nat /\ MaxPasswords \in Nat \ {0}

VARIABLES
    pw,        \* the directory: userPassword
    groups,    \* the directory: the groups there are
    member,    \* the directory: each group's member attribute
    davPw,     \* WebDAV's config.yml: each login's password
    denied,    \* config.yml: the folders that a login's rules deny
    folders,   \* the WebDAV server's top-level folders
    calPw,     \* the calendar server's users file
    calendars, \* personal calendars
    sessions,  \* employee_sessions: whose, and the password it was opened with
    disabled,  \* disabled_users
    stopped,   \* installed_modules: which of the two servers does not run
    flaky,     \* bound: the one service whose calls fail now and then, if any
    job,       \* the admin's request
    signIn,    \* the sign-in under way
    lastPw, asked, signed, stops,  \* counters behind the bounds
    told,      \* history: passwords that somebody has seen
    given,     \* history: who was given a password by a create or a reset
    lag        \* history: what a request left out of step, because it failed
               \* half-way or because it found the server's module stopped

ldap    == <<pw, groups, member>>
dav     == <<davPw, denied, folders>>
cal     == <<calPw, calendars>>
db      == <<sessions, disabled, stopped>>
bounds  == <<flaky, lastPw, asked, signed, stops>>
history == <<told, given, lag>>
vars    == <<ldap, dav, cal, db, job, signIn, bounds, history>>

Modules   == {"dav", "cal"}
Passwords == 0 .. MaxPasswords
Present   == {u \in Users : pw[u] # 0}
GroupsOf(u) == {g \in groups : u \in member[g]}

\* What each handler calls, in order.
CreateUserSteps    == <<"find group", "add user", "join", "make folder", "sync webdav",
                        "read logins", "write login", "show password">>
ChangeGroupSteps   == <<"leave others", "join", "rebuild rules">>
ResetPasswordSteps == <<"set password", "sync webdav", "read logins", "write login",
                        "revoke sessions", "show password">>
DeleteUserSteps    == <<"revoke sessions", "leave all", "delete user",
                        "remove webdav login", "read logins", "drop login", "clear disabled">>
DisableUserSteps   == <<"set password", "remove webdav login", "read logins", "drop login",
                        "revoke sessions", "mark disabled">>
EnableUserSteps    == <<"set password", "sync webdav", "read logins", "write login",
                        "clear disabled", "show password">>
CreateGroupSteps   == <<"add group", "make folder", "rebuild rules">>
DeleteGroupSteps   == <<"delete group", "rebuild rules">>
BackfillSteps      == <<"make all folders">>

Program == [create |-> CreateUserSteps, move |-> ChangeGroupSteps,
            reset |-> ResetPasswordSteps, delete |-> DeleteUserSteps,
            disable |-> DisableUserSteps, enable |-> EnableUserSteps,
            newgroup |-> CreateGroupSteps, delgroup |-> DeleteGroupSteps,
            backfill |-> BackfillSteps]

Ops   == DOMAIN Program
Empty == [v \in Users |-> 0]
Idle  == [op |-> "none", at |-> 0, user |-> CHOOSE v \in Users : TRUE,
          group |-> CHOOSE h \in Groups : TRUE, typed |-> FALSE, file |-> Empty]
Away  == [pc |-> "away", user |-> CHOOSE v \in Users : TRUE, pass |-> 0, file |-> Empty]

\* Everything has its type, a group that does not exist has no members, and
\* a password that was seen was set.
TypeOK ==
    /\ pw \in [Users -> Passwords] /\ groups \subseteq Groups
    /\ member \in [Groups -> SUBSET Users] /\ \A h \in Groups \ groups : member[h] = {}
    /\ davPw \in [Users -> Passwords] /\ calPw \in [Users -> Passwords]
    /\ denied \in [Users -> SUBSET (Users \union Groups)]
    /\ folders \subseteq Users \union Groups /\ calendars \subseteq Users
    /\ sessions \subseteq [user : Users, pass : Passwords \ {0}]
    /\ disabled \subseteq Users /\ stopped \subseteq Modules
    /\ flaky \in Services \union {"none"}
    /\ job \in [op : Ops \union {"none"}, at : 0 .. 8, user : Users, group : Groups,
                typed : BOOLEAN, file : [Users -> Passwords]]
    /\ job.op # "none" => job.at \in DOMAIN Program[job.op]
    /\ signIn \in [pc : {"away", "verified", "signed in", "unprovisioned", "read"},
                   user : Users, pass : Passwords, file : [Users -> Passwords]]
    /\ lastPw \in Passwords /\ asked \in 0 .. MaxRequests /\ signed \in 0 .. MaxSignIns
    /\ stops \in 0 .. MaxStops
    /\ told \subseteq 1 .. lastPw /\ given \subseteq Users
    /\ lag \in [dav : SUBSET Users, cal : SUBSET Users, rules : BOOLEAN]

\* A directory with one person in one group, everything in step; the calendar
\* server was installed after the person was created.
Init ==
    LET v == CHOOSE w \in Users : TRUE
        h == CHOOSE k \in Groups : TRUE
    IN
    /\ pw = [Empty EXCEPT ![v] = 1]
    /\ groups = {h} /\ member = [k \in Groups |-> IF k = h THEN {v} ELSE {}]
    /\ davPw = pw /\ denied = [w \in Users |-> {}] /\ folders = {v, h}
    /\ calPw = Empty /\ calendars = {}
    /\ sessions = {} /\ disabled = {} /\ stopped = {}
    /\ flaky \in Services \union {"none"}
    /\ job = Idle /\ signIn = Away
    /\ lastPw = 1 /\ asked = 0 /\ signed = 0 /\ stops = 0
    /\ told = {1} /\ given = {}
    /\ lag = [dav |-> {}, cal |-> {}, rules |-> FALSE]

----------------------------------------------------------------------------
(* A request's steps.                                                      *)

u == job.user
g == job.group

At(step) == job.op # "none" /\ Program[job.op][job.at] = step

\* The handler goes on to its next call, or has made its last one.
Continue == job' = IF job.at = Len(Program[job.op]) THEN Idle ELSE [job EXCEPT !.at = @ + 1]
Return   == job' = Idle
Fails(service) == service = flaky

\* Every sync reads the module's row first.  One that is not running, as a row
\* that cannot be read, ends the sync before it changed anything, and the
\* handler goes on.
Running(module) == module \notin stopped
Skipped(module) == ~Running(module) \/ Fails("db")

\* An admin asks; a password field left empty means a generated one.
Request ==
    /\ job.op = "none" /\ asked < MaxRequests
    /\ asked' = asked + 1
    /\ \E op \in Ops, v \in Users, h \in Groups, t \in BOOLEAN :
        /\ t => op \in {"create", "reset"}
        /\ job' = [Idle EXCEPT !.op = op, !.at = 1, !.user = v, !.group = h, !.typed = t]
    /\ UNCHANGED <<ldap, dav, cal, db, signIn, flaky, lastPw, signed, stops, history>>

FindGroup ==
    /\ At("find group")
    /\ \/ g \in groups /\ Continue
       \/ (g \notin groups \/ Fails("ldap")) /\ Return
    /\ UNCHANGED <<ldap, dav, cal, db, signIn, bounds, history>>

\* randomPassword or the one the admin typed, which is known from here on.
NewPassword ==
    /\ lastPw < MaxPasswords
    /\ lastPw' = lastPw + 1
    /\ pw' = [pw EXCEPT ![u] = lastPw + 1]
    /\ told' = IF job.typed THEN told \union {lastPw + 1} ELSE told
    /\ given' = IF job.op \in {"create", "reset"} THEN given \union {u} ELSE given \ {u}
    /\ Continue /\ UNCHANGED <<flaky, asked, signed, stops, lag>>

\* The directory refuses a second entry of a name.
AddUser ==
    /\ At("add user")
    /\ \/ pw[u] = 0 /\ NewPassword
       \/ (pw[u] # 0 \/ Fails("ldap")) /\ Return /\ UNCHANGED <<pw, bounds, history>>
    /\ UNCHANGED <<groups, member, dav, cal, db, signIn>>

SetPassword ==
    /\ At("set password")
    /\ \/ pw[u] # 0 /\ NewPassword
       \/ (pw[u] = 0 \/ Fails("ldap")) /\ Return /\ UNCHANGED <<pw, bounds, history>>
    /\ UNCHANGED <<groups, member, dav, cal, db, signIn>>

\* The request ends between its change of the directory and the sync.
HalfWay ==
    /\ Return
    /\ lag' = [lag EXCEPT !.rules = TRUE,
                          !.dav = IF job.op = "create" THEN @ \union {u} ELSE @,
                          !.cal = IF job.op = "create" THEN @ \union {u} ELSE @]
    /\ UNCHANGED <<told, given>>

\* A group's members are read, changed and written back whole; the directory
\* does not ask whether there is such a person.
AddUserToGroup(v, h)      == [member EXCEPT ![h] = @ \union {v}]
RemoveUserFromGroup(v, S) == [h \in Groups |-> IF h \in S THEN member[h] \ {v} ELSE member[h]]

Join ==
    /\ At("join")
    /\ \/ /\ g \in groups
          /\ member' = AddUserToGroup(u, g)
          /\ Continue /\ UNCHANGED history
       \/ (g \notin groups \/ Fails("ldap")) /\ HalfWay /\ UNCHANGED member
    /\ UNCHANGED <<pw, groups, dav, cal, db, signIn, bounds>>

\* A move leaves every other group before it knows that the new one exists; a
\* removal that fails ends it.
LeaveOthers ==
    /\ At("leave others")
    /\ \/ /\ member' = RemoveUserFromGroup(u, Groups \ {g})
          /\ IF g \in groups THEN Continue /\ UNCHANGED history ELSE HalfWay
       \/ /\ Fails("ldap") /\ HalfWay
          /\ \E left \in SUBSET (Groups \ {g}) : member' = RemoveUserFromGroup(u, left)
    /\ UNCHANGED <<pw, groups, dav, cal, db, signIn, bounds>>

\* A delete goes on past a removal that fails.
LeaveAll ==
    /\ At("leave all") /\ Continue
    /\ \E left \in SUBSET Groups :
        /\ left = Groups \/ Fails("ldap")
        /\ member' = RemoveUserFromGroup(u, left)
    /\ UNCHANGED <<pw, groups, dav, cal, db, signIn, bounds, history>>

DeleteUser ==
    /\ At("delete user")
    /\ \/ pw[u] # 0 /\ pw' = [pw EXCEPT ![u] = 0] /\ Continue /\ UNCHANGED history
       \/ /\ (pw[u] = 0 \/ Fails("ldap"))
          /\ IF pw[u] = 0 THEN Return /\ UNCHANGED history ELSE HalfWay
          /\ UNCHANGED pw
    /\ UNCHANGED <<groups, member, dav, cal, db, signIn, bounds>>

AddGroup ==
    /\ At("add group")
    /\ \/ g \notin groups /\ groups' = groups \union {g} /\ Continue
       \/ (g \in groups \/ Fails("ldap")) /\ Return /\ UNCHANGED groups
    /\ UNCHANGED <<pw, member, dav, cal, db, signIn, bounds, history>>

\* Mutant: the entry goes, its members stay to be met by a group of that name.
DeleteGroup_KeepMembers ==
    /\ At("delete group")
    /\ \/ g \in groups /\ groups' = groups \ {g} /\ Continue
       \/ (g \notin groups \/ Fails("ldap")) /\ Return /\ UNCHANGED groups
    /\ UNCHANGED <<pw, member, dav, cal, db, signIn, bounds, history>>

DeleteGroup ==
    /\ At("delete group")
    /\ \/ /\ g \in groups
          /\ groups' = groups \ {g} /\ member' = [member EXCEPT ![g] = {}]
          /\ Continue
       \/ (g \notin groups \/ Fails("ldap")) /\ Return /\ UNCHANGED <<groups, member>>
    /\ UNCHANGED <<pw, dav, cal, db, signIn, bounds, history>>

\* MKCOL; a folder that is there already is as good.
EnsureFolder(names) == folders' = folders \union names

\* For the new person (and "shared") or the new group; a failure is logged.
MakeFolder ==
    /\ At("make folder") /\ Continue
    /\ \/ Running("dav") /\ EnsureFolder({IF job.op = "create" THEN u ELSE g})
       \/ (Skipped("dav") \/ Fails("dav")) /\ UNCHANGED folders
    /\ UNCHANGED <<ldap, davPw, denied, cal, db, signIn, bounds, history>>

\* A file share installed after the directory: folders for all there are, up
\* to the first that fails.
MakeAllFolders ==
    /\ At("make all folders") /\ Continue
    /\ \E made \in SUBSET (Present \union groups) :
        /\ \/ Running("dav") /\ (made = Present \union groups \/ Fails("dav"))
           \/ (Skipped("dav") \/ Fails("ldap")) /\ made = {}
        /\ EnsureFolder(made)
    /\ UNCHANGED <<ldap, davPw, denied, cal, db, signIn, bounds, history>>

\* One read of the directory: its people, its groups, each person's group - of
\* several, the one listed last.
webdavGroupContext ==
    [users |-> Present, groups |-> groups,
     groupOf |-> [v \in Users |-> IF GroupsOf(v) = {} THEN {}
                                  ELSE {CHOOSE h \in GroupsOf(v) : TRUE}]]

\* Mutant: only people's folders are denied.
rulesFor_NoGroups(v, seen) == seen.users \ {v}

\* What a login is denied: the folder of everyone else and of every group but
\* its own.
rulesFor(v, seen) == (seen.users \ {v}) \union (seen.groups \ seen.groupOf[v])

\* A login of someone the directory lists gets new rules, any other keeps its.
applyRules(logins) ==
    LET seen == webdavGroupContext IN
    [v \in Users |-> IF v \in logins \intersect seen.users THEN rulesFor(v, seen) ELSE denied[v]]

\* config.yml as each operation changes it.
Logins         == {v \in Users : davPw[v] # 0}
SyncUser(v)    == [logins |-> [davPw EXCEPT ![v] = pw[v]], rules |-> applyRules(Logins \union {v})]
RebuiltConfig  == [logins |-> davPw, rules |-> applyRules(Logins)]
\* Mutant: a login of someone the directory no longer lists is left alone, as
\* applyRules leaves its rules alone.
RemoveUser_Listed(v) ==
    IF v \in Present
    THEN [logins |-> [davPw EXCEPT ![v] = 0], rules |-> [denied EXCEPT ![v] = {}]]
    ELSE [logins |-> davPw, rules |-> denied]
\* Everyone else keeps the rule about the folder.
RemoveUser(v)  == [logins |-> [davPw EXCEPT ![v] = 0], rules |-> [denied EXCEPT ![v] = {}]]

\* The file is written, then the server restarted.  What fails is logged:
\* nothing was written, or the server was not restarted.
writeConfig(config) == davPw' = config.logins /\ denied' = config.rules
writeConfigFails(config) ==
    Fails("dav") /\ (writeConfig(config) \/ UNCHANGED <<davPw, denied>>)

SyncWebdav ==
    /\ At("sync webdav") /\ Continue
    /\ \/ /\ Running("dav") /\ writeConfig(SyncUser(u))
          /\ lag' = [lag EXCEPT !.dav = @ \ {u}, !.rules = FALSE]
       \/ /\ \/ (Skipped("dav") \/ Fails("ldap")) /\ UNCHANGED <<davPw, denied>>
             \/ writeConfigFails(SyncUser(u))
          /\ lag' = [lag EXCEPT !.dav = @ \union {u}, !.rules = TRUE]
    /\ UNCHANGED <<ldap, folders, cal, db, signIn, bounds, told, given>>

RebuildRules ==
    /\ At("rebuild rules") /\ Continue
    /\ \/ Running("dav") /\ writeConfig(RebuiltConfig) /\ lag' = [lag EXCEPT !.rules = FALSE]
       \/ /\ \/ (Skipped("dav") \/ Fails("ldap")) /\ UNCHANGED <<davPw, denied>>
             \/ writeConfigFails(RebuiltConfig)
          /\ lag' = [lag EXCEPT !.rules = TRUE]
    /\ UNCHANGED <<ldap, folders, cal, db, signIn, bounds, told, given>>

RemoveWebdavLogin ==
    /\ At("remove webdav login") /\ Continue
    /\ \/ Running("dav") /\ writeConfig(RemoveUser(u)) /\ lag' = [lag EXCEPT !.dav = @ \ {u}]
       \/ /\ \/ Skipped("dav") /\ UNCHANGED <<davPw, denied>>
             \/ writeConfigFails(RemoveUser(u))
          /\ lag' = [lag EXCEPT !.dav = @ \union {u}]
    /\ UNCHANGED <<ldap, folders, cal, db, signIn, bounds, told, given>>

readUsers == calPw

\* The file and a restart, or a failure before the file or after it.  Stopping
\* the module removes the container: there is nothing to restart.
writeUsers(file)      == Running("cal") /\ calPw' = file
writeUsersFails(file) == (Fails("cal") \/ ~Running("cal")) /\ calPw' \in {calPw, file}

\* The calendar is made as its owner, once the new login is accepted: the wait
\* for that and the making may fail.
EnsureCalendarAsOwner(v) == calendars' = calendars \union {v}

\* radicalefs.SyncUser: the login, then the personal calendar.
SyncCalendar(file, v)      == writeUsers(file) /\ EnsureCalendarAsOwner(v)
SyncCalendarFails(file)    == writeUsersFails(file) /\ UNCHANGED calendars

\* radicalefs.RemoveUser writes nothing when there is no such login.
RemoveLogin(file, v)       == \/ file[v] # 0 /\ writeUsers([file EXCEPT ![v] = 0])
                              \/ file[v] = 0 /\ UNCHANGED calPw
RemoveLoginFails(file, v)  == file[v] # 0 /\ writeUsersFails([file EXCEPT ![v] = 0])

\* The calendar server's users file is read, changed and written back; a
\* sign-in may write between the two.  Without the read there is no write.
ReadLogins ==
    /\ At("read logins")
    /\ \/ /\ Running("cal") /\ job' = [job EXCEPT !.at = @ + 1, !.file = readUsers]
          /\ UNCHANGED history
       \/ /\ Skipped("cal") \/ Fails("cal")
          /\ job' = [job EXCEPT !.at = @ + 2]
          /\ lag' = [lag EXCEPT !.cal = @ \union {u}] /\ UNCHANGED <<told, given>>
    /\ UNCHANGED <<ldap, dav, cal, db, signIn, bounds>>

WriteLogin ==
    LET file == [job.file EXCEPT ![u] = pw[u]] IN
    /\ At("write login") /\ job' = [job EXCEPT !.at = @ + 1, !.file = Empty]
    /\ \/ SyncCalendar(file, u) /\ lag' = [lag EXCEPT !.cal = @ \ {u}]
       \/ SyncCalendarFails(file) /\ lag' = [lag EXCEPT !.cal = @ \union {u}]
    /\ UNCHANGED <<ldap, dav, db, signIn, bounds, told, given>>

DropLogin ==
    /\ At("drop login") /\ job' = [job EXCEPT !.at = @ + 1, !.file = Empty]
    /\ \/ RemoveLogin(job.file, u) /\ lag' = [lag EXCEPT !.cal = @ \ {u}]
       \/ RemoveLoginFails(job.file, u) /\ lag' = [lag EXCEPT !.cal = @ \union {u}]
    /\ UNCHANGED <<ldap, dav, calendars, db, signIn, bounds, told, given>>

SessionsOf(v) == {s \in sessions : s.user = v}

RevokeSessions ==
    /\ At("revoke sessions") /\ Continue
    /\ \/ sessions' = sessions \ SessionsOf(u)
       \/ Fails("db") /\ UNCHANGED sessions
    /\ UNCHANGED <<ldap, dav, cal, disabled, stopped, signIn, bounds, history>>

MarkDisabled ==
    /\ At("mark disabled") /\ Continue
    /\ \/ disabled' = disabled \union {u}
       \/ Fails("db") /\ UNCHANGED disabled
    /\ UNCHANGED <<ldap, dav, cal, sessions, stopped, signIn, bounds, history>>

\* Mutant: enabling, too, goes on when the row is not deleted.
ClearDisabled_Logged ==
    /\ At("clear disabled") /\ Continue
    /\ \/ disabled' = disabled \ {u}
       \/ Fails("db") /\ UNCHANGED disabled
    /\ UNCHANGED <<ldap, dav, cal, sessions, stopped, signIn, bounds, history>>

\* A delete logs the failure; enabling returns it, and shows no password.
ClearDisabled ==
    /\ At("clear disabled")
    /\ \/ disabled' = disabled \ {u} /\ Continue
       \/ /\ Fails("db") /\ UNCHANGED disabled
          /\ IF job.op = "enable" THEN Return ELSE Continue
    /\ UNCHANGED <<ldap, dav, cal, sessions, stopped, signIn, bounds, history>>

\* The response carries the password, once.
ShowPassword ==
    /\ At("show password") /\ Continue
    /\ told' = told \union {pw[u]}
    /\ UNCHANGED <<ldap, dav, cal, db, signIn, bounds, given, lag>>

----------------------------------------------------------------------------
(* The portal: signing in with the directory's password, signing out.      *)

\* A bind as the person.
VerifyPassword(v, pass) == pw[v] = pass

Verify ==
    /\ signIn.pc = "away" /\ signed < MaxSignIns
    /\ signed' = signed + 1
    /\ \E v \in Users, pass \in told :
        /\ VerifyPassword(v, pass)
        /\ signIn' = [Away EXCEPT !.pc = "verified", !.user = v, !.pass = pass]
    /\ UNCHANGED <<ldap, dav, cal, db, job, flaky, lastPw, asked, stops, history>>

OpenSession ==
    /\ signIn.pc = "verified"
    /\ \/ /\ sessions' = sessions \union {[user |-> signIn.user, pass |-> signIn.pass]}
          /\ signIn' = [signIn EXCEPT !.pc = "signed in"]
       \/ Fails("db") /\ signIn' = Away /\ UNCHANGED sessions
    /\ UNCHANGED <<ldap, dav, cal, disabled, stopped, job, bounds, history>>

\* ensurePersonalCalendar: nothing to do for whoever has a calendar; else the
\* same read and write as an admin request's.
CalendarExists(v) == v \in calendars

FindCalendar ==
    /\ signIn.pc = "signed in"
    /\ \/ /\ Running("cal") /\ ~CalendarExists(signIn.user)
          /\ signIn' = [signIn EXCEPT !.pc = "read", !.file = readUsers]
       \/ /\ CalendarExists(signIn.user) \/ Skipped("cal") \/ Fails("cal")
          /\ signIn' = Away
    /\ UNCHANGED <<ldap, dav, cal, db, job, bounds, history>>

ProvisionCalendar ==
    LET file == [signIn.file EXCEPT ![signIn.user] = signIn.pass] IN
    /\ signIn.pc = "read" /\ signIn' = Away
    /\ SyncCalendar(file, signIn.user) \/ SyncCalendarFails(file)
    /\ UNCHANGED <<ldap, dav, db, job, bounds, history>>

SignOut ==
    /\ \E s \in sessions : sessions' = sessions \ {s}
    /\ UNCHANGED <<ldap, dav, cal, disabled, stopped, job, signIn, bounds, history>>

----------------------------------------------------------------------------
(* The two servers' modules.  Bound: not where a service's calls fail.     *)

\* Nothing is synced when a module is started again.
Disable ==
    /\ flaky = "none" /\ stops < MaxStops
    /\ stops' = stops + 1
    /\ \E m \in Modules \ stopped : stopped' = stopped \union {m}
    /\ UNCHANGED <<ldap, dav, cal, sessions, disabled, job, signIn, history>>
    /\ UNCHANGED <<flaky, lastPw, asked, signed>>

Enable ==
    /\ \E m \in stopped : stopped' = stopped \ {m}
    /\ UNCHANGED <<ldap, dav, cal, sessions, disabled, job, signIn, bounds, history>>

Next ==
    \/ Request \/ FindGroup \/ AddUser \/ SetPassword \/ Join \/ LeaveOthers \/ LeaveAll
    \/ DeleteUser \/ AddGroup \/ DeleteGroup \/ MakeFolder \/ MakeAllFolders
    \/ SyncWebdav \/ RebuildRules \/ RemoveWebdavLogin
    \/ ReadLogins \/ WriteLogin \/ DropLogin
    \/ RevokeSessions \/ MarkDisabled \/ ClearDisabled \/ ShowPassword
    \/ Verify \/ OpenSession \/ FindCalendar \/ ProvisionCalendar \/ SignOut
    \/ Disable \/ Enable

Spec == Init /\ [][Next]_vars

----------------------------------------------------------------------------
(* Properties, between requests.                                           *)

Quiet == job.op = "none"

\* A WebDAV login has the directory's password or is not there, whatever was
\* created, reset, disabled, enabled or deleted, unless the person's last
\* request had a call that failed or found the file share's module stopped; a
\* calendar login too, as long as nobody's sign-in could write the file beside a
\* request (users.go: create, reset, delete, disable and enable keep two more
\* systems in step with the directory call by call, and a sync that finds the
\* module stopped returns without an error).
LoginsFollow ==
    Quiet =>
        \A v \in Users :
            /\ v \notin lag.dav => davPw[v] \in {0, pw[v]}
            /\ v \notin lag.cal /\ signed = 0 => calPw[v] \in {0, pw[v]}

\* Nobody's login reaches the folder of someone else or of a group they are not
\* in, unless a request ended between its change of the directory and the rules,
\* or found the module stopped, and none rebuilt the rules since
\* (webdavfs/sync.go: "each person stays confined to their own folder, their
\* group's folder, and shared").
RulesConfine ==
    Quiet /\ ~lag.rules =>
        \A v \in Present \intersect Logins :
            folders \intersect ((Present \ {v}) \union (groups \ GroupsOf(v))) \subseteq denied[v]

\* Whoever is marked disabled has, in the directory and at the file share, a
\* password nobody has seen - after enabling them failed half-way, too - until
\* the admin gives them one (users.go: "a value nobody is shown").  The file
\* share's is left as it was by a disable whose removal of the login failed or
\* found the module stopped.
DisabledStayOut ==
    Quiet =>
        \A v \in disabled \ given :
            /\ pw[v] \notin told
            /\ davPw[v] \in told => v \in lag.dav

\* Where no call fails, whoever is marked disabled has no login at the file share
\* with a password somebody knows, once the file share runs (modules.go: the
\* enable handler starts the containers).  Not so: disabling somebody while it is
\* stopped removes nothing, and nothing removes the login when it is started.
DisabledStayOutOnceStarted ==
    Quiet /\ flaky = "none" /\ Running("dav") =>
        \A v \in disabled \ given : davPw[v] \notin told

\* Who was deleted has no session (employee/auth.go: RevokeAll is there so that
\* nobody's session keeps working after they had been cut off).  Not so: the
\* session of a sign-in that was verified before, or between the steps of the
\* delete, is inserted after.
CutOff ==
    Quiet /\ signIn.pc = "away" =>
        \A v \in Users : v \notin Present => SessionsOf(v) = {}
=============================================================================
