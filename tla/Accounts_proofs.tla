------------------------- MODULE Accounts_proofs -------------------------
(***************************************************************************)
(* Proofs about Accounts, for any people, groups, failing services and     *)
(* bounds.                                                                 *)
(***************************************************************************)
EXTENDS Accounts, TLAPS

----------------------------------------------------------------------------
(* The inductive invariant.                                                *)

Jobs    == [op : Ops \union {"none"}, at : 0 .. 8, user : Users, group : Groups,
            typed : BOOLEAN, file : [Users -> Passwords]]
SignIns == [pc : {"away", "verified", "signed in", "unprovisioned", "read"},
            user : Users, pass : Passwords, file : [Users -> Passwords]]

JobInv ==
    /\ job \in Jobs
    /\ job.op # "none" => job.at \in DOMAIN Program[job.op]
    /\ job.typed => job.op \in {"create", "reset"}
    /\ signIn \in SignIns
    /\ signIn.pc # "away" => signIn.pass # 0
    /\ signed = 0 => signIn.pc = "away"

DirectoryInv ==
    /\ pw \in [Users -> Passwords] /\ groups \subseteq Groups
    /\ member \in [Groups -> SUBSET Users] /\ \A h \in Groups \ groups : member[h] = {}
    /\ \A v \in Users : pw[v] <= lastPw
    /\ \A v, w \in Users : pw[v] = pw[w] => v = w \/ pw[v] = 0

ServersInv ==
    /\ davPw \in [Users -> Passwords] /\ calPw \in [Users -> Passwords]
    /\ denied \in [Users -> SUBSET (Users \union Groups)]
    /\ folders \subseteq Users \union Groups /\ calendars \subseteq Users
    /\ \A v \in Users : davPw[v] <= lastPw
    /\ sessions \subseteq [user : Users, pass : Passwords \ {0}] /\ disabled \subseteq Users
    /\ stopped \subseteq Modules

BoundsInv ==
    /\ flaky \in Services \union {"none"}
    /\ lastPw \in Passwords /\ asked \in 0 .. MaxRequests /\ signed \in 0 .. MaxSignIns
    /\ stops \in 0 .. MaxStops
    /\ told \subseteq 1 .. lastPw /\ given \subseteq Users
    /\ lag \in [dav : SUBSET Users, cal : SUBSET Users, rules : BOOLEAN]

\* The person's password has been set, and the call is still to come that brings
\* the file share, or the calendar server, in step.
DavOpen == \/ job.op \in {"reset", "enable", "disable"} /\ job.at = 2
           \/ job.op = "delete" /\ job.at = 4
CalOpen == \/ job.op \in {"reset", "enable", "disable"} /\ job.at \in 2 .. 4
           \/ job.op = "delete" /\ job.at \in 4 .. 6

\* The calendar server's file has been read, and is about to be written.
FileRead == \/ job.op = "create" /\ job.at = 7
            \/ job.op \in {"reset", "enable", "disable"} /\ job.at = 4
            \/ job.op = "delete" /\ job.at = 6

LoginsInv ==
    /\ \A v \in Users \ lag.dav : (v = u /\ DavOpen) \/ davPw[v] \in {0, pw[v]}
    /\ signed = 0 =>
          /\ FileRead => job.file = calPw
          /\ \A v \in Users \ lag.cal : (v = u /\ CalOpen) \/ calPw[v] \in {0, pw[v]}

\* The directory has changed and the rules are not rebuilt yet.
RulesOpen == \/ job.op = "create" /\ job.at \in 3 .. 5
             \/ job.op \in {"newgroup", "move"} /\ job.at \in 2 .. 3
Leaving   == job.op = "delete" /\ job.at = 3

\* Every folder that could be of someone else is denied, there or not.
Confined(v) == \A f \in (Present \ {v}) \union (groups \ GroupsOf(v)) : f \in denied[v]

RulesInv ==
    ~lag.rules /\ ~RulesOpen =>
        \A v \in Present \intersect Logins : (v = u /\ Leaving) \/ Confined(v)

\* What the request has done to its person's password.
Gave     == \/ job.op = "create" /\ job.at >= 3
            \/ job.op = "reset" /\ job.at >= 2
Withheld == job.op \in {"enable", "disable"} /\ job.at >= 2

PasswordInv ==
    /\ Gave => pw[u] # 0 /\ u \in given
    /\ Withheld => pw[u] # 0 /\ u \notin given /\ pw[u] \notin told
    /\ job.op = "enable" /\ job.at = 6 => u \notin disabled

DisabledInv ==
    \A v \in Users :
        v \in disabled \ given \/ (v = u /\ Withheld) =>
            /\ pw[v] \notin told
            /\ davPw[v] \in told => v \in lag.dav \/ (v = u /\ Withheld /\ job.at = 2)

AccountsInv ==
    /\ JobInv /\ DirectoryInv /\ ServersInv /\ BoundsInv
    /\ LoginsInv /\ RulesInv /\ PasswordInv /\ DisabledInv

----------------------------------------------------------------------------
(* The helpers.                                                            *)

\* The bounds are numbers, and there is somebody and some group.
LEMMA Bounds ==
    /\ MaxPasswords \in Nat \ {0} /\ MaxRequests \in Nat /\ MaxSignIns \in Nat
    /\ MaxStops \in Nat
    /\ (CHOOSE v \in Users : TRUE) \in Users /\ (CHOOSE h \in Groups : TRUE) \in Groups
    /\ Users \intersect Groups = {}
  BY AccountsConstants

\* The names of the requests.
LEMMA OpNames ==
    Ops = {"create", "move", "reset", "delete", "disable", "enable", "newgroup", "delgroup",
           "backfill"}
  BY Zenon DEF Ops, Program

\* How many calls a request makes.
LEMMA Lengths ==
    /\ DOMAIN Program["create"] = 1 .. 8 /\ Len(Program["create"]) = 8
    /\ DOMAIN Program["move"] = 1 .. 3 /\ Len(Program["move"]) = 3
    /\ DOMAIN Program["reset"] = 1 .. 6 /\ Len(Program["reset"]) = 6
    /\ DOMAIN Program["delete"] = 1 .. 7 /\ Len(Program["delete"]) = 7
    /\ DOMAIN Program["disable"] = 1 .. 6 /\ Len(Program["disable"]) = 6
    /\ DOMAIN Program["enable"] = 1 .. 6 /\ Len(Program["enable"]) = 6
    /\ DOMAIN Program["newgroup"] = 1 .. 3 /\ Len(Program["newgroup"]) = 3
    /\ DOMAIN Program["delgroup"] = 1 .. 2 /\ Len(Program["delgroup"]) = 2
    /\ DOMAIN Program["backfill"] = 1 .. 1 /\ Len(Program["backfill"]) = 1
  BY DEF Program, CreateUserSteps, ChangeGroupSteps, ResetPasswordSteps, DeleteUserSteps,
     DisableUserSteps, EnableUserSteps, CreateGroupSteps, DeleteGroupSteps, BackfillSteps

\* Which call it is, at each place of each request.
LEMMA Calls ==
    /\ LET p == Program["create"] IN
       /\ p[1] = "find group" /\ p[2] = "add user" /\ p[3] = "join" /\ p[4] = "make folder"
       /\ p[5] = "sync webdav" /\ p[6] = "read logins" /\ p[7] = "write login"
       /\ p[8] = "show password"
    /\ LET p == Program["move"] IN
       p[1] = "leave others" /\ p[2] = "join" /\ p[3] = "rebuild rules"
    /\ LET p == Program["reset"] IN
       /\ p[1] = "set password" /\ p[2] = "sync webdav" /\ p[3] = "read logins"
       /\ p[4] = "write login" /\ p[5] = "revoke sessions" /\ p[6] = "show password"
    /\ LET p == Program["delete"] IN
       /\ p[1] = "revoke sessions" /\ p[2] = "leave all" /\ p[3] = "delete user"
       /\ p[4] = "remove webdav login" /\ p[5] = "read logins" /\ p[6] = "drop login"
       /\ p[7] = "clear disabled"
    /\ LET p == Program["disable"] IN
       /\ p[1] = "set password" /\ p[2] = "remove webdav login" /\ p[3] = "read logins"
       /\ p[4] = "drop login" /\ p[5] = "revoke sessions" /\ p[6] = "mark disabled"
    /\ LET p == Program["enable"] IN
       /\ p[1] = "set password" /\ p[2] = "sync webdav" /\ p[3] = "read logins"
       /\ p[4] = "write login" /\ p[5] = "clear disabled" /\ p[6] = "show password"
    /\ LET p == Program["newgroup"] IN
       p[1] = "add group" /\ p[2] = "make folder" /\ p[3] = "rebuild rules"
    /\ LET p == Program["delgroup"] IN p[1] = "delete group" /\ p[2] = "rebuild rules"
    /\ Program["backfill"][1] = "make all folders"
  BY DEF Program, CreateUserSteps, ChangeGroupSteps, ResetPasswordSteps, DeleteUserSteps,
     DisableUserSteps, EnableUserSteps, CreateGroupSteps, DeleteGroupSteps, BackfillSteps

\* The parts of a request and of a sign-in.
LEMMA JobParts ==
    /\ \A r \in Jobs : /\ r.op \in Ops \union {"none"} /\ r.at \in 0 .. 8 /\ r.user \in Users
                       /\ r.group \in Groups /\ r.typed \in BOOLEAN
                       /\ r.file \in [Users -> Passwords]
    /\ \A s \in SignIns : /\ s.user \in Users /\ s.pass \in Passwords
                          /\ s.pc \in {"away", "verified", "signed in", "unprovisioned", "read"}
                          /\ s.file \in [Users -> Passwords]
  BY Zenon DEF Jobs, SignIns

\* Where a request is when it makes a call.
Is(op, at) == job.op = op /\ job.at = at

\* Each call is made in these places.
LEMMA Places ==
    ASSUME JobInv
    PROVE  /\ At("find group") => Is("create", 1)
           /\ At("add user") => Is("create", 2)
           /\ At("set password") => Is("reset", 1) \/ Is("disable", 1) \/ Is("enable", 1)
           /\ At("join") => Is("create", 3) \/ Is("move", 2)
           /\ At("leave others") => Is("move", 1)
           /\ At("leave all") => Is("delete", 2)
           /\ At("delete user") => Is("delete", 3)
           /\ At("add group") => Is("newgroup", 1)
           /\ At("delete group") => Is("delgroup", 1)
           /\ At("make folder") => Is("create", 4) \/ Is("newgroup", 2)
           /\ At("make all folders") => Is("backfill", 1)
           /\ At("sync webdav") => Is("create", 5) \/ Is("reset", 2) \/ Is("enable", 2)
           /\ At("rebuild rules") => Is("move", 3) \/ Is("newgroup", 3) \/ Is("delgroup", 2)
           /\ At("remove webdav login") => Is("delete", 4) \/ Is("disable", 2)
           /\ At("read logins") => \/ Is("create", 6) \/ Is("reset", 3) \/ Is("delete", 5)
                                   \/ Is("disable", 3) \/ Is("enable", 3)
           /\ At("write login") => Is("create", 7) \/ Is("reset", 4) \/ Is("enable", 4)
           /\ At("drop login") => Is("delete", 6) \/ Is("disable", 4)
           /\ At("revoke sessions") => Is("reset", 5) \/ Is("delete", 1) \/ Is("disable", 5)
           /\ At("mark disabled") => Is("disable", 6)
           /\ At("clear disabled") => Is("delete", 7) \/ Is("enable", 5)
           /\ At("show password") => Is("create", 8) \/ Is("reset", 6) \/ Is("enable", 6)
  <1>0. /\ job.op \in Ops \union {"none"} /\ job.at \in 0 .. 8
        /\ job.op # "none" => job.at \in DOMAIN Program[job.op]
    BY JobParts, Zenon DEF JobInv
  <1>1. CASE job.op = "none"
    BY <1>1 DEF At
  <1>2. CASE job.op = "create"
    <2>1. \/ job.at = 1 \/ job.at = 2 \/ job.at = 3 \/ job.at = 4 \/ job.at = 5 \/ job.at = 6
          \/ job.at = 7 \/ job.at = 8
      BY <1>0, <1>2, Lengths
    <2>2. CASE job.at = 1
      BY <1>2, <2>2, Calls DEF At, Is
    <2>3. CASE job.at = 2
      BY <1>2, <2>3, Calls DEF At, Is
    <2>4. CASE job.at = 3
      BY <1>2, <2>4, Calls DEF At, Is
    <2>5. CASE job.at = 4
      BY <1>2, <2>5, Calls DEF At, Is
    <2>6. CASE job.at = 5
      BY <1>2, <2>6, Calls DEF At, Is
    <2>7. CASE job.at = 6
      BY <1>2, <2>7, Calls DEF At, Is
    <2>8. CASE job.at = 7
      BY <1>2, <2>8, Calls DEF At, Is
    <2>9. CASE job.at = 8
      BY <1>2, <2>9, Calls DEF At, Is
    <2> QED
      BY <2>1, <2>2, <2>3, <2>4, <2>5, <2>6, <2>7, <2>8, <2>9, Zenon
  <1>3. CASE job.op = "move"
    <2>1. job.at = 1 \/ job.at = 2 \/ job.at = 3
      BY <1>0, <1>3, Lengths
    <2> QED
      BY <1>3, <2>1, Calls DEF At, Is
  <1>4. CASE job.op = "reset"
    <2>1. \/ job.at = 1 \/ job.at = 2 \/ job.at = 3 \/ job.at = 4 \/ job.at = 5 \/ job.at = 6
      BY <1>0, <1>4, Lengths
    <2>2. CASE job.at = 1
      BY <1>4, <2>2, Calls DEF At, Is
    <2>3. CASE job.at = 2
      BY <1>4, <2>3, Calls DEF At, Is
    <2>4. CASE job.at = 3
      BY <1>4, <2>4, Calls DEF At, Is
    <2>5. CASE job.at = 4
      BY <1>4, <2>5, Calls DEF At, Is
    <2>6. CASE job.at = 5
      BY <1>4, <2>6, Calls DEF At, Is
    <2>7. CASE job.at = 6
      BY <1>4, <2>7, Calls DEF At, Is
    <2> QED
      BY <2>1, <2>2, <2>3, <2>4, <2>5, <2>6, <2>7, Zenon
  <1>5. CASE job.op = "delete"
    <2>1. \/ job.at = 1 \/ job.at = 2 \/ job.at = 3 \/ job.at = 4 \/ job.at = 5 \/ job.at = 6
          \/ job.at = 7
      BY <1>0, <1>5, Lengths
    <2>2. CASE job.at = 1
      BY <1>5, <2>2, Calls DEF At, Is
    <2>3. CASE job.at = 2
      BY <1>5, <2>3, Calls DEF At, Is
    <2>4. CASE job.at = 3
      BY <1>5, <2>4, Calls DEF At, Is
    <2>5. CASE job.at = 4
      BY <1>5, <2>5, Calls DEF At, Is
    <2>6. CASE job.at = 5
      BY <1>5, <2>6, Calls DEF At, Is
    <2>7. CASE job.at = 6
      BY <1>5, <2>7, Calls DEF At, Is
    <2>8. CASE job.at = 7
      BY <1>5, <2>8, Calls DEF At, Is
    <2> QED
      BY <2>1, <2>2, <2>3, <2>4, <2>5, <2>6, <2>7, <2>8, Zenon
  <1>6. CASE job.op = "disable"
    <2>1. \/ job.at = 1 \/ job.at = 2 \/ job.at = 3 \/ job.at = 4 \/ job.at = 5 \/ job.at = 6
      BY <1>0, <1>6, Lengths
    <2>2. CASE job.at = 1
      BY <1>6, <2>2, Calls DEF At, Is
    <2>3. CASE job.at = 2
      BY <1>6, <2>3, Calls DEF At, Is
    <2>4. CASE job.at = 3
      BY <1>6, <2>4, Calls DEF At, Is
    <2>5. CASE job.at = 4
      BY <1>6, <2>5, Calls DEF At, Is
    <2>6. CASE job.at = 5
      BY <1>6, <2>6, Calls DEF At, Is
    <2>7. CASE job.at = 6
      BY <1>6, <2>7, Calls DEF At, Is
    <2> QED
      BY <2>1, <2>2, <2>3, <2>4, <2>5, <2>6, <2>7, Zenon
  <1>7. CASE job.op = "enable"
    <2>1. \/ job.at = 1 \/ job.at = 2 \/ job.at = 3 \/ job.at = 4 \/ job.at = 5 \/ job.at = 6
      BY <1>0, <1>7, Lengths
    <2>2. CASE job.at = 1
      BY <1>7, <2>2, Calls DEF At, Is
    <2>3. CASE job.at = 2
      BY <1>7, <2>3, Calls DEF At, Is
    <2>4. CASE job.at = 3
      BY <1>7, <2>4, Calls DEF At, Is
    <2>5. CASE job.at = 4
      BY <1>7, <2>5, Calls DEF At, Is
    <2>6. CASE job.at = 5
      BY <1>7, <2>6, Calls DEF At, Is
    <2>7. CASE job.at = 6
      BY <1>7, <2>7, Calls DEF At, Is
    <2> QED
      BY <2>1, <2>2, <2>3, <2>4, <2>5, <2>6, <2>7, Zenon
  <1>8. CASE job.op = "newgroup"
    <2>1. job.at = 1 \/ job.at = 2 \/ job.at = 3
      BY <1>0, <1>8, Lengths
    <2> QED
      BY <1>8, <2>1, Calls DEF At, Is
  <1>9. CASE job.op = "delgroup"
    <2>1. job.at = 1 \/ job.at = 2
      BY <1>0, <1>9, Lengths
    <2> QED
      BY <1>9, <2>1, Calls DEF At, Is
  <1>10. CASE job.op = "backfill"
    <2>1. job.at = 1
      BY <1>0, <1>10, Lengths
    <2> QED
      BY <1>10, <2>1, Calls DEF At, Is
  <1> QED
    BY <1>0, OpNames, <1>1, <1>2, <1>3, <1>4, <1>5, <1>6, <1>7, <1>8, <1>9, <1>10

\* What no request and no sign-in are.
LEMMA NoJob ==
    /\ Empty \in [Users -> Passwords] /\ \A v \in Users : Empty[v] = 0
    /\ Idle \in Jobs /\ Idle.op = "none" /\ Idle.at = 0
    /\ Away \in SignIns /\ Away.pc = "away"
  <1>1. 0 \in Passwords /\ 0 \in 0 .. 8
    BY Bounds DEF Passwords
  <1>2. Empty \in [Users -> Passwords] /\ \A v \in Users : Empty[v] = 0
    BY <1>1 DEF Empty
  <1>3. "none" \in Ops \union {"none"} /\ FALSE \in BOOLEAN
    OBVIOUS
  <1>4. Idle \in Jobs
    BY <1>1, <1>2, <1>3, Bounds, Zenon DEF Idle, Jobs
  <1>5. Idle.op = "none" /\ Idle.at = 0
    BY Zenon DEF Idle
  <1>6. "away" \in {"away", "verified", "signed in", "unprovisioned", "read"}
    OBVIOUS
  <1>7. Away \in SignIns
    BY <1>1, <1>2, <1>6, Bounds, Zenon DEF Away, SignIns
  <1>8. Away.pc = "away"
    BY Zenon DEF Away
  <1> QED
    BY <1>2, <1>4, <1>5, <1>7, <1>8

\* How a request goes on: n places further, with the file it has or another.
Kept    == /\ job' \in Jobs /\ job'.op = job.op /\ job'.user = job.user
           /\ job'.typed = job.typed
On(n)   == Kept /\ job'.at = job.at + n /\ job'.file = job.file
Busy    == job.op # "none" /\ job.at \in DOMAIN Program[job.op]
AtLast  == job.at = Len(Program[job.op])

\* What the two ways of going on do to the request.
LEMMA Goes ==
    ASSUME JobInv
    PROVE  /\ Busy /\ ~AtLast /\ Continue => On(1)
           /\ AtLast /\ Continue => job' = Idle
           /\ \A n \in 1 .. 2, f \in [Users -> Passwords] :
                 job.at + n <= 8 /\ job' = [job EXCEPT !.at = @ + n, !.file = f] =>
                     Kept /\ job'.at = job.at + n /\ job'.file = f
           /\ \A n \in 1 .. 2 :
                 job.at + n <= 8 /\ job' = [job EXCEPT !.at = @ + n] => On(n)
  <1>0. job \in Jobs /\ job.at \in 0 .. 8
    BY JobParts DEF JobInv
  <1>1. ASSUME NEW n \in 1 .. 2, job.at + n <= 8, job' = [job EXCEPT !.at = @ + n]
        PROVE  On(n)
    <2>1. job.at + n \in 0 .. 8
      BY <1>0, <1>1
    <2> QED
      BY <1>0, <1>1, <2>1 DEF Jobs, On, Kept
  <1>2. ASSUME NEW n \in 1 .. 2, NEW f \in [Users -> Passwords], job.at + n <= 8,
               job' = [job EXCEPT !.at = @ + n, !.file = f]
        PROVE  Kept /\ job'.at = job.at + n /\ job'.file = f
    <2>1. job.at + n \in 0 .. 8
      BY <1>0, <1>2
    <2> QED
      BY <1>0, <1>2, <2>1 DEF Jobs, Kept
  <1>3. Busy /\ ~AtLast /\ Continue => On(1)
    <2> SUFFICES ASSUME Busy, ~AtLast, Continue PROVE On(1)
      OBVIOUS
    <2>1. job.op \in Ops
      BY JobParts DEF JobInv, Busy
    <2>2. job.at + 1 <= 8
      <3>1. job.at \in DOMAIN Program[job.op] /\ job.at # Len(Program[job.op])
        BY DEF Busy, AtLast
      <3>2. CASE job.op = "create"
        <4>1. job.at \in 1 .. 8 /\ job.at # 8
          BY <3>1, <3>2, Lengths
        <4> QED
          BY <4>1
      <3>3. CASE job.op = "delete"
        <4>1. job.at \in 1 .. 7 /\ job.at # 7
          BY <3>1, <3>3, Lengths
        <4> QED
          BY <4>1
      <3>4. CASE job.op = "reset"
        <4>1. job.at \in 1 .. 6 /\ job.at # 6
          BY <3>1, <3>4, Lengths
        <4> QED
          BY <4>1
      <3>5. CASE job.op = "disable"
        <4>1. job.at \in 1 .. 6 /\ job.at # 6
          BY <3>1, <3>5, Lengths
        <4> QED
          BY <4>1
      <3>6. CASE job.op = "enable"
        <4>1. job.at \in 1 .. 6 /\ job.at # 6
          BY <3>1, <3>6, Lengths
        <4> QED
          BY <4>1
      <3>7. CASE job.op \in {"move", "newgroup", "delgroup", "backfill"}
        BY <3>1, <3>7, Lengths, SMTT(30)
      <3> QED
        BY <2>1, <3>2, <3>3, <3>4, <3>5, <3>6, <3>7, OpNames
    <2>3. job' = [job EXCEPT !.at = @ + 1]
      BY Zenon DEF Continue, AtLast
    <2> QED
      BY <1>1, <2>2, <2>3
  <1> QED
    BY <1>1, <1>2, <1>3 DEF Continue, AtLast

\* Places in the middle of a request, and the last ones.
Inner ==
    \/ Is("create", 1) \/ Is("create", 2) \/ Is("create", 3) \/ Is("create", 4)
    \/ Is("create", 5) \/ Is("move", 1) \/ Is("move", 2)
    \/ Is("reset", 1) \/ Is("reset", 2) \/ Is("reset", 5)
    \/ Is("delete", 1) \/ Is("delete", 2) \/ Is("delete", 3) \/ Is("delete", 4)
    \/ Is("disable", 1) \/ Is("disable", 2) \/ Is("disable", 5)
    \/ Is("enable", 1) \/ Is("enable", 2) \/ Is("enable", 5)
    \/ Is("newgroup", 1) \/ Is("newgroup", 2) \/ Is("delgroup", 1)
Last ==
    \/ Is("create", 8) \/ Is("move", 3) \/ Is("reset", 6) \/ Is("delete", 7)
    \/ Is("disable", 6) \/ Is("enable", 6) \/ Is("newgroup", 3) \/ Is("delgroup", 2)
    \/ Is("backfill", 1)

\* A call that is not the last of its request is followed by the next, the last by none.
LEMMA Onward ==
    ASSUME JobInv, Continue
    PROVE  (Inner => On(1)) /\ (Last => job' = Idle)
  <1>1. job.op # "none" => job.at \in DOMAIN Program[job.op]
    BY DEF JobInv
  <1>2. Busy /\ ~AtLast => On(1)
    BY Goes
  <1>3. AtLast => job' = Idle
    BY Goes
  <1>4. ASSUME job.op = "create" PROVE (AtLast <=> job.at = 8) /\ Busy
    BY <1>1, <1>4, Lengths DEF Busy, AtLast
  <1>5. ASSUME job.op = "reset" PROVE (AtLast <=> job.at = 6) /\ Busy
    BY <1>1, <1>5, Lengths DEF Busy, AtLast
  <1>6. ASSUME job.op = "delete" PROVE (AtLast <=> job.at = 7) /\ Busy
    BY <1>1, <1>6, Lengths DEF Busy, AtLast
  <1>7. ASSUME job.op = "disable" PROVE (AtLast <=> job.at = 6) /\ Busy
    BY <1>1, <1>7, Lengths DEF Busy, AtLast
  <1>8. ASSUME job.op = "enable" PROVE (AtLast <=> job.at = 6) /\ Busy
    BY <1>1, <1>8, Lengths DEF Busy, AtLast
  <1>9. ASSUME job.op = "move" PROVE (AtLast <=> job.at = 3) /\ Busy
    BY <1>1, <1>9, Lengths DEF Busy, AtLast
  <1>10. ASSUME job.op = "newgroup" PROVE (AtLast <=> job.at = 3) /\ Busy
    BY <1>1, <1>10, Lengths DEF Busy, AtLast
  <1>11. ASSUME job.op = "delgroup" PROVE (AtLast <=> job.at = 2) /\ Busy
    BY <1>1, <1>11, Lengths DEF Busy, AtLast
  <1>12. Is("backfill", 1) => AtLast
    BY Lengths DEF Is, AtLast
  <1>13. Inner => Busy /\ ~AtLast
    BY <1>4, <1>5, <1>6, <1>7, <1>8, <1>9, <1>10, <1>11 DEF Inner, Is
  <1>14. Last => AtLast
    BY <1>4, <1>5, <1>6, <1>7, <1>8, <1>9, <1>10, <1>11, <1>12 DEF Last, Is
  <1> QED
    BY <1>2, <1>3, <1>13, <1>14

\* The parts of what is left out of step, as the calls change it.
Lags == [dav : SUBSET Users, cal : SUBSET Users, rules : BOOLEAN]

\* What each change of it does to its parts.
LEMMA LagParts ==
    ASSUME lag \in Lags
    PROVE  /\ lag.dav \subseteq Users /\ lag.cal \subseteq Users /\ lag.rules \in BOOLEAN
           /\ \A S, b : lag' = [lag EXCEPT !.dav = S, !.rules = b] =>
                 lag'.dav = S /\ lag'.cal = lag.cal /\ lag'.rules = b
           /\ \A S : lag' = [lag EXCEPT !.dav = S] =>
                 lag'.dav = S /\ lag'.cal = lag.cal /\ lag'.rules = lag.rules
           /\ \A S : lag' = [lag EXCEPT !.cal = S] =>
                 lag'.dav = lag.dav /\ lag'.cal = S /\ lag'.rules = lag.rules
           /\ \A b : lag' = [lag EXCEPT !.rules = b] =>
                 lag'.dav = lag.dav /\ lag'.cal = lag.cal /\ lag'.rules = b
           /\ \A b, S, T : lag' = [lag EXCEPT !.rules = b, !.dav = S, !.cal = T] =>
                 lag'.dav = S /\ lag'.cal = T /\ lag'.rules = b
           /\ \A b \in BOOLEAN : [lag EXCEPT !.rules = b] \in Lags
           /\ \A S \in SUBSET Users : [lag EXCEPT !.dav = S] \in Lags
           /\ \A S \in SUBSET Users : [lag EXCEPT !.cal = S] \in Lags
           /\ \A S \in SUBSET Users, b \in BOOLEAN : [lag EXCEPT !.dav = S, !.rules = b] \in Lags
           /\ \A S, T \in SUBSET Users, b \in BOOLEAN :
                 [lag EXCEPT !.rules = b, !.dav = S, !.cal = T] \in Lags
  <1>1. lag.dav \subseteq Users /\ lag.cal \subseteq Users /\ lag.rules \in BOOLEAN
    BY Zenon DEF Lags
  <1>2. lag = [dav |-> lag.dav, cal |-> lag.cal, rules |-> lag.rules]
    BY Zenon DEF Lags
  <1>3. \A S, b : lag' = [lag EXCEPT !.dav = S, !.rules = b] =>
                 lag'.dav = S /\ lag'.cal = lag.cal /\ lag'.rules = b
    BY <1>2, Zenon
  <1>4. \A S : lag' = [lag EXCEPT !.dav = S] =>
                 lag'.dav = S /\ lag'.cal = lag.cal /\ lag'.rules = lag.rules
    BY <1>2, Zenon
  <1>5. \A S : lag' = [lag EXCEPT !.cal = S] =>
                 lag'.dav = lag.dav /\ lag'.cal = S /\ lag'.rules = lag.rules
    BY <1>2, Zenon
  <1>6. \A b : lag' = [lag EXCEPT !.rules = b] =>
                 lag'.dav = lag.dav /\ lag'.cal = lag.cal /\ lag'.rules = b
    BY <1>2, Zenon
  <1>7. \A b, S, T : lag' = [lag EXCEPT !.rules = b, !.dav = S, !.cal = T] =>
                 lag'.dav = S /\ lag'.cal = T /\ lag'.rules = b
    BY <1>2, Zenon
  <1>8. /\ \A b \in BOOLEAN : [lag EXCEPT !.rules = b] \in Lags
        /\ \A S \in SUBSET Users : [lag EXCEPT !.dav = S] \in Lags
        /\ \A S \in SUBSET Users : [lag EXCEPT !.cal = S] \in Lags
        /\ \A S \in SUBSET Users, b \in BOOLEAN : [lag EXCEPT !.dav = S, !.rules = b] \in Lags
        /\ \A S, T \in SUBSET Users, b \in BOOLEAN :
              [lag EXCEPT !.rules = b, !.dav = S, !.cal = T] \in Lags
    BY <1>1, <1>2 DEF Lags
  <1> QED
    BY <1>1, <1>3, <1>4, <1>5, <1>6, <1>7, <1>8

----------------------------------------------------------------------------
(* What the calls do to the request and to what the invariant is about.    *)

StillDirectory == pw' = pw /\ groups' = groups /\ member' = member /\ lastPw' = lastPw
StillFiles     == davPw' = davPw /\ denied' = denied /\ calPw' = calPw
StillSecrets   == told' = told /\ given' = given
StillRest      == disabled' = disabled /\ signed' = signed
Still == StillDirectory /\ StillFiles /\ StillSecrets /\ StillRest /\ lag' = lag

Begun ==
    /\ job.op = "none" /\ job' \in Jobs /\ job'.op \in Ops /\ job'.at = 1 /\ Still
    /\ job'.typed => job'.op \in {"create", "reset"}

\* A request that is refused, or fails, with nothing to put right, or has none left.
Ended ==
    /\ job' = Idle /\ Still
    /\ \/ Is("create", 1) \/ Is("create", 2) \/ Is("reset", 1) \/ Is("disable", 1)
       \/ Is("enable", 1) \/ Is("enable", 5) \/ Is("newgroup", 1) \/ Is("delgroup", 1)
       \/ Is("backfill", 1)
       \/ Is("delete", 3) /\ pw[u] = 0

\* A call that changes nothing of the directory, the logins and the rules.
WentOn ==
    /\ On(1) /\ Still
    /\ \/ Is("create", 1) \/ Is("create", 4) \/ Is("newgroup", 2) \/ Is("reset", 5)
       \/ Is("delete", 1) \/ Is("disable", 5)

PasswordSet ==
    /\ On(1) /\ lastPw < MaxPasswords /\ lastPw' = lastPw + 1
    /\ pw' = [pw EXCEPT ![u] = lastPw + 1]
    /\ groups' = groups /\ member' = member /\ StillFiles /\ StillRest /\ lag' = lag
    /\ \/ /\ Is("create", 2) /\ pw[u] = 0 /\ given' = given \union {u}
          /\ told' \in {told, told \union {lastPw + 1}}
       \/ /\ Is("reset", 1) /\ pw[u] # 0 /\ given' = given \union {u}
          /\ told' \in {told, told \union {lastPw + 1}}
       \/ /\ Is("disable", 1) \/ Is("enable", 1)
          /\ pw[u] # 0 /\ given' = given \ {u} /\ told' = told

\* A request that ends between its change of the directory and the sync.
Stopped ==
    /\ job' = Idle /\ lag' \in Lags /\ lag'.rules = TRUE
    /\ lag.dav \subseteq lag'.dav /\ lag.cal \subseteq lag'.cal
    /\ pw' = pw /\ groups' = groups /\ lastPw' = lastPw
    /\ member' = member \/ \E S : member' = RemoveUserFromGroup(u, S)
    /\ StillFiles /\ StillSecrets /\ StillRest
    /\ Is("create", 3) \/ Is("move", 1) \/ Is("move", 2) \/ Is("delete", 3)

Joined ==
    /\ On(1) /\ g \in groups /\ member' = AddUserToGroup(u, g)
    /\ Is("create", 3) \/ Is("move", 2)
    /\ pw' = pw /\ groups' = groups /\ lastPw' = lastPw
    /\ StillFiles /\ StillSecrets /\ StillRest /\ lag' = lag

Left ==
    /\ On(1) /\ \E S : member' = RemoveUserFromGroup(u, S)
    /\ Is("move", 1) \/ Is("delete", 2)
    /\ pw' = pw /\ groups' = groups /\ lastPw' = lastPw
    /\ StillFiles /\ StillSecrets /\ StillRest /\ lag' = lag

EntryDeleted ==
    /\ On(1) /\ Is("delete", 3) /\ pw' = [pw EXCEPT ![u] = 0]
    /\ groups' = groups /\ member' = member /\ lastPw' = lastPw
    /\ StillFiles /\ StillSecrets /\ StillRest /\ lag' = lag

GroupAdded ==
    /\ On(1) /\ Is("newgroup", 1) /\ g \notin groups /\ groups' = groups \union {g}
    /\ pw' = pw /\ member' = member /\ lastPw' = lastPw
    /\ StillFiles /\ StillSecrets /\ StillRest /\ lag' = lag

GroupDeleted ==
    /\ On(1) /\ Is("delgroup", 1) /\ groups' = groups \ {g}
    /\ member' = [member EXCEPT ![g] = {}]
    /\ pw' = pw /\ lastPw' = lastPw
    /\ StillFiles /\ StillSecrets /\ StillRest /\ lag' = lag

\* config.yml is written or not, and what is out of step noted.
DavOnly ==
    StillDirectory /\ calPw' = calPw /\ StillSecrets /\ StillRest /\ lag' \in Lags
                   /\ lag'.cal = lag.cal

LoginSynced ==
    /\ On(1) /\ DavOnly
    /\ Is("create", 5) \/ Is("reset", 2) \/ Is("enable", 2)
    /\ \/ /\ davPw' = [davPw EXCEPT ![u] = pw[u]] /\ denied' = applyRules(Logins \union {u})
          /\ lag'.dav = lag.dav \ {u} /\ lag'.rules = FALSE
       \/ /\ davPw' \in {davPw, [davPw EXCEPT ![u] = pw[u]]}
          /\ denied' \in {denied, applyRules(Logins \union {u})}
          /\ lag'.dav = lag.dav \union {u} /\ lag'.rules = TRUE

RulesRebuilt ==
    /\ job' = Idle /\ DavOnly /\ davPw' = davPw /\ lag'.dav = lag.dav
    /\ Is("move", 3) \/ Is("newgroup", 3) \/ Is("delgroup", 2)
    /\ \/ denied' = applyRules(Logins) /\ lag'.rules = FALSE
       \/ denied' \in {denied, applyRules(Logins)} /\ lag'.rules = TRUE

LoginRemoved ==
    /\ On(1) /\ DavOnly /\ lag'.rules = lag.rules
    /\ Is("delete", 4) \/ Is("disable", 2)
    /\ \/ /\ davPw' = [davPw EXCEPT ![u] = 0] /\ denied' = [denied EXCEPT ![u] = {}]
          /\ lag'.dav = lag.dav \ {u}
       \/ /\ \/ davPw' = [davPw EXCEPT ![u] = 0] /\ denied' = [denied EXCEPT ![u] = {}]
             \/ davPw' = davPw /\ denied' = denied
          /\ lag'.dav = lag.dav \union {u}

\* The calendar server's file is read, or written or not.
CalOnly ==
    /\ StillDirectory /\ davPw' = davPw /\ denied' = denied /\ StillSecrets /\ StillRest
    /\ lag' \in Lags /\ lag'.dav = lag.dav /\ lag'.rules = lag.rules

FileWasRead ==
    /\ Kept /\ CalOnly /\ calPw' = calPw
    /\ \/ Is("create", 6) \/ Is("reset", 3) \/ Is("delete", 5) \/ Is("disable", 3)
       \/ Is("enable", 3)
    /\ \/ job'.at = job.at + 1 /\ job'.file = calPw /\ lag'.cal = lag.cal
       \/ job'.at = job.at + 2 /\ lag'.cal = lag.cal \union {u}

FileWritten ==
    /\ Kept /\ job'.at = job.at + 1 /\ CalOnly
    /\ Is("create", 7) \/ Is("reset", 4) \/ Is("enable", 4)
    /\ \/ calPw' = [job.file EXCEPT ![u] = pw[u]] /\ lag'.cal = lag.cal \ {u}
       \/ /\ calPw' \in {calPw, [job.file EXCEPT ![u] = pw[u]]}
          /\ lag'.cal = lag.cal \union {u}

FileDropped ==
    /\ Kept /\ job'.at = job.at + 1 /\ CalOnly
    /\ Is("delete", 6) \/ Is("disable", 4)
    /\ \/ /\ calPw' = IF job.file[u] = 0 THEN calPw ELSE [job.file EXCEPT ![u] = 0]
          /\ lag'.cal = lag.cal \ {u}
       \/ /\ calPw' \in {calPw, [job.file EXCEPT ![u] = 0]}
          /\ lag'.cal = lag.cal \union {u}

Marked ==
    /\ job' = Idle /\ Is("disable", 6) /\ disabled' \in {disabled, disabled \union {u}}
    /\ StillDirectory /\ StillFiles /\ StillSecrets /\ lag' = lag /\ signed' = signed

Cleared ==
    /\ StillDirectory /\ StillFiles /\ StillSecrets /\ lag' = lag /\ signed' = signed
    /\ \/ Is("enable", 5) /\ On(1) /\ disabled' = disabled \ {u}
       \/ Is("delete", 7) /\ job' = Idle /\ disabled' \in {disabled, disabled \ {u}}

Shown ==
    /\ job' = Idle
    /\ Is("create", 8) \/ Is("reset", 6) \/ Is("enable", 6)
    /\ told' = told \union {pw[u]} /\ given' = given
    /\ StillDirectory /\ StillFiles /\ StillRest /\ lag' = lag

\* Signing in and out changes nothing of it but the calendar server's file;
\* stopping and starting a module, nothing.
SignedInOrOut ==
    /\ job' = job /\ StillDirectory /\ davPw' = davPw /\ denied' = denied
    /\ StillSecrets /\ disabled' = disabled /\ lag' = lag
    /\ signed' = 0 => signed = 0 /\ calPw' = calPw

Effect ==
    \/ Begun \/ Ended \/ WentOn \/ PasswordSet \/ Stopped \/ Joined \/ Left \/ EntryDeleted
    \/ GroupAdded \/ GroupDeleted \/ LoginSynced \/ RulesRebuilt \/ LoginRemoved
    \/ FileWasRead \/ FileWritten \/ FileDropped \/ Marked \/ Cleared \/ Shown
    \/ SignedInOrOut

\* Every step has one of the effects.
LEMMA Effects ==
    ASSUME JobInv, DirectoryInv, ServersInv, BoundsInv, Next
    PROVE  Effect
  <1>0. /\ job \in Jobs /\ u \in Users /\ g \in Groups /\ lag \in Lags
        /\ calPw \in [Users -> Passwords]
    BY JobParts, Zenon DEF JobInv, ServersInv, BoundsInv, Lags, u, g
  <1>2. CASE Request
    <2>1. /\ job.op = "none"
          /\ UNCHANGED <<ldap, dav, cal, db, signIn, flaky, lastPw, signed, history>>
      BY <1>2, Zenon DEF Request
    <2>2. PICK op \in Ops, v \in Users, h \in Groups, t \in BOOLEAN :
             /\ t => op \in {"create", "reset"}
             /\ job' = [Idle EXCEPT !.op = op, !.at = 1, !.user = v, !.group = h, !.typed = t]
      BY <1>2, Zenon DEF Request
    <2>3. /\ job' \in Jobs /\ job'.op \in Ops /\ job'.at = 1
          /\ job'.typed => job'.op \in {"create", "reset"}
      <3>1. 1 \in 0 .. 8
        OBVIOUS
      <3>2. /\ job'.op = op /\ job'.at = 1 /\ job'.user = v /\ job'.group = h
            /\ job'.typed = t /\ job'.file = Empty
            /\ job' = [op |-> op, at |-> 1, user |-> v, group |-> h, typed |-> t, file |-> Empty]
        BY <2>2, Zenon DEF Idle
      <3>3. job' \in Jobs
        BY <3>1, <3>2, NoJob, Zenon DEF Jobs
      <3> QED
        BY <2>2, <3>2, <3>3, Zenon
    <2> QED
      BY <2>1, <2>3
      DEF Effect, Begun, Still, StillDirectory, StillFiles, StillSecrets, StillRest, ldap, dav,
          cal, db, history
  <1>3. CASE FindGroup
    <2>1. /\ Is("create", 1)
          /\ Continue \/ Return
          /\ UNCHANGED <<ldap, dav, cal, db, bounds, history>>
      BY <1>3, Places, Zenon DEF FindGroup
    <2>2. On(1) \/ job' = Idle
      BY <2>1, Onward DEF Return, Inner
    <2> QED
      BY <2>1, <2>2
      DEF Effect, WentOn, Ended, Still, StillDirectory, StillFiles, StillSecrets, StillRest,
          ldap, dav, cal, db, history, bounds
  <1>4. ASSUME NewPassword, On(1), UNCHANGED <<groups, member, dav, cal, db>>,
               \/ Is("create", 2) /\ pw[u] = 0
               \/ (Is("reset", 1) \/ Is("disable", 1) \/ Is("enable", 1)) /\ pw[u] # 0
        PROVE  PasswordSet
    <2>1. /\ lastPw < MaxPasswords /\ lastPw' = lastPw + 1
          /\ pw' = [pw EXCEPT ![u] = lastPw + 1]
          /\ job.op \in {"create", "reset"} => given' = given \union {u}
          /\ job.op \notin {"create", "reset"} => given' = given \ {u}
          /\ told' \in {told, told \union {lastPw + 1}} /\ (~job.typed => told' = told)
          /\ signed' = signed /\ lag' = lag
      BY <1>4, Zenon DEF NewPassword
    <2>2. job.op \notin {"create", "reset"} => told' = told
      BY <2>1, Zenon DEF JobInv
    <2>3. groups' = groups /\ member' = member /\ StillFiles /\ StillRest /\ lag' = lag
      BY <1>4, <2>1 DEF StillFiles, StillRest, dav, cal, db
    <2> QED
      BY <1>4, <2>1, <2>2, <2>3 DEF PasswordSet, Is
  <1>5. CASE AddUser \/ SetPassword
    <2>1. /\ UNCHANGED <<groups, member, dav, cal, db>>
          /\ Is("create", 2) \/ Is("reset", 1) \/ Is("disable", 1) \/ Is("enable", 1)
          /\ \/ NewPassword /\ (AddUser => pw[u] = 0) /\ (SetPassword => pw[u] # 0)
             \/ Return /\ UNCHANGED <<pw, bounds, history>>
      BY <1>5, Places, Zenon DEF AddUser, SetPassword
    <2>2. CASE Return /\ UNCHANGED <<pw, bounds, history>>
      BY <2>1, <2>2
      DEF Effect, Ended, Return, Still, StillDirectory, StillFiles, StillSecrets, StillRest,
          ldap, dav, cal, db, history, bounds
    <2>3. CASE NewPassword /\ (AddUser => pw[u] = 0) /\ (SetPassword => pw[u] # 0)
      <3>1. On(1)
        BY <2>1, <2>3, Onward DEF NewPassword, Inner
      <3>2. /\ Is("create", 2) => pw[u] = 0
            /\ Is("reset", 1) \/ Is("disable", 1) \/ Is("enable", 1) => pw[u] # 0
        BY <1>5, <2>3, Places DEF AddUser, SetPassword, Is
      <3> QED
        BY <1>4, <2>1, <2>3, <3>1, <3>2 DEF Effect
    <2> QED
      BY <2>1, <2>2, <2>3
  <1>6. ASSUME HalfWay
        PROVE  /\ job' = Idle /\ lag' \in Lags /\ lag'.rules = TRUE
               /\ lag.dav \subseteq lag'.dav /\ lag.cal \subseteq lag'.cal
               /\ told' = told /\ given' = given
    <2>1. PICK S \in SUBSET Users, T \in SUBSET Users :
             /\ lag' = [lag EXCEPT !.rules = TRUE, !.dav = S, !.cal = T]
             /\ lag.dav \subseteq S /\ lag.cal \subseteq T
      <3> DEFINE S == IF job.op = "create" THEN lag.dav \union {u} ELSE lag.dav
                 T == IF job.op = "create" THEN lag.cal \union {u} ELSE lag.cal
      <3>1. lag' = [lag EXCEPT !.rules = TRUE, !.dav = S, !.cal = T]
        BY <1>6, Zenon DEF HalfWay
      <3>2. S \in SUBSET Users /\ T \in SUBSET Users /\ lag.dav \subseteq S /\ lag.cal \subseteq T
        BY <1>0, LagParts
      <3> HIDE DEF S, T
      <3> QED
        BY <3>1, <3>2, Zenon
    <2>2. lag'.rules = TRUE /\ lag'.dav = S /\ lag'.cal = T
      BY <1>0, <2>1, LagParts, Zenon
    <2>3. lag' \in Lags
      <3>1. TRUE \in BOOLEAN /\ S \in SUBSET Users /\ T \in SUBSET Users
        OBVIOUS
      <3> QED
        BY <1>0, <2>1, <3>1, LagParts, Zenon
    <2>4. job' = Idle /\ told' = told /\ given' = given
      BY <1>6, Zenon DEF HalfWay, Return
    <2> QED
      BY <2>1, <2>2, <2>3, <2>4, Zenon
  <1>7. CASE Join
    <2>1. /\ UNCHANGED <<pw, groups, dav, cal, db, bounds>>
          /\ Is("create", 3) \/ Is("move", 2)
          /\ \/ g \in groups /\ member' = AddUserToGroup(u, g) /\ Continue /\ UNCHANGED history
             \/ HalfWay /\ UNCHANGED member
      BY <1>7, Places, Zenon DEF Join
    <2>2. CASE HalfWay /\ UNCHANGED member
      BY <1>6, <2>1, <2>2
      DEF Effect, Stopped, StillDirectory, StillFiles, StillSecrets, StillRest, ldap, dav,
          cal, db, history, bounds
    <2>3. CASE /\ g \in groups /\ member' = AddUserToGroup(u, g) /\ Continue
               /\ UNCHANGED history
      <3>1. On(1)
        BY <2>1, <2>3, Onward DEF Inner, Last
      <3> QED
        BY <2>1, <2>3, <3>1
        DEF Effect, Joined, StillDirectory, StillFiles, StillSecrets, StillRest, ldap, dav,
          cal, db, history, bounds
    <2> QED
      BY <2>1, <2>2, <2>3
  <1>8. CASE LeaveOthers \/ LeaveAll
    <2>1. /\ UNCHANGED <<pw, groups, dav, cal, db, bounds>>
          /\ Is("move", 1) \/ Is("delete", 2)
          /\ \E S : member' = RemoveUserFromGroup(u, S)
          /\ (Continue /\ UNCHANGED history) \/ (HalfWay /\ LeaveOthers)
      BY <1>8, Places, Zenon DEF LeaveOthers, LeaveAll
    <2>2. CASE HalfWay /\ LeaveOthers
      <3>1. Is("move", 1)
        BY <2>2, Places DEF LeaveOthers
      <3> QED
        BY <1>6, <2>1, <2>2, <3>1
        DEF Effect, Stopped, StillDirectory, StillFiles, StillSecrets, StillRest, ldap, dav,
          cal, db, history, bounds
    <2>3. CASE Continue /\ UNCHANGED history
      <3>1. On(1)
        BY <2>1, <2>3, Onward DEF Inner, Last
      <3> QED
        BY <2>1, <2>3, <3>1
        DEF Effect, Left, StillDirectory, StillFiles, StillSecrets, StillRest, ldap, dav,
          cal, db, history, bounds
    <2> QED
      BY <2>1, <2>2, <2>3
  <1>9. CASE DeleteUser
    <2>1. /\ UNCHANGED <<groups, member, dav, cal, db, bounds>> /\ Is("delete", 3)
          /\ \/ pw' = [pw EXCEPT ![u] = 0] /\ Continue /\ UNCHANGED history
             \/ pw[u] = 0 /\ Return /\ UNCHANGED <<history, pw>>
             \/ HalfWay /\ UNCHANGED pw
      BY <1>9, Places, Zenon DEF DeleteUser
    <2>2. CASE HalfWay /\ UNCHANGED pw
      BY <1>6, <2>1, <2>2
      DEF Effect, Stopped, StillDirectory, StillFiles, StillSecrets, StillRest, ldap, dav,
          cal, db, history, bounds
    <2>3. CASE pw[u] = 0 /\ Return /\ UNCHANGED <<history, pw>>
      BY <2>1, <2>3
      DEF Effect, Ended, Return, Still, StillDirectory, StillFiles, StillSecrets, StillRest,
          ldap, dav, cal, db, history, bounds
    <2>4. CASE pw' = [pw EXCEPT ![u] = 0] /\ Continue /\ UNCHANGED history
      <3>1. On(1)
        BY <2>1, <2>4, Onward DEF Inner, Last
      <3> QED
        BY <2>1, <2>4, <3>1
        DEF Effect, EntryDeleted, StillDirectory, StillFiles, StillSecrets, StillRest, ldap,
            dav, cal, db, history, bounds
    <2> QED
      BY <2>1, <2>2, <2>3, <2>4
  <1>10. CASE AddGroup \/ DeleteGroup
    <2>1. /\ UNCHANGED <<pw, dav, cal, db, bounds, history>>
          /\ \/ /\ Is("newgroup", 1) \/ Is("delgroup", 1)
                /\ Return /\ UNCHANGED <<groups, member>>
             \/ /\ Is("newgroup", 1) /\ Continue /\ UNCHANGED member
                /\ g \notin groups /\ groups' = groups \union {g}
             \/ /\ Is("delgroup", 1) /\ Continue
                /\ groups' = groups \ {g} /\ member' = [member EXCEPT ![g] = {}]
      BY <1>10, Places, Zenon DEF AddGroup, DeleteGroup
    <2>2. Continue /\ (Is("newgroup", 1) \/ Is("delgroup", 1)) => On(1)
      BY Onward DEF Inner
    <2> QED
      BY <2>1, <2>2
      DEF Effect, Ended, GroupAdded, GroupDeleted, Return, Still, StillDirectory, StillFiles,
          StillSecrets, StillRest, ldap, dav, cal, db, history, bounds
  <1>11. CASE MakeFolder \/ MakeAllFolders
    <2>1. /\ UNCHANGED <<ldap, davPw, denied, cal, db, bounds, history>> /\ Continue
          /\ Is("create", 4) \/ Is("newgroup", 2) \/ Is("backfill", 1)
      BY <1>11, Places, Zenon DEF MakeFolder, MakeAllFolders
    <2>2. \/ Is("backfill", 1) /\ job' = Idle
          \/ (Is("create", 4) \/ Is("newgroup", 2)) /\ On(1)
      BY <2>1, Onward DEF Inner, Last
    <2> QED
      BY <2>1, <2>2
      DEF Effect, Ended, WentOn, Still, StillDirectory, StillFiles, StillSecrets, StillRest,
          ldap, dav, cal, db, history, bounds
  <1>12. CASE SyncWebdav
    <2> DEFINE new == [davPw EXCEPT ![u] = pw[u]]
               rules == applyRules(Logins \union {u})
    <2>1. /\ UNCHANGED <<ldap, folders, cal, db, bounds, told, given>> /\ Continue
          /\ Is("create", 5) \/ Is("reset", 2) \/ Is("enable", 2)
      BY <1>12, Places, Zenon DEF SyncWebdav
    <2>2. \/ /\ davPw' = new /\ denied' = rules
             /\ lag' = [lag EXCEPT !.dav = lag.dav \ {u}, !.rules = FALSE]
          \/ /\ (davPw' = new /\ denied' = rules) \/ (davPw' = davPw /\ denied' = denied)
             /\ lag' = [lag EXCEPT !.dav = lag.dav \union {u}, !.rules = TRUE]
      BY <1>12, Zenon DEF SyncWebdav, writeConfig, writeConfigFails, SyncUser
    <2>3. On(1)
      BY <2>1, Onward DEF Inner
    <2> HIDE DEF new, rules
    <2>4. CASE /\ davPw' = new /\ denied' = rules
               /\ lag' = [lag EXCEPT !.dav = lag.dav \ {u}, !.rules = FALSE]
      <3>1. lag'.dav = lag.dav \ {u} /\ lag'.cal = lag.cal /\ lag'.rules = FALSE
        BY <1>0, <2>4, LagParts, Zenon
      <3>2. lag.dav \ {u} \in SUBSET Users /\ FALSE \in BOOLEAN
        BY <1>0, LagParts
      <3>3. lag' \in Lags
        BY <1>0, <2>4, <3>2, LagParts, Zenon
      <3> QED
        BY <2>1, <2>3, <2>4, <3>1, <3>3, Zenon
        DEF Effect, LoginSynced, DavOnly, new, rules, StillDirectory, StillFiles,
            StillSecrets, StillRest, ldap, dav, cal, db, history, bounds
    <2>5. CASE /\ (davPw' = new /\ denied' = rules) \/ (davPw' = davPw /\ denied' = denied)
               /\ lag' = [lag EXCEPT !.dav = lag.dav \union {u}, !.rules = TRUE]
      <3>1. lag'.dav = lag.dav \union {u} /\ lag'.cal = lag.cal /\ lag'.rules = TRUE
        BY <1>0, <2>5, LagParts, Zenon
      <3>2. lag.dav \union {u} \in SUBSET Users /\ TRUE \in BOOLEAN
        BY <1>0, LagParts
      <3>3. lag' \in Lags
        BY <1>0, <2>5, <3>2, LagParts, Zenon
      <3>4. davPw' \in {davPw, new} /\ denied' \in {denied, rules}
        BY <2>5
      <3> QED
        BY <2>1, <2>3, <3>1, <3>3, <3>4, Zenon
        DEF Effect, LoginSynced, DavOnly, new, rules, StillDirectory, StillFiles,
            StillSecrets, StillRest, ldap, dav, cal, db, history, bounds
    <2> QED
      BY <2>2, <2>4, <2>5
  <1>13. CASE RebuildRules
    <2> DEFINE rules == applyRules(Logins)
    <2>1. /\ UNCHANGED <<ldap, folders, cal, db, bounds, told, given>> /\ Continue
          /\ Is("move", 3) \/ Is("newgroup", 3) \/ Is("delgroup", 2)
      BY <1>13, Places, Zenon DEF RebuildRules
    <2>2. /\ davPw' = davPw
          /\ \/ denied' = rules /\ lag' = [lag EXCEPT !.rules = FALSE]
             \/ denied' \in {denied, rules} /\ lag' = [lag EXCEPT !.rules = TRUE]
      BY <1>13, Zenon DEF RebuildRules, writeConfig, writeConfigFails, RebuiltConfig
    <2>3. job' = Idle
      BY <2>1, Onward DEF Last
    <2> HIDE DEF rules
    <2>4. \/ denied' = rules /\ lag'.rules = FALSE
          \/ denied' \in {denied, rules} /\ lag'.rules = TRUE
      BY <1>0, <2>2, LagParts, Zenon
    <2>5. lag'.dav = lag.dav /\ lag'.cal = lag.cal
      BY <1>0, <2>2, LagParts, Zenon
    <2>6. lag' \in Lags
      <3>1. \A b \in BOOLEAN : [lag EXCEPT !.rules = b] \in Lags
        BY <1>0, LagParts, Zenon
      <3> QED
        BY <2>2, <3>1, Zenon
    <2> QED
      BY <2>1, <2>2, <2>3, <2>4, <2>5, <2>6, Zenon
      DEF Effect, RulesRebuilt, DavOnly, rules, StillDirectory, StillFiles, StillSecrets,
          StillRest, ldap, dav, cal, db, history, bounds
  <1>14. CASE RemoveWebdavLogin
    <2> DEFINE Gone == davPw' = [davPw EXCEPT ![u] = 0] /\ denied' = [denied EXCEPT ![u] = {}]
    <2>1. /\ UNCHANGED <<ldap, folders, cal, db, bounds, told, given>> /\ Continue
          /\ Is("delete", 4) \/ Is("disable", 2)
      BY <1>14, Places, Zenon DEF RemoveWebdavLogin
    <2>2. \/ Gone /\ lag' = [lag EXCEPT !.dav = lag.dav \ {u}]
          \/ /\ Gone \/ (davPw' = davPw /\ denied' = denied)
             /\ lag' = [lag EXCEPT !.dav = lag.dav \union {u}]
      BY <1>14, Zenon DEF RemoveWebdavLogin, writeConfig, writeConfigFails, RemoveUser
    <2>3. On(1)
      BY <2>1, Onward DEF Inner
    <2> HIDE DEF Gone
    <2>4. /\ lag'.cal = lag.cal /\ lag'.rules = lag.rules
          /\ \/ Gone /\ lag'.dav = lag.dav \ {u}
             \/ /\ Gone \/ (davPw' = davPw /\ denied' = denied)
                /\ lag'.dav = lag.dav \union {u}
      BY <1>0, <2>2, LagParts, Zenon
    <2>5. lag' \in Lags
      <3>1. /\ lag.dav \ {u} \in SUBSET Users /\ lag.dav \union {u} \in SUBSET Users
            /\ TRUE \in BOOLEAN
        BY <1>0, LagParts
      <3>2. \A S \in SUBSET Users : [lag EXCEPT !.dav = S] \in Lags
        BY <1>0, LagParts, Zenon
      <3> QED
        BY <2>2, <3>1, <3>2, Zenon
    <2> QED
      BY <2>1, <2>3, <2>4, <2>5, Zenon
      DEF Effect, LoginRemoved, DavOnly, Gone, StillDirectory, StillFiles, StillSecrets,
          StillRest, ldap, dav, cal, db, history, bounds
  <1>15. ASSUME NEW S \in SUBSET Users, lag' = [lag EXCEPT !.cal = S],
                UNCHANGED <<ldap, dav, db, bounds, told, given>>
         PROVE  CalOnly /\ lag'.cal = S
    <2>1. lag'.cal = S /\ lag'.dav = lag.dav /\ lag'.rules = lag.rules
      BY <1>0, <1>15, LagParts, Zenon
    <2>2. S \in SUBSET Users /\ TRUE \in BOOLEAN
      OBVIOUS
    <2>3. lag' \in Lags
      BY <1>0, <1>15, <2>2, LagParts, Zenon
    <2> QED
      BY <1>15, <2>1, <2>3, Zenon
      DEF CalOnly, StillDirectory, StillFiles, StillSecrets, StillRest, ldap, dav,
          cal, db, history, bounds
  <1>16. lag.cal \ {u} \in SUBSET Users /\ lag.cal \union {u} \in SUBSET Users
    BY <1>0, LagParts
  <1>17. CASE ReadLogins
    <2>1. /\ UNCHANGED <<ldap, dav, cal, db, bounds>>
          /\ \/ Is("create", 6) \/ Is("reset", 3) \/ Is("delete", 5) \/ Is("disable", 3)
             \/ Is("enable", 3)
          /\ \/ job' = [job EXCEPT !.at = @ + 1, !.file = calPw] /\ UNCHANGED history
             \/ /\ job' = [job EXCEPT !.at = @ + 2] /\ UNCHANGED <<told, given>>
                /\ lag' = [lag EXCEPT !.cal = lag.cal \union {u}]
      BY <1>17, Places, Zenon DEF ReadLogins, readUsers
    <2>2. job.at + 1 <= 8 /\ job.at + 2 <= 8 /\ 1 \in 1 .. 2 /\ 2 \in 1 .. 2
      BY <2>1 DEF Is
    <2>3. CASE job' = [job EXCEPT !.at = @ + 1, !.file = calPw] /\ UNCHANGED history
      <3>1. Kept /\ job'.at = job.at + 1 /\ job'.file = calPw
        BY <1>0, <2>2, <2>3, Goes
      <3>2. CalOnly /\ lag'.cal = lag.cal
        BY <1>0, <2>1, <2>3, Zenon
        DEF CalOnly, StillDirectory, StillFiles, StillSecrets, StillRest, ldap, dav,
          cal, db, history, bounds
      <3> QED
        BY <2>1, <3>1, <3>2 DEF Effect, FileWasRead, cal
    <2>4. CASE /\ job' = [job EXCEPT !.at = @ + 2] /\ UNCHANGED <<told, given>>
               /\ lag' = [lag EXCEPT !.cal = lag.cal \union {u}]
      <3>1. On(2)
        BY <2>2, <2>4, Goes
      <3>2. CalOnly /\ lag'.cal = lag.cal \union {u}
        BY <1>15, <1>16, <2>1, <2>4
      <3> QED
        BY <2>1, <3>1, <3>2 DEF Effect, FileWasRead, On, cal
    <2> QED
      BY <2>1, <2>3, <2>4
  <1>18. CASE WriteLogin
    <2> DEFINE new == [job.file EXCEPT ![u] = pw[u]]
    <2>1. /\ UNCHANGED <<ldap, dav, db, bounds, told, given>>
          /\ Is("create", 7) \/ Is("reset", 4) \/ Is("enable", 4)
          /\ job' = [job EXCEPT !.at = @ + 1, !.file = Empty]
          /\ \/ calPw' = new /\ lag' = [lag EXCEPT !.cal = lag.cal \ {u}]
             \/ calPw' \in {calPw, new} /\ lag' = [lag EXCEPT !.cal = lag.cal \union {u}]
      BY <1>18, Places, Zenon
      DEF WriteLogin, SyncCalendar, SyncCalendarFails, writeUsers, writeUsersFails
    <2> HIDE DEF new
    <2>2. job.at + 1 <= 8 /\ 1 \in 1 .. 2
      BY <2>1 DEF Is
    <2>3. Kept /\ job'.at = job.at + 1
      BY <2>1, <2>2, Goes, NoJob
    <2>4. CalOnly /\ \/ calPw' = new /\ lag'.cal = lag.cal \ {u}
                     \/ calPw' \in {calPw, new} /\ lag'.cal = lag.cal \union {u}
      BY <1>15, <1>16, <2>1
    <2> QED
      BY <2>1, <2>3, <2>4 DEF Effect, FileWritten, new
  <1>19. CASE DropLogin
    <2> DEFINE new == [job.file EXCEPT ![u] = 0]
    <2>1. /\ UNCHANGED <<ldap, dav, calendars, db, bounds, told, given>>
          /\ Is("delete", 6) \/ Is("disable", 4)
          /\ job' = [job EXCEPT !.at = @ + 1, !.file = Empty]
          /\ \/ /\ (job.file[u] # 0 /\ calPw' = new) \/ (job.file[u] = 0 /\ calPw' = calPw)
                /\ lag' = [lag EXCEPT !.cal = lag.cal \ {u}]
             \/ calPw' \in {calPw, new} /\ lag' = [lag EXCEPT !.cal = lag.cal \union {u}]
      BY <1>19, Places, Zenon
      DEF DropLogin, RemoveLogin, RemoveLoginFails, writeUsers, writeUsersFails
    <2> HIDE DEF new
    <2>2. job.at + 1 <= 8 /\ 1 \in 1 .. 2
      BY <2>1 DEF Is
    <2>3. Kept /\ job'.at = job.at + 1
      BY <2>1, <2>2, Goes, NoJob
    <2>4. CalOnly
      BY <1>15, <1>16, <2>1
    <2>5. \/ /\ calPw' = IF job.file[u] = 0 THEN calPw ELSE new
             /\ lag'.cal = lag.cal \ {u}
          \/ calPw' \in {calPw, new} /\ lag'.cal = lag.cal \union {u}
      BY <1>15, <1>16, <2>1
    <2> QED
      BY <2>1, <2>3, <2>4, <2>5 DEF Effect, FileDropped, new
  <1>20. CASE RevokeSessions
    <2>1. /\ UNCHANGED <<ldap, dav, cal, disabled, bounds, history>> /\ Continue
          /\ Is("reset", 5) \/ Is("delete", 1) \/ Is("disable", 5)
      BY <1>20, Places, Zenon DEF RevokeSessions
    <2>2. On(1)
      BY <2>1, Onward DEF Inner
    <2> QED
      BY <2>1, <2>2
      DEF Effect, WentOn, Still, StillDirectory, StillFiles, StillSecrets, StillRest, ldap, dav,
          cal, db, history, bounds
  <1>21. CASE MarkDisabled
    <2>1. /\ UNCHANGED <<ldap, dav, cal, bounds, history>> /\ Continue /\ Is("disable", 6)
          /\ disabled' \in {disabled, disabled \union {u}}
      BY <1>21, Places, Zenon DEF MarkDisabled
    <2>2. job' = Idle
      BY <2>1, Onward DEF Last
    <2> QED
      BY <2>1, <2>2
      DEF Effect, Marked, StillDirectory, StillFiles, StillSecrets, StillRest, ldap, dav,
          cal, db, history, bounds
  <1>22. CASE ClearDisabled
    <2>1. /\ UNCHANGED <<ldap, dav, cal, bounds, history>>
          /\ \/ disabled' = disabled \ {u} /\ Continue
             \/ UNCHANGED disabled /\ job.op = "enable" /\ Return
             \/ UNCHANGED disabled /\ job.op # "enable" /\ Continue
          /\ Is("delete", 7) \/ Is("enable", 5)
      BY <1>22, Places, Zenon DEF ClearDisabled
    <2>2. /\ Continue /\ Is("delete", 7) => job' = Idle
          /\ Continue /\ Is("enable", 5) => On(1)
          /\ Is("delete", 7) => job.op # "enable"
          /\ Is("enable", 5) => job.op = "enable"
      BY Onward DEF Last, Inner, Is
    <2> QED
      BY <2>1, <2>2
      DEF Effect, Cleared, Ended, Return, Still, StillDirectory, StillFiles, StillSecrets,
          StillRest, ldap, dav, cal, db, history, bounds
  <1>23. CASE ShowPassword
    <2>1. /\ UNCHANGED <<ldap, dav, cal, db, bounds, given, lag>> /\ Continue
          /\ Is("create", 8) \/ Is("reset", 6) \/ Is("enable", 6)
          /\ told' = told \union {pw[u]}
      BY <1>23, Places, Zenon DEF ShowPassword
    <2>2. job' = Idle
      BY <2>1, Onward DEF Last
    <2> QED
      BY <2>1, <2>2
      DEF Effect, Shown, StillDirectory, StillFiles, StillSecrets, StillRest, ldap, dav,
          cal, db, history, bounds
  <1>24. CASE \/ Verify \/ OpenSession \/ FindCalendar \/ ProvisionCalendar \/ SignOut
              \/ Disable \/ Enable
    <2>1. /\ UNCHANGED <<ldap, dav, disabled, job, lastPw, history>>
          /\ signed' = signed + 1 \/ signed' = signed
          /\ calPw' = calPw \/ (signIn.pc = "read" /\ signed' = signed)
      BY <1>24, Zenon
      DEF Verify, OpenSession, FindCalendar, ProvisionCalendar, SignOut, Disable, Enable, cal,
          db, bounds
    <2>2. signed \in Nat /\ (signed = 0 => signIn.pc = "away")
      BY Bounds DEF BoundsInv, JobInv
    <2>3. signed' = 0 => signed = 0 /\ calPw' = calPw
      BY <2>1, <2>2
    <2> QED
      BY <2>1, <2>3
      DEF Effect, SignedInOrOut, StillDirectory, StillFiles, StillSecrets, StillRest, ldap, dav,
          cal, db, history, bounds
  <1> QED
    BY <1>2, <1>3, <1>5, <1>7, <1>8, <1>9, <1>10, <1>11, <1>12, <1>13, <1>14, <1>17, <1>18,
       <1>19, <1>20, <1>21, <1>22, <1>23, <1>24 DEF Next

----------------------------------------------------------------------------
(* What the effects preserve.                                              *)

\* A request that has gone on is at a place of its handler.
LEMMA RequestsAreThere ==
    ASSUME JobInv, Effect
    PROVE  /\ job' \in Jobs
           /\ job'.op # "none" => job'.at \in DOMAIN Program[job'.op]
           /\ job'.typed => job'.op \in {"create", "reset"}
  <1>1. ASSUME job' = Idle
        PROVE  job' \in Jobs /\ job'.op = "none" /\ ~job'.typed
    <2>1. ~Idle.typed
      BY Zenon DEF Idle
    <2> QED
      BY <1>1, <2>1, NoJob, Zenon
  <1>2. CASE Begun
    <2>1. 1 \in DOMAIN Program[job'.op]
      BY <1>2, OpNames, Lengths DEF Begun
    <2> QED
      BY <1>2, <2>1 DEF Begun
  <1>3. ASSUME Kept PROVE job'.typed => job'.op \in {"create", "reset"}
    BY <1>3, Zenon DEF Kept, JobInv
  <1>4. ASSUME On(1), Inner PROVE job'.op # "none" => job'.at \in DOMAIN Program[job'.op]
    BY <1>4, Lengths DEF On, Kept, Inner, Is
  <1>5. CASE \/ WentOn \/ PasswordSet \/ Joined \/ Left \/ EntryDeleted \/ GroupAdded
             \/ GroupDeleted \/ LoginSynced \/ LoginRemoved \/ (Cleared /\ Is("enable", 5))
    <2>1. On(1) /\ Inner
      BY <1>5 DEF WentOn, PasswordSet, Joined, Left, EntryDeleted, GroupAdded, GroupDeleted,
         LoginSynced, LoginRemoved, Cleared, Inner, Is
    <2> QED
      BY <1>3, <1>4, <2>1 DEF On, Kept
  <1>6. CASE \/ Ended \/ Stopped \/ RulesRebuilt \/ Marked \/ Shown
             \/ (Cleared /\ Is("delete", 7))
    <2>1. job' = Idle
      BY <1>6 DEF Ended, Stopped, RulesRebuilt, Marked, Cleared, Shown, Is
    <2> QED
      BY <1>1, <2>1
  <1>7. CASE FileWasRead \/ FileWritten \/ FileDropped
    <2>1. Kept
      BY <1>7 DEF FileWasRead, FileWritten, FileDropped
    <2>2. job'.at \in DOMAIN Program[job'.op]
      BY <1>7, Lengths DEF FileWasRead, FileWritten, FileDropped, Kept, Is
    <2> QED
      BY <1>3, <2>1, <2>2 DEF Kept
  <1>8. CASE SignedInOrOut
    BY <1>8, Zenon DEF SignedInOrOut, JobInv
  <1>9. Cleared => Is("enable", 5) \/ Is("delete", 7)
    BY DEF Cleared
  <1> QED
    BY <1>2, <1>5, <1>6, <1>7, <1>8, <1>9 DEF Effect

\* The servers' other tables, the sign-in and the counters have their types.
LEMMA RestIsTyped ==
    ASSUME JobInv, DirectoryInv, ServersInv, BoundsInv, Next
    PROVE  /\ signIn' \in SignIns
           /\ signIn'.pc # "away" => signIn'.pass # 0
           /\ signed' = 0 => signIn'.pc = "away"
           /\ calPw' \in [Users -> Passwords] /\ folders' \subseteq Users \union Groups
           /\ calendars' \subseteq Users
           /\ sessions' \subseteq [user : Users, pass : Passwords \ {0}]
           /\ flaky' = flaky /\ asked' \in 0 .. MaxRequests /\ signed' \in 0 .. MaxSignIns
  <1> DEFINE SignInSame == signIn' = signIn /\ signed' = signed
             CalSame    == calPw' = calPw /\ calendars' = calendars
             OtherSame  == folders' = folders /\ sessions' = sessions
             CountSame  == flaky' = flaky /\ asked' = asked
  <1>0. /\ job \in Jobs /\ u \in Users /\ g \in Groups
        /\ job.file \in [Users -> Passwords] /\ 0 \in Passwords /\ pw \in [Users -> Passwords]
        /\ asked \in 0 .. MaxRequests /\ MaxRequests \in Nat
        /\ signed \in 0 .. MaxSignIns /\ MaxSignIns \in Nat
    <2>1. job \in Jobs /\ pw \in [Users -> Passwords]
      BY DEF JobInv, DirectoryInv
    <2>2. u \in Users /\ g \in Groups /\ job.file \in [Users -> Passwords]
      BY <2>1, JobParts, Zenon DEF u, g
    <2>3. 0 \in Passwords /\ MaxRequests \in Nat /\ MaxSignIns \in Nat
      BY Bounds DEF Passwords
    <2>4. asked \in 0 .. MaxRequests /\ signed \in 0 .. MaxSignIns
      BY DEF BoundsInv
    <2> QED
      BY <2>1, <2>2, <2>3, <2>4
  <1>1. CASE SignInSame /\ CalSame /\ OtherSame /\ CountSame
    BY <1>0, <1>1 DEF JobInv, ServersInv, BoundsInv
  <1>2. CASE Request
    <2>1. SignInSame /\ CalSame /\ OtherSame /\ flaky' = flaky /\ asked < MaxRequests
          /\ asked' = asked + 1
      BY <1>2, Zenon DEF Request, cal, db, dav
    <2>2. asked' \in 0 .. MaxRequests
      BY <1>0, <2>1
    <2> QED
      BY <1>0, <2>1, <2>2 DEF JobInv, ServersInv, BoundsInv
  <1>3. CASE \/ FindGroup \/ AddUser \/ SetPassword \/ Join \/ LeaveOthers \/ LeaveAll
             \/ DeleteUser \/ AddGroup \/ DeleteGroup \/ SyncWebdav \/ RebuildRules
             \/ RemoveWebdavLogin \/ ReadLogins \/ MarkDisabled \/ ClearDisabled
             \/ ShowPassword \/ Disable \/ Enable
    <2>1. SignInSame /\ CalSame /\ OtherSame /\ CountSame
      BY <1>3, Zenon DEF FindGroup, AddUser, SetPassword, NewPassword, Join, LeaveOthers,
         LeaveAll, DeleteUser, AddGroup, DeleteGroup, SyncWebdav, RebuildRules,
         RemoveWebdavLogin, ReadLogins, MarkDisabled, ClearDisabled, ShowPassword, Disable,
         Enable, cal, db, dav, bounds
    <2> QED
      BY <1>1, <2>1
  <1>4. CASE MakeFolder \/ MakeAllFolders
    <2>1. /\ SignInSame /\ CalSame /\ sessions' = sessions /\ CountSame
          /\ \/ folders' = folders
             \/ folders' = folders \union {u} \/ folders' = folders \union {g}
             \/ \E made \in SUBSET (Present \union groups) : folders' = folders \union made
      BY <1>4, Zenon DEF MakeFolder, MakeAllFolders, EnsureFolder, cal, db, bounds
    <2>2. folders' \subseteq Users \union Groups
      BY <1>0, <2>1 DEF ServersInv, DirectoryInv, Present
    <2> QED
      BY <1>0, <2>1, <2>2 DEF JobInv, ServersInv, BoundsInv
  <1>5. CASE WriteLogin \/ DropLogin
    <2>1. /\ SignInSame /\ OtherSame /\ CountSame
          /\ calendars' = calendars \/ calendars' = calendars \union {u}
          /\ \/ calPw' = calPw \/ calPw' = [job.file EXCEPT ![u] = pw[u]]
             \/ calPw' = [job.file EXCEPT ![u] = 0]
      BY <1>5, Zenon DEF WriteLogin, DropLogin, SyncCalendar, SyncCalendarFails, RemoveLogin,
         RemoveLoginFails, writeUsers, writeUsersFails, EnsureCalendarAsOwner, db, dav, bounds
    <2>2. calendars' \subseteq Users /\ calPw' \in [Users -> Passwords]
      BY <1>0, <2>1 DEF ServersInv
    <2> QED
      BY <1>0, <2>1, <2>2 DEF JobInv, ServersInv, BoundsInv
  <1>6. CASE RevokeSessions \/ SignOut
    <2>1. SignInSame /\ CalSame /\ folders' = folders /\ CountSame
      BY <1>6, Zenon DEF RevokeSessions, SignOut, cal, dav, bounds
    <2>2. sessions' \subseteq sessions
      BY <1>6 DEF RevokeSessions, SignOut
    <2> QED
      BY <1>0, <2>1, <2>2 DEF JobInv, ServersInv, BoundsInv
  <1>7. CASE Verify
    <2>1. /\ CalSame /\ OtherSame /\ CountSame /\ signed < MaxSignIns /\ signed' = signed + 1
          /\ \E v \in Users, pass \in told :
                signIn' = [Away EXCEPT !.pc = "verified", !.user = v, !.pass = pass]
      BY <1>7, Zenon DEF Verify, cal, db, dav
    <2>2. PICK v \in Users, pass \in told :
             signIn' = [Away EXCEPT !.pc = "verified", !.user = v, !.pass = pass]
      BY <2>1
    <2>3. pass \in Passwords /\ pass # 0
      BY Bounds DEF BoundsInv, Passwords
    <2>4. signIn' = [pc |-> "verified", user |-> v, pass |-> pass, file |-> Empty]
      BY <2>2, Zenon DEF Away
    <2>5. signIn' \in SignIns /\ signIn'.pass # 0
      BY <2>3, <2>4, NoJob DEF SignIns
    <2>6. signed' \in 0 .. MaxSignIns /\ signed' # 0
      BY <1>0, <2>1
    <2> QED
      BY <1>0, <2>1, <2>5, <2>6 DEF ServersInv, BoundsInv
  <1>8. CASE OpenSession
    <2>1. /\ CalSame /\ folders' = folders /\ CountSame /\ signed' = signed
          /\ signIn.pc = "verified"
          /\ \/ /\ sessions' = sessions \union {[user |-> signIn.user, pass |-> signIn.pass]}
                /\ signIn' = [signIn EXCEPT !.pc = "signed in"]
             \/ signIn' = Away /\ sessions' = sessions
      BY <1>8, Zenon DEF OpenSession, cal, dav, bounds
    <2>2. signIn \in SignIns /\ signIn.pass # 0 /\ signed # 0
      BY <2>1 DEF JobInv
    <2>3. CASE /\ sessions' = sessions \union {[user |-> signIn.user, pass |-> signIn.pass]}
               /\ signIn' = [signIn EXCEPT !.pc = "signed in"]
      <3>1. signIn' \in SignIns /\ signIn'.pass # 0
        BY <2>2, <2>3 DEF SignIns
      <3>2. sessions' \subseteq [user : Users, pass : Passwords \ {0}]
        <4>1. signIn.user \in Users /\ signIn.pass \in Passwords \ {0}
          BY <2>2, JobParts
        <4>2. [user |-> signIn.user, pass |-> signIn.pass] \in
                 [user : Users, pass : Passwords \ {0}]
          BY <4>1
        <4> QED
          BY <2>3, <4>2 DEF ServersInv
      <3> QED
        BY <1>0, <2>1, <2>2, <3>1, <3>2 DEF ServersInv, BoundsInv
    <2>4. CASE signIn' = Away /\ sessions' = sessions
      BY <1>0, <2>1, <2>4, NoJob DEF ServersInv, BoundsInv
    <2> QED
      BY <2>1, <2>3, <2>4
  <1>9. CASE FindCalendar
    <2>1. /\ CalSame /\ OtherSame /\ CountSame /\ signed' = signed
          /\ signIn.pc = "signed in"
          /\ \/ signIn' = [signIn EXCEPT !.pc = "read", !.file = calPw]
             \/ signIn' = Away
      BY <1>9, Zenon DEF FindCalendar, readUsers, cal, db, dav, bounds
    <2>2. signIn \in SignIns /\ signIn.pass # 0 /\ signed # 0 /\ calPw \in [Users -> Passwords]
      BY <2>1 DEF JobInv, ServersInv
    <2>3. signIn' \in SignIns /\ (signIn'.pc # "away" => signIn'.pass # 0)
      <3>1. CASE signIn' = Away
        BY <3>1, NoJob
      <3>2. CASE signIn' = [signIn EXCEPT !.pc = "read", !.file = calPw]
        BY <2>2, <3>2 DEF SignIns
      <3> QED
        BY <2>1, <3>1, <3>2
    <2> QED
      BY <1>0, <2>1, <2>2, <2>3 DEF ServersInv, BoundsInv
  <1>10. CASE ProvisionCalendar
    <2>1. /\ OtherSame /\ CountSame /\ signed' = signed /\ signIn' = Away
          /\ calendars' = calendars \/ calendars' = calendars \union {signIn.user}
          /\ \/ calPw' = calPw
             \/ calPw' = [signIn.file EXCEPT ![signIn.user] = signIn.pass]
      BY <1>10, Zenon DEF ProvisionCalendar, SyncCalendar, SyncCalendarFails, writeUsers,
         writeUsersFails, EnsureCalendarAsOwner, db, dav, bounds
    <2>2. /\ signIn.user \in Users /\ signIn.pass \in Passwords
          /\ signIn.file \in [Users -> Passwords]
      BY JobParts DEF JobInv
    <2>3. calendars' \subseteq Users /\ calPw' \in [Users -> Passwords]
      BY <2>1, <2>2 DEF ServersInv
    <2> QED
      BY <1>0, <2>1, <2>3, NoJob DEF ServersInv, BoundsInv
  <1> QED
    BY <1>2, <1>3, <1>4, <1>5, <1>6, <1>7, <1>8, <1>9, <1>10 DEF Next

\* Which modules are stopped, and how often one was.
LEMMA ModulesAreTyped ==
    ASSUME ServersInv, BoundsInv, Next
    PROVE  stopped' \subseteq Modules /\ stops' \in 0 .. MaxStops
  <1>0. stopped \subseteq Modules /\ stops \in 0 .. MaxStops /\ MaxStops \in Nat
    BY Bounds DEF ServersInv, BoundsInv
  <1>1. CASE Disable
    <2>1. stops < MaxStops /\ stops' = stops + 1
      BY <1>1, Zenon DEF Disable
    <2>2. PICK m \in Modules \ stopped : stopped' = stopped \union {m}
      BY <1>1, Zenon DEF Disable
    <2> QED
      BY <1>0, <2>1, <2>2
  <1>2. CASE Enable
    <2>1. PICK m \in stopped : stopped' = stopped \ {m}
      BY <1>2, Zenon DEF Enable
    <2>2. stops' = stops
      BY <1>2, Zenon DEF Enable, bounds
    <2> QED
      BY <1>0, <2>1, <2>2
  <1>3. CASE \/ Request \/ FindGroup \/ AddUser \/ SetPassword \/ Join \/ LeaveOthers
             \/ LeaveAll \/ DeleteUser \/ AddGroup \/ DeleteGroup \/ MakeFolder
             \/ MakeAllFolders \/ SyncWebdav \/ RebuildRules \/ RemoveWebdavLogin
             \/ ReadLogins \/ WriteLogin \/ DropLogin \/ RevokeSessions \/ MarkDisabled
             \/ ClearDisabled \/ ShowPassword \/ Verify \/ OpenSession \/ FindCalendar
             \/ ProvisionCalendar \/ SignOut
    <2>1. stopped' = stopped /\ stops' = stops
      BY <1>3, Zenon DEF Request, FindGroup, AddUser, SetPassword, NewPassword, Join,
         LeaveOthers, LeaveAll, DeleteUser, AddGroup, DeleteGroup, MakeFolder, MakeAllFolders,
         SyncWebdav, RebuildRules, RemoveWebdavLogin, ReadLogins, WriteLogin, DropLogin,
         RevokeSessions, MarkDisabled, ClearDisabled, ShowPassword, Verify, OpenSession,
         FindCalendar, ProvisionCalendar, SignOut, db, bounds
    <2> QED
      BY <1>0, <2>1
  <1> QED
    BY <1>1, <1>2, <1>3, Zenon DEF Next

\* What rules a login gets: everything that is not its owner's, if the directory lists it.
LEMMA RulesOf ==
    ASSUME DirectoryInv, ServersInv, NEW logins
    PROVE  /\ applyRules(logins) \in [Users -> SUBSET (Users \union Groups)]
           /\ \A v \in logins \intersect Present :
                 (Present \ {v}) \union (groups \ GroupsOf(v)) \subseteq applyRules(logins)[v]
           /\ \A v \in Users \ logins : applyRules(logins)[v] = denied[v]
  <1> DEFINE seen == webdavGroupContext
  <1>1. seen.users = Present /\ seen.groups = groups
    BY DEF webdavGroupContext
  <1>2. ASSUME NEW v \in Users
        PROVE  seen.groupOf[v] \subseteq GroupsOf(v)
    <2>1. seen.groupOf[v] = IF GroupsOf(v) = {} THEN {} ELSE {CHOOSE h \in GroupsOf(v) : TRUE}
      BY DEF webdavGroupContext
    <2> HIDE DEF seen
    <2> QED
      BY <2>1
  <1>3. applyRules(logins) = [v \in Users |->
           IF v \in logins \intersect Present
           THEN (Present \ {v}) \union (groups \ seen.groupOf[v]) ELSE denied[v]]
    BY <1>1, Zenon DEF applyRules, rulesFor
  <1> HIDE DEF seen
  <1>4. /\ Present \subseteq Users /\ groups \subseteq Groups
        /\ denied \in [Users -> SUBSET (Users \union Groups)]
    BY DEF Present, DirectoryInv, ServersInv
  <1> QED
    BY <1>2, <1>3, <1>4

\* Whom and what a request is about, and the passwords there are.
LEMMA Known ==
    ASSUME JobInv, DirectoryInv, BoundsInv
    PROVE  /\ u \in Users /\ g \in Groups /\ job.file \in [Users -> Passwords]
           /\ MaxPasswords \in Nat /\ lastPw \in 0 .. MaxPasswords /\ 0 \in Passwords
           /\ \A v \in Users : pw[v] \in Passwords /\ pw[v] \in Nat /\ pw[v] <= lastPw
           /\ told \subseteq 1 .. lastPw /\ signed \in Nat
  <1>1. job \in Jobs
    BY DEF JobInv
  <1>2. u \in Users /\ g \in Groups /\ job.file \in [Users -> Passwords]
    BY <1>1, JobParts, Zenon DEF u, g
  <1>3. MaxPasswords \in Nat /\ 0 \in Passwords
    BY Bounds DEF Passwords
  <1>4. lastPw \in 0 .. MaxPasswords /\ told \subseteq 1 .. lastPw /\ signed \in Nat
    BY Bounds DEF BoundsInv, Passwords
  <1>5. \A v \in Users : pw[v] \in Passwords /\ pw[v] <= lastPw
    BY DEF DirectoryInv
  <1>6. \A v \in Users : pw[v] \in Nat
    <2>1. \A n \in Passwords : n \in Nat
      BY <1>3 DEF Passwords
    <2> QED
      BY <1>5, <2>1
  <1> QED
    BY <1>2, <1>3, <1>4, <1>5, <1>6

\* The directory.
LEMMA DirectoryStays ==
    ASSUME JobInv, DirectoryInv, BoundsInv, Effect
    PROVE  DirectoryInv' /\ lastPw' \in Passwords /\ lastPw <= lastPw'
  <1>0. /\ u \in Users /\ g \in Groups /\ MaxPasswords \in Nat /\ lastPw \in 0 .. MaxPasswords
        /\ 0 \in Passwords
    BY Known
  <1>1. CASE StillDirectory
    BY <1>0, <1>1 DEF StillDirectory, DirectoryInv, Passwords
  <1>2. CASE PasswordSet
    <2>1. /\ pw' = [pw EXCEPT ![u] = lastPw + 1] /\ lastPw' = lastPw + 1
          /\ groups' = groups /\ member' = member /\ lastPw' \in Passwords
      BY <1>0, <1>2 DEF PasswordSet, Passwords
    <2>2. \A v \in Users : pw[v] \in Nat
      BY Known
    <2> QED
      BY <1>0, <2>1, <2>2 DEF DirectoryInv
  <1>3. CASE Stopped \/ Left
    <2>1. /\ pw' = pw /\ groups' = groups /\ lastPw' = lastPw
          /\ member' = member \/ \E S : member' = RemoveUserFromGroup(u, S)
      BY <1>3 DEF Stopped, Left
    <2> QED
      BY <1>0, <2>1 DEF DirectoryInv, RemoveUserFromGroup, Passwords
  <1>4. CASE Joined
    <2>1. /\ pw' = pw /\ groups' = groups /\ lastPw' = lastPw /\ g \in groups
          /\ member' = [member EXCEPT ![g] = @ \union {u}]
      BY <1>4 DEF Joined, AddUserToGroup
    <2> QED
      BY <1>0, <2>1 DEF DirectoryInv, Passwords
  <1>5. CASE EntryDeleted
    <2>1. /\ pw' = [pw EXCEPT ![u] = 0] /\ groups' = groups /\ member' = member
          /\ lastPw' = lastPw
      BY <1>5 DEF EntryDeleted
    <2> QED
      BY <1>0, <2>1 DEF DirectoryInv, Passwords
  <1>6. CASE GroupAdded \/ GroupDeleted
    <2>1. /\ pw' = pw /\ lastPw' = lastPw
          /\ \/ groups' = groups \union {g} /\ member' = member
             \/ groups' = groups \ {g} /\ member' = [member EXCEPT ![g] = {}]
      BY <1>6 DEF GroupAdded, GroupDeleted
    <2> QED
      BY <1>0, <2>1 DEF DirectoryInv, Passwords
  <1> QED
    BY <1>1, <1>2, <1>3, <1>4, <1>5, <1>6
    DEF Effect, Begun, Ended, WentOn, Still, LoginSynced, RulesRebuilt, LoginRemoved, DavOnly,
        FileWasRead, FileWritten, FileDropped, CalOnly, Marked, Cleared, Shown, SignedInOrOut

\* The servers' files and tables.
LEMMA ServersStay ==
    ASSUME JobInv, DirectoryInv, ServersInv, BoundsInv, Next, Effect
    PROVE  ServersInv'
  <1>0. /\ u \in Users /\ MaxPasswords \in Nat /\ lastPw \in 0 .. MaxPasswords
        /\ 0 \in Passwords /\ \A v \in Users : pw[v] \in Passwords /\ pw[v] <= lastPw
    BY Known
  <1>1. lastPw' \in 0 .. MaxPasswords /\ lastPw <= lastPw'
    BY DirectoryStays DEF Passwords
  <1>2. /\ \/ davPw' = davPw \/ davPw' = [davPw EXCEPT ![u] = pw[u]]
           \/ davPw' = [davPw EXCEPT ![u] = 0]
        /\ \/ denied' = denied \/ denied' = [denied EXCEPT ![u] = {}]
           \/ \E logins : denied' = applyRules(logins)
        /\ \/ disabled' = disabled \/ disabled' = disabled \union {u}
           \/ disabled' = disabled \ {u}
    BY DEF Effect, Begun, Ended, WentOn, Still, PasswordSet, Stopped, Joined, Left,
       EntryDeleted, GroupAdded, GroupDeleted, LoginSynced, RulesRebuilt, LoginRemoved,
       DavOnly, FileWasRead, FileWritten, FileDropped, CalOnly, Marked, Cleared, Shown,
       SignedInOrOut, StillDirectory, StillFiles, StillSecrets, StillRest
  <1>3. davPw' \in [Users -> Passwords] /\ \A v \in Users : davPw'[v] <= lastPw
    BY <1>0, <1>2 DEF ServersInv
  <1>4. \A v \in Users : davPw'[v] <= lastPw'
    BY <1>0, <1>1, <1>3 DEF Passwords
  <1>5. denied' \in [Users -> SUBSET (Users \union Groups)]
    BY <1>0, <1>2, RulesOf DEF ServersInv
  <1>6. disabled' \subseteq Users
    BY <1>0, <1>2 DEF ServersInv
  <1> QED
    BY <1>3, <1>4, <1>5, <1>6, RestIsTyped, ModulesAreTyped DEF ServersInv

\* The counters and the histories.
LEMMA BoundsStay ==
    ASSUME JobInv, DirectoryInv, ServersInv, BoundsInv, PasswordInv, Next, Effect
    PROVE  BoundsInv'
  <1>0. /\ u \in Users /\ MaxPasswords \in Nat /\ lastPw \in 0 .. MaxPasswords
        /\ \A v \in Users : pw[v] \in Nat /\ pw[v] <= lastPw
    BY Known
  <1>1. lastPw' \in 0 .. MaxPasswords /\ lastPw <= lastPw'
    BY DirectoryStays DEF Passwords
  <1>2. lag' \in Lags
    <2>1. lag \in Lags
      BY Zenon DEF BoundsInv, Lags
    <2> QED
      BY <2>1, Zenon DEF Effect, Begun, Ended, WentOn, Still, PasswordSet, Stopped, Joined,
         Left, EntryDeleted, GroupAdded, GroupDeleted, LoginSynced, RulesRebuilt,
         LoginRemoved, DavOnly, FileWasRead, FileWritten, FileDropped, CalOnly, Marked,
         Cleared, Shown, SignedInOrOut
  <1>3. given' \subseteq Users
    <2>1. given' = given \/ given' = given \union {u} \/ given' = given \ {u}
      BY DEF Effect, Begun, Ended, WentOn, Still, PasswordSet, Stopped, Joined, Left,
        EntryDeleted, GroupAdded, GroupDeleted, LoginSynced, RulesRebuilt, LoginRemoved, DavOnly,
        FileWasRead, FileWritten, FileDropped, CalOnly, Marked, Cleared, Shown, SignedInOrOut,
        StillSecrets
    <2> QED
      BY <1>0, <2>1 DEF BoundsInv
  <1>4. told' \subseteq 1 .. lastPw'
    <2>1. \/ told' = told
          \/ PasswordSet /\ told' = told \union {lastPw + 1}
          \/ Shown /\ told' = told \union {pw[u]}
      BY DEF Effect, Begun, Ended, WentOn, Still, PasswordSet, Stopped, Joined, Left,
        EntryDeleted, GroupAdded, GroupDeleted, LoginSynced, RulesRebuilt, LoginRemoved, DavOnly,
        FileWasRead, FileWritten, FileDropped, CalOnly, Marked, Cleared, Shown, SignedInOrOut,
        StillSecrets
    <2>2. Shown => pw[u] # 0
      BY DEF Shown, PasswordInv, Gave, Withheld, Is
    <2>3. PasswordSet => lastPw' = lastPw + 1
      BY DEF PasswordSet
    <2>4. told \subseteq 1 .. lastPw
      BY DEF BoundsInv
    <2>5. CASE told' = told
      BY <1>0, <1>1, <2>4, <2>5
    <2>6. CASE PasswordSet /\ told' = told \union {lastPw + 1}
      BY <1>0, <2>3, <2>4, <2>6
    <2>7. CASE Shown /\ told' = told \union {pw[u]}
      <3>1. pw[u] \in 1 .. lastPw
        BY <1>0, <2>2, <2>7
      <3>2. 1 .. lastPw \subseteq 1 .. lastPw'
        BY <1>0, <1>1
      <3> QED
        BY <2>4, <2>7, <3>1, <3>2
    <2> QED
      BY <2>1, <2>5, <2>6, <2>7
  <1>5. /\ flaky' \in Services \union {"none"} /\ asked' \in 0 .. MaxRequests
        /\ signed' \in 0 .. MaxSignIns /\ stops' \in 0 .. MaxStops
    BY RestIsTyped, ModulesAreTyped DEF BoundsInv
  <1> QED
    BY <1>1, <1>2, <1>3, <1>4, <1>5, Zenon DEF BoundsInv, Lags, Passwords

\* The effects that leave the logins alone.
Apart == \/ Begun \/ Ended \/ WentOn \/ Stopped \/ Joined \/ Left \/ GroupAdded \/ GroupDeleted
         \/ RulesRebuilt \/ Marked \/ Cleared \/ Shown

\* The logins follow the directory.
LEMMA LoginsStay ==
    ASSUME JobInv, DirectoryInv, ServersInv, BoundsInv, LoginsInv, Effect
    PROVE  LoginsInv'
  <1>0. /\ u \in Users /\ signed \in Nat /\ job.file \in [Users -> Passwords]
        /\ pw \in [Users -> Passwords] /\ davPw \in [Users -> Passwords]
        /\ calPw \in [Users -> Passwords] /\ \A v \in Users : pw[v] \in Passwords
    BY Known DEF DirectoryInv, ServersInv
  <1>1. CASE Apart
    <2>1. /\ pw' = pw /\ davPw' = davPw /\ calPw' = calPw /\ signed' = signed
          /\ lag.dav \subseteq lag'.dav /\ lag.cal \subseteq lag'.cal
      BY <1>1 DEF Apart, Begun, Ended, WentOn, Still, Stopped, Joined, Left, GroupAdded,
         GroupDeleted, RulesRebuilt, DavOnly, Marked, Cleared, Shown, StillDirectory, StillFiles,
         StillSecrets, StillRest
    <2>2. ~DavOpen /\ ~CalOpen
      BY <1>1 DEF Apart, Begun, Ended, WentOn, Stopped, Joined, Left, GroupAdded,
         GroupDeleted, RulesRebuilt, Marked, Cleared, Shown, Is, DavOpen, CalOpen
    <2>3. ~FileRead'
      <3>1. CASE job' = Idle
        BY <3>1, NoJob DEF FileRead
      <3>2. CASE Begun
        BY <3>2 DEF Begun, FileRead
      <3>3. CASE On(1) /\ (WentOn \/ Joined \/ Left \/ GroupAdded \/ GroupDeleted \/ Cleared)
        BY <3>3 DEF On, Kept, WentOn, Joined, Left, GroupAdded, GroupDeleted, Cleared, Is,
           FileRead
      <3> QED
        BY <1>1, <3>1, <3>2, <3>3 DEF Apart, Ended, WentOn, Stopped, Joined, Left, GroupAdded,
           GroupDeleted, RulesRebuilt, Marked, Cleared, Shown
    <2> QED
      BY <2>1, <2>2, <2>3 DEF LoginsInv
  <1>2. CASE PasswordSet
    <2>1. /\ pw' = [pw EXCEPT ![u] = lastPw + 1] /\ davPw' = davPw /\ calPw' = calPw
          /\ signed' = signed /\ lag' = lag /\ u' = u
      BY <1>2 DEF PasswordSet, StillFiles, StillRest, On, Kept, u
    <2>2. ~DavOpen /\ ~CalOpen /\ ~FileRead'
      BY <1>2 DEF PasswordSet, On, Kept, Is, DavOpen, CalOpen, FileRead
    <2>3. pw[u] = 0 \/ (DavOpen' /\ CalOpen')
      BY <1>2 DEF PasswordSet, On, Kept, Is, DavOpen, CalOpen
    <2> QED
      BY <1>0, <2>1, <2>2, <2>3 DEF LoginsInv
  <1>3. CASE EntryDeleted
    <2>1. /\ pw' = [pw EXCEPT ![u] = 0] /\ davPw' = davPw /\ calPw' = calPw
          /\ signed' = signed /\ lag' = lag /\ u' = u
      BY <1>3 DEF EntryDeleted, StillFiles, StillRest, On, Kept, u
    <2>2. ~DavOpen /\ ~CalOpen /\ ~FileRead' /\ DavOpen' /\ CalOpen'
      BY <1>3 DEF EntryDeleted, On, Kept, Is, DavOpen, CalOpen, FileRead
    <2> QED
      BY <1>0, <2>1, <2>2 DEF LoginsInv
  <1>4. CASE LoginSynced \/ LoginRemoved
    <2>1. /\ pw' = pw /\ calPw' = calPw /\ signed' = signed /\ lag'.cal = lag.cal /\ u' = u
      BY <1>4 DEF LoginSynced, LoginRemoved, DavOnly, StillDirectory, StillRest, On, Kept, u
    <2>2. ~FileRead' /\ ~FileRead /\ (CalOpen => CalOpen')
      BY <1>4 DEF LoginSynced, LoginRemoved, On, Kept, Is, CalOpen, FileRead
    <2>3. /\ \/ davPw' = [davPw EXCEPT ![u] = pw[u]] \/ davPw' = [davPw EXCEPT ![u] = 0]
             \/ davPw' = davPw /\ u \in lag'.dav
          /\ lag.dav \ {u} \subseteq lag'.dav
      BY <1>4 DEF LoginSynced, LoginRemoved
    <2> QED
      BY <1>0, <2>1, <2>2, <2>3 DEF LoginsInv
  <1>5. CASE FileWasRead
    <2>1. /\ pw' = pw /\ davPw' = davPw /\ calPw' = calPw /\ signed' = signed /\ u' = u
          /\ lag'.dav = lag.dav /\ lag.cal \subseteq lag'.cal
      BY <1>5 DEF FileWasRead, CalOnly, StillDirectory, StillRest, Kept, u
    <2>2. /\ ~DavOpen
          /\ \/ job'.file = calPw /\ (CalOpen => CalOpen')
             \/ u \in lag'.cal /\ ~FileRead'
      BY <1>5 DEF FileWasRead, Kept, Is, DavOpen, CalOpen, FileRead
    <2> QED
      BY <1>0, <2>1, <2>2 DEF LoginsInv
  <1>6. CASE FileWritten
    <2>1. /\ pw' = pw /\ davPw' = davPw /\ signed' = signed /\ u' = u
          /\ lag'.dav = lag.dav /\ lag.cal \ {u} \subseteq lag'.cal
          /\ \/ calPw' = [job.file EXCEPT ![u] = pw[u]]
             \/ calPw' = calPw /\ u \in lag'.cal
      BY <1>6 DEF FileWritten, CalOnly, StillDirectory, StillRest, Kept, u
    <2>2. ~DavOpen /\ FileRead /\ ~FileRead'
      BY <1>6 DEF FileWritten, Kept, Is, DavOpen, FileRead
    <2> QED
      BY <1>0, <2>1, <2>2 DEF LoginsInv
  <1>7. CASE FileDropped
    <2>1. /\ pw' = pw /\ davPw' = davPw /\ signed' = signed /\ u' = u
          /\ lag'.dav = lag.dav /\ lag.cal \ {u} \subseteq lag'.cal
          /\ \/ calPw' = [job.file EXCEPT ![u] = 0]
             \/ calPw' = calPw /\ job.file[u] = 0
             \/ calPw' = calPw /\ u \in lag'.cal
      BY <1>7 DEF FileDropped, CalOnly, StillDirectory, StillRest, Kept, u
    <2>2. ~DavOpen /\ FileRead /\ ~FileRead'
      BY <1>7 DEF FileDropped, Kept, Is, DavOpen, FileRead
    <2> QED
      BY <1>0, <2>1, <2>2 DEF LoginsInv
  <1>8. CASE SignedInOrOut
    <2>1. /\ job' = job /\ pw' = pw /\ davPw' = davPw /\ lag' = lag
          /\ signed' = 0 => signed = 0 /\ calPw' = calPw
      BY <1>8 DEF SignedInOrOut, StillDirectory
    <2> QED
      BY <2>1 DEF LoginsInv, DavOpen, CalOpen, FileRead, u
  <1> QED
    BY <1>1, <1>2, <1>3, <1>4, <1>5, <1>6, <1>7, <1>8 DEF Effect, Apart

\* The effects that leave the directory, the logins and the rules alone.
NoRules == \/ Begun \/ Ended \/ WentOn \/ FileWasRead \/ FileWritten \/ FileDropped \/ Marked
           \/ Cleared \/ Shown \/ SignedInOrOut

\* The rules confine, unless they are still to be rebuilt.
LEMMA RulesStay ==
    ASSUME JobInv, DirectoryInv, ServersInv, BoundsInv, RulesInv, Effect
    PROVE  RulesInv'
  <1> SUFFICES ASSUME ~lag'.rules, ~RulesOpen',
                      NEW v \in Users, pw'[v] # 0, davPw'[v] # 0
               PROVE  (v = u' /\ Leaving') \/ Confined(v)'
    BY DEF RulesInv, Present, Logins
  <1>0. /\ u \in Users /\ g \in Groups /\ pw \in [Users -> Passwords]
        /\ davPw \in [Users -> Passwords] /\ groups \subseteq Groups
        /\ member \in [Groups -> SUBSET Users]
        /\ denied \in [Users -> SUBSET (Users \union Groups)]
    BY Known DEF DirectoryInv, ServersInv
  <1>1. ASSUME ~lag.rules, ~RulesOpen, pw[v] # 0, davPw[v] # 0
        PROVE  (v = u /\ Leaving) \/ Confined(v)
    BY <1>1 DEF RulesInv, Present, Logins
  <1>2. CASE NoRules
    <2>1. /\ pw' = pw /\ davPw' = davPw /\ denied' = denied /\ groups' = groups
          /\ member' = member
      BY <1>2 DEF NoRules, Begun, Ended, WentOn, Still, FileWasRead, FileWritten, FileDropped,
         CalOnly, Marked, Cleared, Shown, SignedInOrOut, StillDirectory, StillFiles
    <2>2. lag'.rules = lag.rules
      BY <1>2, Zenon DEF NoRules, Begun, Ended, WentOn, Still, FileWasRead, FileWritten,
         FileDropped, CalOnly, Marked, Cleared, Shown, SignedInOrOut
    <2>3. ~lag.rules
      BY <2>2, Zenon
    <2>4. CASE SignedInOrOut
      <3>1. job' = job
        BY <2>4 DEF SignedInOrOut
      <3> QED
        BY <1>1, <2>1, <2>3, <3>1 DEF RulesOpen, Leaving, Confined, Present, GroupsOf, u
    <2>5. CASE ~SignedInOrOut
      <3>1. ~Leaving \/ pw[u] = 0
        BY <1>2, <2>5 DEF NoRules, Begun, Ended, WentOn, FileWasRead, FileWritten, FileDropped,
           Marked, Cleared, Shown, Is, Leaving
      <3>2. ~RulesOpen
        BY <1>2, <2>5 DEF NoRules, Begun, Ended, WentOn, FileWasRead, FileWritten, FileDropped,
           Marked, Cleared, Shown, Is, RulesOpen, On, Kept
      <3> QED
        BY <1>1, <2>1, <2>3, <3>1, <3>2 DEF Confined, Present, GroupsOf
    <2> QED
      BY <2>4, <2>5
  <1>3. CASE PasswordSet
    <2>1. /\ pw' = [pw EXCEPT ![u] = lastPw + 1] /\ davPw' = davPw /\ denied' = denied
          /\ groups' = groups /\ member' = member
      BY <1>3 DEF PasswordSet, StillFiles
    <2>2. ~lag.rules
      BY <1>3, Zenon DEF PasswordSet
    <2>3. ~RulesOpen /\ ~Leaving /\ pw[u] # 0
      BY <1>3 DEF PasswordSet, On, Kept, Is, RulesOpen, Leaving
    <2>4. lastPw + 1 # 0
      BY Known
    <2>5. Present' = Present
      BY <1>0, <2>1, <2>3, <2>4 DEF Present
    <2>6. pw[v] # 0
      BY <1>0, <2>1, <2>3
    <2> QED
      BY <1>1, <2>1, <2>2, <2>3, <2>5, <2>6 DEF Confined, GroupsOf
  <1>4. CASE Stopped
    BY <1>4, Zenon DEF Stopped
  <1>5. CASE Joined
    BY <1>5 DEF Joined, On, Kept, Is, RulesOpen
  <1>6. CASE Left
    <2>1. /\ pw' = pw /\ davPw' = davPw /\ denied' = denied /\ groups' = groups
          /\ \E S : member' = RemoveUserFromGroup(u, S) /\ u' = u
      BY <1>6 DEF Left, StillFiles, On, Kept, u
    <2>2. ~lag.rules
      BY <1>6, Zenon DEF Left
    <2>3. ~RulesOpen /\ ~Leaving /\ Leaving'
      BY <1>6 DEF Left, On, Kept, Is, RulesOpen, Leaving
    <2>4. v # u => GroupsOf(v)' = GroupsOf(v)
      BY <1>0, <2>1 DEF GroupsOf, RemoveUserFromGroup
    <2> QED
      BY <1>1, <2>1, <2>2, <2>3, <2>4 DEF Confined, Present
  <1>7. CASE EntryDeleted
    <2>1. /\ pw' = [pw EXCEPT ![u] = 0] /\ davPw' = davPw /\ denied' = denied
          /\ groups' = groups /\ member' = member
      BY <1>7 DEF EntryDeleted, StillFiles
    <2>2. ~lag.rules
      BY <1>7, Zenon DEF EntryDeleted
    <2>3. ~RulesOpen
      BY <1>7 DEF EntryDeleted, Is, RulesOpen
    <2>4. v # u /\ Present' \subseteq Present /\ pw[v] # 0
      BY <1>0, <2>1 DEF Present
    <2> QED
      BY <1>1, <2>1, <2>2, <2>3, <2>4 DEF Confined, GroupsOf
  <1>8. CASE GroupAdded
    BY <1>8 DEF GroupAdded, On, Kept, Is, RulesOpen
  <1>9. CASE GroupDeleted
    <2>1. /\ pw' = pw /\ davPw' = davPw /\ denied' = denied
          /\ groups' = groups \ {g} /\ member' = [member EXCEPT ![g] = {}]
      BY <1>9 DEF GroupDeleted, StillFiles
    <2>2. ~lag.rules
      BY <1>9, Zenon DEF GroupDeleted
    <2>3. ~RulesOpen /\ ~Leaving
      BY <1>9 DEF GroupDeleted, Is, RulesOpen, Leaving
    <2>4. (groups \ GroupsOf(v))' \subseteq groups \ GroupsOf(v)
      BY <1>0, <2>1 DEF GroupsOf
    <2> QED
      BY <1>1, <2>1, <2>2, <2>3, <2>4 DEF Confined, Present
  <1>10. ASSUME NEW logins, denied' = applyRules(logins), v \in logins,
                pw' = pw, groups' = groups, member' = member
         PROVE  Confined(v)'
    <2>1. v \in logins \intersect Present
      BY <1>10 DEF Present
    <2>2. (Present \ {v}) \union (groups \ GroupsOf(v)) \subseteq applyRules(logins)[v]
      BY <2>1, RulesOf
    <2> QED
      BY <1>10, <2>2 DEF Confined, Present, GroupsOf
  <1>11. CASE LoginSynced
    <2>1. lag'.rules # TRUE
      BY Zenon
    <2>2. /\ pw' = pw /\ groups' = groups /\ member' = member
          /\ davPw' = [davPw EXCEPT ![u] = pw[u]] /\ denied' = applyRules(Logins \union {u})
      BY <1>11, <2>1, Zenon DEF LoginSynced, DavOnly, StillDirectory
    <2>3. v \in Logins \union {u}
      BY <1>0, <2>2 DEF Logins
    <2> QED
      BY <1>10, <2>2, <2>3
  <1>12. CASE RulesRebuilt
    <2>1. lag'.rules # TRUE
      BY Zenon
    <2>2. /\ pw' = pw /\ groups' = groups /\ member' = member
          /\ davPw' = davPw /\ denied' = applyRules(Logins)
      BY <1>12, <2>1, Zenon DEF RulesRebuilt, DavOnly, StillDirectory
    <2>3. v \in Logins
      BY <2>2 DEF Logins
    <2> QED
      BY <1>10, <2>2, <2>3
  <1>13. CASE LoginRemoved
    <2>1. /\ pw' = pw /\ groups' = groups /\ member' = member
          /\ \/ davPw' = [davPw EXCEPT ![u] = 0] /\ denied' = [denied EXCEPT ![u] = {}]
             \/ davPw' = davPw /\ denied' = denied
      BY <1>13 DEF LoginRemoved, DavOnly, StillDirectory
    <2>2. ~lag.rules
      BY <1>13, Zenon DEF LoginRemoved
    <2>3. ~RulesOpen /\ ~Leaving
      BY <1>13 DEF LoginRemoved, Is, RulesOpen, Leaving
    <2>4. pw[v] # 0 /\ davPw[v] # 0 /\ denied'[v] = denied[v]
      BY <1>0, <2>1
    <2> QED
      BY <1>1, <2>1, <2>2, <2>3, <2>4 DEF Confined, Present, GroupsOf
  <1> QED
    BY <1>2, <1>3, <1>4, <1>5, <1>6, <1>7, <1>8, <1>9, <1>11, <1>12, <1>13 DEF Effect, NoRules

\* What a request has done to its person's password.
LEMMA PasswordStays ==
    ASSUME JobInv, DirectoryInv, ServersInv, BoundsInv, PasswordInv, Effect
    PROVE  PasswordInv'
  <1>0. /\ u \in Users /\ pw \in [Users -> Passwords] /\ lastPw \in Nat
        /\ told \subseteq 1 .. lastPw
    BY Known DEF DirectoryInv
  <1>1. ASSUME ~Gave', ~Withheld' PROVE PasswordInv'
    BY <1>1 DEF PasswordInv, Withheld
  <1>2. CASE job' = Idle
    BY <1>1, <1>2, NoJob DEF Gave, Withheld
  <1>3. CASE Begun
    BY <1>1, <1>3 DEF Begun, Gave, Withheld
  <1>4. CASE PasswordSet
    <2>1. /\ pw' = [pw EXCEPT ![u] = lastPw + 1] /\ u' = u
          /\ \/ /\ job'.op \in {"create", "reset"} /\ given' = given \union {u}
             \/ /\ job'.op \in {"enable", "disable"} /\ job'.at = 2 /\ given' = given \ {u}
                /\ told' = told
      BY <1>4 DEF PasswordSet, On, Kept, Is, u
    <2>2. pw'[u] = lastPw + 1 /\ lastPw + 1 # 0 /\ lastPw + 1 \notin told
      BY <1>0, <2>1
    <2> QED
      BY <2>1, <2>2 DEF PasswordInv, Gave, Withheld
  <1>5. CASE EntryDeleted
    BY <1>1, <1>5 DEF EntryDeleted, On, Kept, Is, Gave, Withheld
  <1>6. CASE Cleared /\ On(1)
    <2>1. /\ pw' = pw /\ told' = told /\ given' = given /\ disabled' = disabled \ {u}
          /\ Is("enable", 5) /\ job'.op = job.op /\ job'.at = job.at + 1 /\ u' = u
      BY <1>6, NoJob DEF Cleared, StillDirectory, StillSecrets, On, Kept, u, Is
    <2> QED
      BY <2>1 DEF PasswordInv, Gave, Withheld, Is
  <1>7. CASE \/ WentOn \/ Joined \/ Left \/ GroupAdded \/ GroupDeleted \/ LoginSynced
             \/ LoginRemoved \/ FileWasRead \/ FileWritten \/ FileDropped
    <2>1. pw' = pw /\ told' = told /\ given' = given /\ Kept
      BY <1>7 DEF WentOn, Still, Joined, Left, GroupAdded, GroupDeleted, LoginSynced, DavOnly,
         LoginRemoved, FileWasRead, FileWritten, FileDropped, CalOnly, StillDirectory,
         StillSecrets, On
    <2>2. /\ Gave' => Gave
          /\ Withheld' => Withheld
          /\ ~(job'.op = "enable" /\ job'.at = 6)
      BY <1>7 DEF WentOn, Joined, Left, GroupAdded, GroupDeleted, LoginSynced,
         LoginRemoved, FileWasRead, FileWritten, FileDropped, On, Kept, Is, Gave, Withheld
    <2> QED
      BY <2>1, <2>2 DEF PasswordInv, Kept, u
  <1>8. CASE SignedInOrOut
    <2>1. job' = job /\ pw' = pw /\ told' = told /\ given' = given /\ disabled' = disabled
      BY <1>8 DEF SignedInOrOut, StillDirectory, StillSecrets
    <2> QED
      BY <2>1 DEF PasswordInv, Gave, Withheld, u
  <1> QED
    BY <1>2, <1>3, <1>4, <1>5, <1>6, <1>7, <1>8
    DEF Effect, Ended, Stopped, RulesRebuilt, Marked, Cleared, Shown

\* The effects that leave passwords, marks and the file share's logins alone.
Silent == \/ Begun \/ Ended \/ WentOn \/ Stopped \/ Joined \/ Left \/ GroupAdded \/ GroupDeleted
          \/ RulesRebuilt \/ FileWasRead \/ FileWritten \/ FileDropped

\* Whoever is disabled stays out.
LEMMA DisabledStays ==
    ASSUME JobInv, DirectoryInv, ServersInv, BoundsInv, LoginsInv, PasswordInv, DisabledInv,
           Effect
    PROVE  DisabledInv'
  <1> SUFFICES ASSUME NEW v \in Users, v \in disabled' \ given' \/ (v = u' /\ Withheld')
               PROVE  /\ pw'[v] \notin told'
                      /\ davPw'[v] \in told' =>
                            v \in lag'.dav \/ (v = u' /\ Withheld' /\ job'.at = 2)
    BY DEF DisabledInv
  <1>0. /\ u \in Users /\ pw \in [Users -> Passwords] /\ davPw \in [Users -> Passwords]
        /\ lastPw \in Nat /\ told \subseteq 1 .. lastPw
        /\ \A w \in Users : pw[w] \in Nat /\ pw[w] <= lastPw /\ davPw[w] <= lastPw
    BY Known DEF DirectoryInv, ServersInv
  <1>1. ASSUME v \in disabled \ given \/ (v = u /\ Withheld)
        PROVE  /\ pw[v] \notin told
               /\ davPw[v] \in told => v \in lag.dav \/ (v = u /\ Withheld /\ job.at = 2)
    BY <1>1 DEF DisabledInv
  <1>2. 0 \notin told /\ lastPw + 1 \notin told
    BY <1>0
  <1>3. CASE Silent
    <2>1. /\ pw' = pw /\ davPw' = davPw /\ told' = told /\ given' = given
          /\ disabled' = disabled /\ lag.dav \subseteq lag'.dav
      BY <1>3 DEF Silent, Begun, Ended, WentOn, Still, Stopped, Joined, Left, GroupAdded,
         GroupDeleted, RulesRebuilt, DavOnly, FileWasRead, FileWritten, FileDropped, CalOnly,
         StillDirectory, StillFiles, StillSecrets, StillRest
    <2>2. ~(Withheld /\ job.at = 2)
      BY <1>3 DEF Silent, Begun, Ended, WentOn, Stopped, Joined, Left, GroupAdded,
         GroupDeleted, RulesRebuilt, FileWasRead, FileWritten, FileDropped, Is, Withheld
    <2>3. Withheld' => Withheld /\ u' = u
      <3>1. job' = Idle => ~Withheld'
        BY NoJob DEF Withheld
      <3>2. Begun => ~Withheld'
        BY DEF Begun, Withheld
      <3> QED
        BY <1>3, <3>1, <3>2 DEF Silent, Ended, WentOn, Stopped, Joined, Left, GroupAdded,
           GroupDeleted, RulesRebuilt, FileWasRead, FileWritten, FileDropped, On, Kept, Is,
           Withheld, u
    <2> QED
      BY <1>1, <2>1, <2>2, <2>3
  <1>4. CASE PasswordSet
    <2>1. /\ pw' = [pw EXCEPT ![u] = lastPw + 1] /\ davPw' = davPw /\ disabled' = disabled
          /\ lag' = lag /\ u' = u /\ ~Withheld
          /\ \/ /\ given' = given \union {u} /\ ~Withheld'
                /\ told' \in {told, told \union {lastPw + 1}}
             \/ given' = given \ {u} /\ told' = told /\ Withheld' /\ job'.at = 2
      BY <1>4 DEF PasswordSet, StillFiles, StillRest, On, Kept, Is, Withheld, u
    <2>2. CASE v = u
      BY <1>0, <1>2, <2>1, <2>2
    <2>3. CASE v # u
      BY <1>0, <1>1, <2>1, <2>3
    <2> QED
      BY <2>2, <2>3
  <1>5. CASE EntryDeleted
    <2>1. /\ pw' = [pw EXCEPT ![u] = 0] /\ davPw' = davPw /\ told' = told /\ given' = given
          /\ disabled' = disabled /\ lag' = lag /\ ~Withheld /\ ~Withheld'
      BY <1>5 DEF EntryDeleted, StillFiles, StillSecrets, StillRest, On, Kept, Is, Withheld
    <2> QED
      BY <1>0, <1>1, <1>2, <2>1
  <1>6. CASE LoginSynced \/ LoginRemoved
    <2>1. /\ pw' = pw /\ told' = told /\ given' = given /\ disabled' = disabled /\ u' = u
          /\ lag.dav \ {u} \subseteq lag'.dav
          /\ \/ davPw' = [davPw EXCEPT ![u] = pw[u]] \/ davPw' = [davPw EXCEPT ![u] = 0]
             \/ davPw' = davPw /\ u \in lag'.dav
          /\ Withheld' => Withheld
      BY <1>6 DEF LoginSynced, LoginRemoved, DavOnly, StillDirectory, StillSecrets, StillRest,
         On, Kept, Is, Withheld, u
    <2> QED
      BY <1>0, <1>1, <1>2, <2>1
  <1>7. CASE Marked
    <2>1. /\ pw' = pw /\ davPw' = davPw /\ told' = told /\ given' = given /\ lag' = lag
          /\ disabled' \subseteq disabled \union {u} /\ Withheld /\ job.at # 2 /\ job' = Idle
      BY <1>0, <1>7 DEF Marked, StillDirectory, StillFiles, StillSecrets, Is, Withheld
    <2>2. ~Withheld'
      BY <2>1, NoJob DEF Withheld
    <2> QED
      BY <1>1, <2>1, <2>2
  <1>8. CASE Cleared
    <2>1. /\ pw' = pw /\ davPw' = davPw /\ told' = told /\ given' = given /\ lag' = lag
          /\ disabled' \subseteq disabled /\ job.at # 2
      BY <1>8 DEF Cleared, StillDirectory, StillFiles, StillSecrets, Is
    <2>2. Withheld' => Withheld /\ u' = u
      BY <1>8, NoJob DEF Cleared, On, Kept, Is, Withheld, u
    <2> QED
      BY <1>1, <2>1, <2>2
  <1>9. CASE Shown
    <2>1. /\ pw' = pw /\ davPw' = davPw /\ told' = told \union {pw[u]} /\ given' = given
          /\ disabled' = disabled /\ lag' = lag /\ job' = Idle /\ job.at # 2 /\ ~DavOpen
      BY <1>9 DEF Shown, StillDirectory, StillFiles, StillRest, Is, DavOpen
    <2>2. ~Withheld'
      BY <2>1, NoJob DEF Withheld
    <2>3. v # u /\ pw[u] # 0
      BY <1>9, <2>1, <2>2 DEF Shown, Is, PasswordInv, Gave, Withheld
    <2>4. pw[v] # pw[u]
      BY <1>0, <2>3 DEF DirectoryInv
    <2>5. v \in lag.dav \/ davPw[v] \in {0, pw[v]}
      BY <2>1, <2>3 DEF LoginsInv
    <2> QED
      BY <1>1, <2>1, <2>2, <2>3, <2>4, <2>5
  <1>10. CASE SignedInOrOut
    <2>1. /\ pw' = pw /\ davPw' = davPw /\ told' = told /\ given' = given
          /\ disabled' = disabled /\ lag' = lag /\ job' = job
      BY <1>10 DEF SignedInOrOut, StillDirectory, StillSecrets
    <2> QED
      BY <1>1, <2>1 DEF Withheld, u
  <1> QED
    BY <1>3, <1>4, <1>5, <1>6, <1>7, <1>8, <1>9, <1>10 DEF Effect, Silent

----------------------------------------------------------------------------
(* Every reachable state satisfies the invariant.                          *)

\* The program starts in a state that satisfies the invariant.
LEMMA Starts == Init => AccountsInv
  <1> SUFFICES ASSUME Init PROVE AccountsInv
    OBVIOUS
  <1> DEFINE v == CHOOSE w \in Users : TRUE
             h == CHOOSE k \in Groups : TRUE
  <1>1. v \in Users /\ h \in Groups
    BY Bounds
  <1>2. /\ pw = [Empty EXCEPT ![v] = 1] /\ groups = {h}
        /\ member = [k \in Groups |-> IF k = h THEN {v} ELSE {}]
        /\ davPw = pw /\ denied = [w \in Users |-> {}] /\ folders = {v, h}
        /\ calPw = Empty /\ calendars = {} /\ sessions = {} /\ disabled = {}
        /\ stopped = {} /\ stops = 0
        /\ flaky \in Services \union {"none"} /\ job = Idle /\ signIn = Away
        /\ lastPw = 1 /\ asked = 0 /\ signed = 0 /\ told = {1} /\ given = {}
        /\ lag = [dav |-> {}, cal |-> {}, rules |-> FALSE]
    BY Zenon DEF Init
  <1> HIDE DEF v, h
  <1>3. /\ 0 \in Passwords /\ 1 \in Passwords /\ 0 \in 0 .. MaxRequests /\ 0 \in 0 .. MaxSignIns
        /\ 0 \in 0 .. MaxStops /\ 1 \in Nat
    BY Bounds DEF Passwords
  <1>4. /\ job \in Jobs /\ job.op = "none" /\ signIn \in SignIns /\ signIn.pc = "away"
        /\ calPw \in [Users -> Passwords] /\ \A w \in Users : calPw[w] = 0
    BY <1>2, NoJob
  <1>5. JobInv
    <2>1. ~Idle.typed
      BY Zenon DEF Idle
    <2>2. ~job.typed
      BY <1>2, <2>1, Zenon
    <2> QED
      BY <1>4, <2>2 DEF JobInv
  <1>6. /\ pw \in [Users -> Passwords]
        /\ \A w \in Users : pw[w] = IF w = v THEN 1 ELSE 0
    BY <1>1, <1>2, <1>3, <1>4
  <1>7. DirectoryInv
    BY <1>1, <1>2, <1>3, <1>6 DEF DirectoryInv
  <1>8. ServersInv
    BY <1>1, <1>2, <1>3, <1>4, <1>6 DEF ServersInv
  <1>9. BoundsInv
    <2>1. told \subseteq 1 .. lastPw
      BY <1>2
    <2>2. lag \in Lags /\ {} \subseteq Users
      <3>1. {} \in SUBSET Users /\ FALSE \in BOOLEAN
        OBVIOUS
      <3> QED
        BY <1>2, <3>1, Zenon DEF Lags
    <2> QED
      BY <1>2, <1>3, <2>1, <2>2, Zenon DEF BoundsInv, Lags
  <1>10. LoginsInv
    BY <1>2, <1>4, <1>6 DEF LoginsInv, FileRead
  <1>11. RulesInv
    <2>1. Present = {v} /\ groups \ GroupsOf(v) = {}
      BY <1>1, <1>2, <1>6 DEF Present, GroupsOf
    <2> QED
      BY <2>1 DEF RulesInv, Confined
  <1>12. PasswordInv /\ DisabledInv
    BY <1>2, <1>4 DEF PasswordInv, DisabledInv, Gave, Withheld
  <1> QED
    BY <1>5, <1>7, <1>8, <1>9, <1>10, <1>11, <1>12 DEF AccountsInv

\* A step that changes nothing keeps it.
LEMMA Stutters == AccountsInv /\ UNCHANGED vars => AccountsInv'
  <1> SUFFICES ASSUME AccountsInv, UNCHANGED vars PROVE AccountsInv'
    OBVIOUS
  <1>1. /\ pw' = pw /\ groups' = groups /\ member' = member /\ davPw' = davPw
        /\ denied' = denied /\ folders' = folders /\ calPw' = calPw /\ calendars' = calendars
        /\ sessions' = sessions /\ disabled' = disabled /\ flaky' = flaky /\ job' = job
        /\ signIn' = signIn /\ lastPw' = lastPw /\ asked' = asked /\ signed' = signed
        /\ told' = told /\ given' = given /\ lag' = lag /\ stopped' = stopped
        /\ stops' = stops
    BY Zenon DEF vars, ldap, dav, cal, db, bounds, history
  <1>2. JobInv' /\ DirectoryInv' /\ ServersInv'
    BY <1>1 DEF AccountsInv, JobInv, DirectoryInv, ServersInv
  <1>3. BoundsInv'
    BY <1>1, Zenon DEF AccountsInv, BoundsInv
  <1>4. LoginsInv' /\ PasswordInv' /\ DisabledInv'
    BY <1>1 DEF AccountsInv, LoginsInv, PasswordInv, DisabledInv, DavOpen, CalOpen, FileRead,
       Gave, Withheld, u
  <1>5. RulesInv'
    BY <1>1 DEF AccountsInv, RulesInv, RulesOpen, Leaving, Confined, Present, Logins,
       GroupsOf, u
  <1> QED
    BY <1>2, <1>3, <1>4, <1>5 DEF AccountsInv

\* Every step keeps it.
LEMMA StepKeeps == AccountsInv /\ [Next]_vars => AccountsInv'
  <1>1. ASSUME AccountsInv, Next
        PROVE  AccountsInv'
    <2>1. /\ JobInv /\ DirectoryInv /\ ServersInv /\ BoundsInv /\ LoginsInv /\ RulesInv
          /\ PasswordInv /\ DisabledInv
      BY <1>1 DEF AccountsInv
    <2>2. Effect
      BY <1>1, <2>1, Effects
    <2>3. JobInv'
      BY <1>1, <2>1, <2>2, RequestsAreThere, RestIsTyped DEF JobInv
    <2>4. DirectoryInv' /\ ServersInv' /\ BoundsInv'
      BY <1>1, <2>1, <2>2, DirectoryStays, ServersStay, BoundsStay
    <2>5. LoginsInv' /\ RulesInv' /\ PasswordInv' /\ DisabledInv'
      BY <2>1, <2>2, LoginsStay, RulesStay, PasswordStays, DisabledStays
    <2> QED
      BY <2>3, <2>4, <2>5 DEF AccountsInv
  <1> QED
    BY <1>1, Stutters

\* The invariant holds in every state the program can be in.
LEMMA Invariance == Spec => []AccountsInv
  BY Starts, StepKeeps, PTL DEF Spec

----------------------------------------------------------------------------
(* The theorems.                                                           *)

\* Every variable keeps its type, a request is at a call of its handler, a
\* group that is not there has no members, and a password that was seen was set.
THEOREM AccountsTypeCorrect == Spec => []TypeOK
  <1>1. AccountsInv => TypeOK
    BY Zenon DEF AccountsInv, JobInv, DirectoryInv, ServersInv, BoundsInv, Jobs, SignIns, TypeOK
  <1> QED
    BY <1>1, Invariance, PTL

\* Between requests a login at the file share, and one at the calendar server
\* while nobody signs in beside them, has the directory's password or is gone,
\* whichever of create, reset, delete, disable and enable ran, unless a call of
\* the person's last request failed or found the module stopped (users.go keeps
\* the two in step with the directory call by call).
THEOREM LoginsStayInStep == Spec => []LoginsFollow
  <1>1. AccountsInv => LoginsFollow
    BY DEF AccountsInv, LoginsInv, LoginsFollow, Quiet, DavOpen, CalOpen
  <1> QED
    BY <1>1, Invariance, PTL

\* Between requests nobody's login at the file share reaches the folder of
\* someone else, or of a group they are not in, unless a request ended before
\* the rules were rebuilt, or found the module stopped (webdavfs/sync.go: "each
\* person stays confined to their own folder, their group's folder, and shared").
THEOREM FoldersStayConfined == Spec => []RulesConfine
  <1>1. AccountsInv => RulesConfine
    BY DEF AccountsInv, RulesInv, RulesConfine, Quiet, RulesOpen, Leaving, Confined
  <1> QED
    BY <1>1, Invariance, PTL

\* Who is marked disabled, and was given no password since, has a password
\* nobody has seen, in the directory and - unless the call to it failed or found
\* the module stopped - at the file share (users.go: "a value nobody is shown").
THEOREM DisabledAreOut == Spec => []DisabledStayOut
  <1>1. AccountsInv => DisabledStayOut
    BY DEF AccountsInv, ServersInv, DisabledInv, DisabledStayOut, Quiet, Withheld
  <1> QED
    BY <1>1, Invariance, PTL
============================================================================
