------------------------- MODULE VpnAccess_proofs -------------------------
(***************************************************************************)
(* Proofs about VpnAccess, for any users, requests, failing calls and      *)
(* bounds.                                                                 *)
(***************************************************************************)
EXTENDS VpnAccess, FiniteSetTheorems, TLAPS

----------------------------------------------------------------------------
(* The inductive invariant.                                                *)

Ops == {"none", "enable", "revoke", "approve", "remove", "two factor", "sync"}
Held == {"list all", "approve all", "drop default"}
PCs == {"idle", "read row", "delete old", "choose", "policy", "mfa on", "create key",
        "create login", "record", "list own", "delete own", "delete row", "read group",
        "write group", "remove", "save option", "mfa wanted", "mfa set"} \union Held

Jobs == [op : Ops, pc : PCs, user : Users, dev : Devices, on : BOOLEAN,
         seen : SUBSET (Grants \union Devices)]

\* What a request is about at each of its calls.
JobOK(r) ==
    /\ r.op = "none" <=> r.pc = "idle"
    /\ r.pc \in {"read row", "delete old"} => r.op \in {"enable", "revoke"}
    /\ r.pc \in {"choose", "mfa on", "create key", "create login", "record"} =>
          r.op = "enable"
    /\ r.pc \in {"list own", "delete own", "delete row"} => r.op = "revoke"
    /\ r.pc \in {"policy"} \union Held => r.op \in {"enable", "approve", "sync"}
    /\ r.pc \in {"read group", "write group"} => r.op = "approve"
    /\ r.pc = "remove" => r.op = "remove"
    /\ r.pc \in {"save option", "mfa wanted", "mfa set"} => r.op \in {"two factor", "sync"}
    /\ r.pc = "record" => \E g \in Grants : r.seen = {g} /\ g.user = r.user
    /\ r.pc \in {"approve all", "drop default", "write group"} => r.seen \subseteq Devices

JobsInv ==
    /\ job \in [Workers -> Jobs]
    /\ \A w \in Workers : JobOK(job[w])

\* The platform's rows and the account in NetBird.
TablesInv ==
    /\ access \in [Users -> SUBSET Grants]
    /\ \A u \in Users :
          access[u] = {} \/ \E g \in Grants : access[u] = {g} /\ g.user = u
    /\ grants \subseteq Grants /\ devices \subseteq Devices /\ approved \subseteq devices
    /\ policies \subseteq {"Default", "approved devices"}
    /\ admitted \subseteq Devices /\ blurred \subseteq Users
    /\ lastDevice \in 1 .. MaxDevices /\ \A d \in devices : d.id <= lastDevice

\* Nobody but the holder of the mutex moves the account over, and nobody approves
\* a device before that is done.
MoveInv ==
    /\ mu \in Workers \union {NoLock}
    /\ \A w \in Workers : mu = w <=> job[w].pc \in Held
    /\ \A w \in Workers : job[w].pc \in Held => "Default" \in policies
    /\ \A w \in Workers :
          job[w].pc \in {"read group", "write group"} => "Default" \notin policies
    /\ \A w \in Workers :
          /\ job[w].pc \in {"approve all", "drop default"} =>
                \A d \in job[w].seen : d.id <= lastDevice
          /\ job[w].pc = "drop default" => job[w].seen \intersect devices \subseteq approved

\* Who is approved was let in, and so is everyone on a list about to be written back.
AdmitInv ==
    /\ approved \subseteq admitted
    /\ \A w \in Workers :
          /\ job[w].op = "approve" => job[w].dev \in admitted
          /\ job[w].pc = "write group" => job[w].seen \subseteq admitted

Has(u) == {g \in grants : g.user = u}
Devs(u) == {d \in devices : d.user = u}

\* The user's grants are those of the row; nobody without a row joined since the
\* access policy was introduced.
RecordedOf(u) == Has(u) \subseteq access[u]
DevicesOf(u) == access[u] = {} => \A d \in Devs(u) : d.id = 1

\* The calls of a request that has taken the old grant away and made no new one.
Without == {"choose", "policy", "list all", "approve all", "drop default", "mfa on",
            "create key", "create login", "list own", "delete own", "delete row"}

\* How far the one request about its user has got.
BusyOK(w) ==
    LET u == job[w].user IN
    /\ job[w].pc \in {"read row", "delete old"} => RecordedOf(u) /\ DevicesOf(u)
    /\ job[w].pc = "delete old" => job[w].seen = access[u]
    /\ job[w].pc \in Without => Has(u) = {} /\ DevicesOf(u)
    /\ job[w].pc = "delete own" => Devs(u) \subseteq job[w].seen
    /\ job[w].pc = "delete row" => Devs(u) = {}
    /\ job[w].pc = "record" => Has(u) \subseteq job[w].seen

AccessInv ==
    \A u \in Users \ blurred :
        /\ \A v, w \in Busy(u) : v = w
        /\ \A w \in Busy(u) : BusyOK(w)
        /\ Busy(u) = {} => RecordedOf(u) /\ DevicesOf(u)

BoundsInv ==
    /\ twoFactor \in BOOLEAN /\ mfa \in BOOLEAN
    /\ failing \in Flaky \union {"nothing"}
    /\ asked \in 0 .. MaxRequests /\ lastGrant \in 0 .. MaxGrants

VpnInv == JobsInv /\ TablesInv /\ MoveInv /\ AdmitInv /\ AccessInv /\ BoundsInv

----------------------------------------------------------------------------
(* The helpers.                                                            *)

\* The bounds are numbers, somebody is a user, and nobody is no request.
LEMMA Bounds ==
    /\ MaxGrants \in Nat /\ MaxDevices \in Nat \ {0} /\ MaxRequests \in Nat
    /\ AnyUser \in Users /\ NoLock \notin Workers
  BY VpnConstants DEF AnyUser, NoLock

\* The names of the requests and of their calls.
LEMMA Names ==
    /\ "none" \in Ops /\ "enable" \in Ops /\ "revoke" \in Ops /\ "approve" \in Ops
    /\ "remove" \in Ops /\ "two factor" \in Ops /\ "sync" \in Ops
    /\ "idle" \in PCs /\ "read row" \in PCs /\ "delete old" \in PCs /\ "choose" \in PCs
    /\ "policy" \in PCs /\ "mfa on" \in PCs /\ "create key" \in PCs
    /\ "create login" \in PCs /\ "record" \in PCs /\ "list own" \in PCs
    /\ "delete own" \in PCs /\ "delete row" \in PCs /\ "read group" \in PCs
    /\ "write group" \in PCs /\ "remove" \in PCs /\ "save option" \in PCs
    /\ "mfa wanted" \in PCs /\ "mfa set" \in PCs /\ "list all" \in PCs
    /\ "approve all" \in PCs /\ "drop default" \in PCs
  BY DEF Ops, PCs, Held

\* What the parts of a request are.
LEMMA JobParts ==
    \A r \in Jobs :
        /\ r.op \in Ops /\ r.pc \in PCs /\ r.user \in Users /\ r.dev \in Devices
        /\ r.on \in BOOLEAN /\ r.seen \in SUBSET (Grants \union Devices)
  BY Zenon DEF Jobs

\* No request is one.
LEMMA NoJob ==
    /\ Idle \in Jobs /\ JobOK(Idle)
    /\ Idle.op = "none" /\ Idle.pc = "idle"
  <1> DEFINE d == [id |-> 0, user |-> AnyUser]
  <1>1. d \in Devices
    BY Bounds DEF Devices
  <1>2. Idle.op = "none" /\ Idle.pc = "idle"
    BY Zenon DEF Idle
  <1>3. Idle \in Jobs
    <2>1. FALSE \in BOOLEAN /\ {} \in SUBSET (Grants \union Devices)
      OBVIOUS
    <2>2. Idle = [op |-> "none", pc |-> "idle", user |-> AnyUser, dev |-> d, on |-> FALSE,
                  seen |-> {}]
      BY Zenon DEF Idle
    <2> HIDE DEF d
    <2> QED
      BY <1>1, <2>1, <2>2, Names, Bounds, Zenon DEF Jobs
  <1> QED
    BY <1>2, <1>3 DEF JobOK, Held

\* How a request goes on: with what it has, with what it has just read, or not.
Same(w) == job'[w] \in Jobs /\ job'[w].op = job[w].op /\ job'[w].user = job[w].user
           /\ job'[w].dev = job[w].dev
Went(w, pc) == Same(w) /\ job'[w].pc = pc /\ job'[w].seen = job[w].seen
Saw(w, pc, what) == Same(w) /\ job'[w].pc = pc /\ job'[w].seen = what

\* What the request of a worker is after each of the three.
LEMMA JobMoves ==
    ASSUME JobsInv, NEW w \in Workers
    PROVE  /\ \A p \in PCs : Goto(w, p) => Went(w, p)
           /\ \A p \in PCs, S \in SUBSET (Grants \union Devices) : See(w, p, S) => Saw(w, p, S)
           /\ Done(w) => job'[w] = Idle
           /\ (\E p : Goto(w, p)) \/ (\E p, S : See(w, p, S)) \/ Done(w) =>
                \E r : job' = [job EXCEPT ![w] = r]
  <1>0. job \in [Workers -> Jobs] /\ job[w] \in Jobs
    BY DEF JobsInv
  <1>1. ASSUME NEW p \in PCs, Goto(w, p) PROVE Went(w, p)
    <2>1. job'[w] = [job[w] EXCEPT !.pc = p]
      BY <1>0, <1>1, Zenon DEF Goto, Jobs
    <2> QED
      BY <1>0, <2>1 DEF Jobs, Went, Same
  <1>2. ASSUME NEW p \in PCs, NEW S \in SUBSET (Grants \union Devices), See(w, p, S)
        PROVE  Saw(w, p, S)
    <2>1. job'[w] = [job[w] EXCEPT !.pc = p, !.seen = S]
      BY <1>0, <1>2, Zenon DEF See, Jobs
    <2> QED
      BY <1>0, <2>1 DEF Jobs, Saw, Same
  <1>3. Done(w) => job'[w] = Idle
    BY <1>0 DEF Done
  <1>4. (\E p : Goto(w, p)) \/ (\E p, S : See(w, p, S)) \/ Done(w) =>
           \E r : job' = [job EXCEPT ![w] = r]
    BY Zenon DEF Goto, See, Done
  <1> QED
    BY <1>1, <1>2, <1>3, <1>4

----------------------------------------------------------------------------
(* What the calls do to the request, the rows and the account.             *)

StillAccount == grants' = grants /\ devices' = devices /\ approved' = approved
StillPolicy  == policies' = policies /\ mu' = mu
StillHistory == admitted' = admitted /\ blurred' = blurred

Begun(w) ==
    /\ job[w].op = "none" /\ job'[w] \in Jobs /\ JobOK(job'[w])
    /\ access' = access /\ StillAccount /\ StillPolicy
    /\ \/ /\ job'[w].op \in {"enable", "revoke"} /\ job'[w].pc = "read row"
          /\ admitted' = admitted
          /\ blurred' = IF Busy(job'[w].user) = {} THEN blurred
                        ELSE blurred \union {job'[w].user}
       \/ /\ job'[w].op = "approve" /\ job'[w].pc = "policy" /\ job'[w].dev \in devices
          /\ admitted' = admitted \union {job'[w].dev} /\ blurred' = blurred
       \/ /\ job'[w].op \in {"remove", "two factor", "sync"}
          /\ job'[w].pc \in {"remove", "save option", "policy"} /\ StillHistory

\* An error, after some of the devices on a list to be deleted are gone.
Failed(w) ==
    /\ job'[w] = Idle /\ Blur(w) /\ admitted' = admitted
    /\ access' = access /\ grants' = grants /\ policies' = policies
    /\ \E gone \in SUBSET Devices :
          devices' = devices \ gone /\ approved' = approved \ gone
    /\ mu' = IF job[w].pc \in Held THEN NoLock ELSE mu

RowRead(w) ==
    /\ job[w].pc = "read row" /\ access' = access /\ StillAccount /\ StillPolicy
    /\ \/ Saw(w, "delete old", access[job[w].user]) /\ StillHistory
       \/ Saw(w, "delete old", {}) /\ Blur(w) /\ admitted' = admitted

OldDeleted(w) ==
    /\ job[w].pc = "delete old" /\ access' = access /\ StillPolicy
    /\ devices' = devices /\ approved' = approved
    /\ Went(w, IF job[w].op = "enable" THEN "choose" ELSE "list own")
    /\ \/ grants' = grants \ job[w].seen /\ StillHistory
       \/ Blur(w) /\ grants' = grants /\ admitted' = admitted

\* The calls that only go on, or only read.
Quiet(w) ==
    /\ access' = access /\ StillAccount /\ StillPolicy /\ StillHistory
    /\ \/ /\ job[w].pc = "choose"
          /\ \E pc \in {"policy", "create key"} : Went(w, pc)
       \/ job[w].pc = "mfa on" /\ Went(w, "create login")
       \/ job[w].pc = "save option" /\ Went(w, "mfa wanted")
       \/ job[w].pc = "mfa wanted" /\ Went(w, "mfa set")
       \/ job[w].pc = "list own" /\ Saw(w, "delete own", Devs(job[w].user))
       \/ job[w].pc = "list all" /\ Saw(w, "approve all", devices)
       \/ job[w].pc = "read group" /\ Saw(w, "write group", approved)

Made(w) ==
    /\ job[w].pc \in {"create key", "create login"}
    /\ access' = access /\ StillPolicy /\ StillHistory
    /\ devices' = devices /\ approved' = approved
    /\ \E g \in Grants :
          g.user = job[w].user /\ grants' = grants \union {g} /\ Saw(w, "record", {g})

\* The row is written.
Wrote(w) ==
    /\ job'[w] = Idle /\ StillAccount /\ StillPolicy /\ StillHistory
    /\ \/ /\ job[w].pc = "record"
          /\ access' = [access EXCEPT ![job[w].user] = job[w].seen]
       \/ job[w].pc = "delete row" /\ access' = [access EXCEPT ![job[w].user] = {}]

OwnDeleted(w) ==
    /\ job[w].pc = "delete own" /\ Went(w, "delete row")
    /\ access' = access /\ grants' = grants /\ StillPolicy /\ StillHistory
    /\ devices' = devices \ job[w].seen /\ approved' = approved \ job[w].seen

\* The last call of a request that changes no user's access.
Ended(w) ==
    /\ job'[w] = Idle /\ access' = access /\ grants' = grants
    /\ StillPolicy /\ StillHistory
    /\ \/ /\ job[w].pc \in {"read group", "write group", "remove", "mfa set"}
          /\ devices' = devices /\ approved' = approved
       \/ /\ job[w].pc = "write group" /\ devices' = devices
          /\ approved' = (job[w].seen \union {job[w].dev}) \intersect devices
       \/ /\ job[w].pc = "remove" /\ devices' = devices \ {job[w].dev}
          /\ approved' = approved \ {job[w].dev}

\* Where a request goes on after the access policy.
After(w) ==
    \E pc \in PCs :
        /\ Went(w, pc)
        /\ \/ job[w].op = "enable" /\ pc = "mfa on"
           \/ job[w].op = "approve" /\ pc = "read group"
           \/ job[w].op = "sync" /\ pc = "mfa wanted"

PolicyMade(w) ==
    /\ job[w].pc = "policy" /\ mu = NoLock
    /\ access' = access /\ StillAccount /\ StillHistory
    /\ policies' = policies \union {"approved devices"}
    /\ \/ "Default" \in policies /\ mu' = w /\ Went(w, "list all")
       \/ "Default" \notin policies /\ mu' = mu /\ After(w)

AllApproved(w) ==
    /\ job[w].pc = "approve all" /\ Went(w, "drop default")
    /\ access' = access /\ grants' = grants /\ devices' = devices
    /\ StillPolicy /\ blurred' = blurred
    /\ approved' = job[w].seen \intersect devices
    /\ admitted' = IF "Default" \in policies THEN admitted \union job[w].seen ELSE admitted

DefaultDropped(w) ==
    /\ job[w].pc = "drop default" /\ After(w) /\ mu' = NoLock
    /\ access' = access /\ StillAccount /\ StillHistory
    /\ policies' = policies \ {"Default"}

Effect(w) ==
    \/ Begun(w) \/ Failed(w) \/ RowRead(w) \/ OldDeleted(w) \/ Quiet(w) \/ Made(w)
    \/ Wrote(w) \/ OwnDeleted(w) \/ Ended(w) \/ PolicyMade(w) \/ AllApproved(w)
    \/ DefaultDropped(w)

\* A worker's step is of no other's request, and enrols nobody.
Turn(w) ==
    /\ \A v \in Workers \ {w} : job'[v] = job[v]
    /\ job' \in [Workers -> Jobs] /\ lastDevice' = lastDevice

\* A request begins with the call the code makes first.
LEMMA Begins ==
    ASSUME JobsInv, TablesInv, NEW w \in Workers,
           \/ EnableUser(w) \/ DisableUser(w) \/ ApproveDevice(w) \/ RemoveDevice(w)
           \/ SaveTwoFactor(w) \/ Sync(w)
    PROVE  Begun(w)
  <1>0. job \in [Workers -> Jobs] /\ devices \subseteq Devices
    BY Zenon DEF JobsInv, TablesInv
  <1>1. ASSUME NEW r, Begin(w, r) PROVE job[w].op = "none" /\ job'[w] = r
    BY <1>0, <1>1, Zenon DEF Begin
  <1>2. CASE EnableUser(w) \/ DisableUser(w)
    <2>1. PICK u \in Users :
             /\ \/ Begin(w, [Idle EXCEPT !.op = "enable", !.pc = "read row", !.user = u])
                \/ Begin(w, [Idle EXCEPT !.op = "revoke", !.pc = "read row", !.user = u])
             /\ blurred' = IF Busy(u) = {} THEN blurred ELSE blurred \union {u}
             /\ UNCHANGED <<rows, account, mu, admitted>>
      BY <1>2, Zenon DEF EnableUser, DisableUser
    <2>2. /\ job[w].op = "none"
          /\ \/ job'[w] = [Idle EXCEPT !.op = "enable", !.pc = "read row", !.user = u]
             \/ job'[w] = [Idle EXCEPT !.op = "revoke", !.pc = "read row", !.user = u]
      BY <2>1, <1>1
    <2>3. /\ job'[w].op \in {"enable", "revoke"} /\ job'[w].pc = "read row"
          /\ job'[w].user = u /\ job'[w] \in Jobs
      BY <2>2, NoJob, Names DEF Jobs
    <2>4. JobOK(job'[w])
      BY <2>3 DEF JobOK, Held
    <2> QED
      BY <2>1, <2>2, <2>3, <2>4
      DEF Begun, rows, account, StillAccount, StillPolicy, StillHistory
  <1>3. CASE ApproveDevice(w)
    <2>1. PICK d \in devices :
             /\ Begin(w, [Idle EXCEPT !.op = "approve", !.pc = "policy", !.dev = d])
             /\ admitted' = admitted \union {d}
             /\ UNCHANGED <<rows, account, mu, blurred>>
      BY <1>3, Zenon DEF ApproveDevice
    <2>2. /\ job[w].op = "none"
          /\ job'[w] = [Idle EXCEPT !.op = "approve", !.pc = "policy", !.dev = d]
      BY <2>1, <1>1
    <2>3. /\ job'[w].op = "approve" /\ job'[w].pc = "policy" /\ job'[w].dev = d
          /\ job'[w] \in Jobs
      BY <2>2, <1>0, NoJob, Names DEF Jobs
    <2>4. JobOK(job'[w])
      BY <2>3 DEF JobOK, Held
    <2> QED
      BY <2>1, <2>2, <2>3, <2>4
      DEF Begun, rows, account, StillAccount, StillPolicy, StillHistory
  <1>4. CASE RemoveDevice(w) \/ SaveTwoFactor(w) \/ Sync(w)
    <2>1. UNCHANGED <<rows, account, mu, history>>
      BY <1>4, Zenon DEF RemoveDevice, SaveTwoFactor, Sync
    <2>2. /\ job[w].op = "none"
          /\ \/ \E d \in devices :
                   job'[w] = [Idle EXCEPT !.op = "remove", !.pc = "remove", !.dev = d]
             \/ \E on \in BOOLEAN :
                   job'[w] = [Idle EXCEPT !.op = "two factor", !.pc = "save option", !.on = on]
             \/ job'[w] = [Idle EXCEPT !.op = "sync", !.pc = "policy"]
      BY <1>4, <1>1, Zenon DEF RemoveDevice, SaveTwoFactor, Sync
    <2>3. /\ job'[w] \in Jobs
          /\ \/ job'[w].op = "remove" /\ job'[w].pc = "remove"
             \/ job'[w].op = "two factor" /\ job'[w].pc = "save option"
             \/ job'[w].op = "sync" /\ job'[w].pc = "policy"
      BY <2>2, <1>0, NoJob, Names DEF Jobs
    <2>4. JobOK(job'[w])
      BY <2>3 DEF JobOK, Held
    <2> QED
      BY <2>1, <2>2, <2>3, <2>4
      DEF Begun, rows, account, history, StillAccount, StillPolicy, StillHistory
  <1> QED
    BY <1>2, <1>3, <1>4

\* Each step changes the request of its worker, to a request, and enrols nobody.
LEMMA Turns ==
    ASSUME JobsInv, TablesInv, NEW w \in Workers, Step(w), job'[w] \in Jobs
    PROVE  Turn(w)
  <1>1. \E r : job' = [job EXCEPT ![w] = r]
    BY Zenon DEF Step, Begin, EnableUser, DisableUser, ApproveDevice, RemoveDevice,
         SaveTwoFactor, Sync, ReadRow, DeleteOld, Choose, TurnMfaOn, CreateSetupKey,
         CreateLocalUser, NewGrant, Record, ListOwn, DeleteOwn, DeleteRow, ReadGroup,
         WriteGroup, DeletePeer, SaveOption, ReadWanted, SetMfa, Policy, ListAll,
         ApproveAll, DropDefault, Goto, See, Done, Fail, AfterPolicy
  <1>2. lastDevice' = lastDevice
    BY Zenon DEF Step, Begin, EnableUser, DisableUser, ApproveDevice, RemoveDevice,
         SaveTwoFactor, Sync, ReadRow, DeleteOld, Choose, TurnMfaOn, CreateSetupKey,
         CreateLocalUser, NewGrant, Record, ListOwn, DeleteOwn, DeleteRow, ReadGroup,
         WriteGroup, DeletePeer, SaveOption, ReadWanted, SetMfa, Policy, ListAll,
         ApproveAll, DropDefault, bounds
  <1>3. job \in [Workers -> Jobs]
    BY DEF JobsInv
  <1> QED
    BY <1>1, <1>2, <1>3 DEF Turn

\* A call that fails ends the request.
LEMMA Failures ==
    ASSUME JobsInv, NEW w \in Workers, NEW what, Fail(w, what),
           access' = access, grants' = grants, policies' = policies,
           \/ devices' = devices /\ approved' = approved
           \/ \E gone \in SUBSET Devices : DeletePeers(gone),
           mu' = IF job[w].pc \in Held THEN NoLock ELSE mu
    PROVE  Failed(w)
  <1>1. job'[w] = Idle /\ Blur(w) /\ admitted' = admitted
    BY JobMoves DEF Fail
  <1>2. \E gone \in SUBSET Devices : devices' = devices \ gone /\ approved' = approved \ gone
    <2>1. CASE devices' = devices /\ approved' = approved
      <3>1. devices' = devices \ {} /\ approved' = approved \ {}
        BY <2>1
      <3> QED
        BY <3>1
    <2> QED
      BY <2>1 DEF DeletePeers
  <1> QED
    BY <1>1, <1>2 DEF Failed

\* Every step of a worker has one of the effects.
LEMMA Effects ==
    ASSUME JobsInv, TablesInv, BoundsInv, NEW w \in Workers, Step(w)
    PROVE  Effect(w)
  <1>0. /\ job \in [Workers -> Jobs] /\ job[w] \in Jobs /\ JobOK(job[w])
        /\ access[job[w].user] \subseteq Grants
        /\ devices \subseteq Devices /\ approved \subseteq devices
        /\ job[w].user \in Users /\ job[w].seen \subseteq Grants \union Devices
    BY DEF JobsInv, TablesInv, Jobs
  <1>1. CASE \/ EnableUser(w) \/ DisableUser(w) \/ ApproveDevice(w) \/ RemoveDevice(w)
             \/ SaveTwoFactor(w) \/ Sync(w)
    BY <1>1, Begins DEF Effect
  <1>2. CASE ReadRow(w)
    <2>1. /\ job[w].pc = "read row" /\ UNCHANGED <<rows, account, mu, bounds>>
          /\ \/ See(w, "delete old", access[job[w].user]) /\ UNCHANGED history
             \/ See(w, "delete old", {}) /\ Blur(w) /\ UNCHANGED admitted
             \/ Fail(w, "netbird")
      BY <1>2, Zenon DEF ReadRow
    <2>2. CASE Fail(w, "netbird")
      BY <2>1, <2>2, Failures DEF Effect, rows, account, Held
    <2>3. CASE See(w, "delete old", access[job[w].user]) /\ UNCHANGED history
      BY <1>0, <2>1, <2>3, JobMoves, Names
      DEF Effect, RowRead, rows, account, history, StillAccount, StillPolicy, StillHistory
    <2>4. CASE See(w, "delete old", {}) /\ Blur(w) /\ UNCHANGED admitted
      BY <1>0, <2>1, <2>4, JobMoves, Names
      DEF Effect, RowRead, rows, account, StillAccount, StillPolicy
    <2> QED
      BY <2>1, <2>2, <2>3, <2>4
  <1>3. CASE DeleteOld(w)
    BY <1>0, <1>3, JobMoves, Names
    DEF DeleteOld, DeleteGrants, Effect, OldDeleted, rows, history, StillPolicy, StillHistory
  <1>4. CASE Choose(w)
    <2>1. /\ job[w].pc = "choose" /\ UNCHANGED <<rows, account, mu, history>>
          /\ Goto(w, "policy") \/ Goto(w, "create key")
      BY <1>4, Zenon DEF Choose
    <2> QED
      BY <1>0, <2>1, JobMoves, Names
      DEF Effect, Quiet, rows, account, history, StillAccount, StillPolicy, StillHistory
  <1>5. CASE TurnMfaOn(w)
    <2>1. /\ job[w].pc = "mfa on"
          /\ UNCHANGED <<rows, grants, devices, approved, policies, mu>>
          /\ \/ Goto(w, "create login") /\ UNCHANGED history
             \/ Fail(w, "netbird")
      BY <1>5, Zenon DEF TurnMfaOn
    <2>2. CASE Fail(w, "netbird")
      BY <2>1, <2>2, Failures DEF Effect, rows, Held
    <2>3. CASE Goto(w, "create login") /\ UNCHANGED history
      BY <1>0, <2>1, <2>3, JobMoves, Names
      DEF Effect, Quiet, rows, history, StillAccount, StillPolicy, StillHistory
    <2> QED
      BY <2>1, <2>2, <2>3
  <1>6. CASE CreateSetupKey(w) \/ CreateLocalUser(w)
    <2>1. PICK login \in BOOLEAN :
             NewGrant(w, login) /\ job[w].pc \in {"create key", "create login"}
      BY <1>6, Zenon DEF CreateSetupKey, CreateLocalUser
    <2>2. UNCHANGED <<rows, devices, approved, policies, mu>>
      BY <2>1, Zenon DEF NewGrant
    <2>3. CASE Fail(w, "netbird") /\ UNCHANGED grants
      BY <2>1, <2>2, <2>3, Failures DEF Effect, rows, Held
    <2>4. CASE /\ lastGrant < MaxGrants /\ UNCHANGED history
               /\ LET g == [id |-> lastGrant + 1, user |-> job[w].user, login |-> login]
                  IN grants' = grants \union {g} /\ See(w, "record", {g})
      <3> DEFINE g == [id |-> lastGrant + 1, user |-> job[w].user, login |-> login]
      <3>1. lastGrant + 1 \in 1 .. MaxGrants
        BY <2>4, BoundsInv, Bounds DEF BoundsInv
      <3>2. g \in Grants /\ g.user = job[w].user
        BY <3>1, <1>0, Zenon DEF Grants
      <3>3. grants' = grants \union {g} /\ See(w, "record", {g})
        BY <2>4
      <3> HIDE DEF g
      <3>4. Saw(w, "record", {g})
        BY <3>2, <3>3, JobMoves, Names
      <3>5. access' = access /\ StillPolicy /\ StillHistory
        BY <2>2, <2>4 DEF rows, history, StillPolicy, StillHistory
      <3>6. \E n \in Grants :
               n.user = job[w].user /\ grants' = grants \union {n} /\ Saw(w, "record", {n})
        BY <3>2, <3>3, <3>4
      <3>7. Made(w)
        BY <2>1, <2>2, <3>5, <3>6 DEF Made
      <3> QED
        BY <3>7 DEF Effect
    <2> QED
      BY <2>1, <2>3, <2>4, Zenon DEF NewGrant
  <1>7. CASE Record(w) \/ DeleteRow(w)
    <2>1. /\ UNCHANGED <<twoFactor, account, mu>>
          /\ \/ /\ job[w].pc = "record" /\ Done(w) /\ UNCHANGED history
                /\ access' = [access EXCEPT ![job[w].user] = job[w].seen]
             \/ /\ job[w].pc = "delete row" /\ Done(w) /\ UNCHANGED history
                /\ access' = [access EXCEPT ![job[w].user] = {}]
             \/ /\ job[w].pc \in {"record", "delete row"}
                /\ Fail(w, "db") /\ UNCHANGED access
      BY <1>7, Zenon DEF Record, DeleteRow
    <2>2. CASE Fail(w, "db") /\ UNCHANGED access /\ job[w].pc \in {"record", "delete row"}
      BY <2>1, <2>2, Failures DEF Effect, account, Held
    <2>3. CASE Done(w) /\ UNCHANGED history
      BY <1>0, <2>1, <2>2, <2>3, JobMoves
      DEF Effect, Wrote, account, history, StillAccount, StillPolicy, StillHistory
    <2> QED
      BY <2>1, <2>2, <2>3
  <1>8. CASE ListOwn(w) \/ ListAll(w)
    <2>1. /\ UNCHANGED <<rows, account>>
          /\ \/ /\ job[w].pc = "list own" /\ UNCHANGED <<mu, history>>
                /\ See(w, "delete own", userVpnGroup(job[w].user))
             \/ /\ job[w].pc = "list all" /\ UNCHANGED <<mu, history>>
                /\ See(w, "approve all", devices)
             \/ job[w].pc = "list own" /\ Fail(w, "netbird") /\ UNCHANGED mu
             \/ job[w].pc = "list all" /\ Fail(w, "netbird") /\ mu' = NoLock
      BY <1>8, Zenon DEF ListOwn, ListAll
    <2>2. CASE Fail(w, "netbird") /\ \/ job[w].pc = "list own" /\ UNCHANGED mu
                                     \/ job[w].pc = "list all" /\ mu' = NoLock
      BY <2>1, <2>2, Failures DEF Effect, rows, account, Held
    <2>3. CASE /\ job[w].pc = "list own" /\ UNCHANGED <<mu, history>>
               /\ See(w, "delete own", userVpnGroup(job[w].user))
      <3>1. userVpnGroup(job[w].user) = Devs(job[w].user)
        BY DEF userVpnGroup, Devs
      <3>2. Devs(job[w].user) \in SUBSET (Grants \union Devices)
        BY <1>0 DEF Devs
      <3> QED
        BY <1>0, <2>1, <2>3, <3>1, <3>2, JobMoves, Names
        DEF Effect, Quiet, rows, account, history, StillAccount, StillPolicy, StillHistory
    <2>4. CASE /\ job[w].pc = "list all" /\ UNCHANGED <<mu, history>>
               /\ See(w, "approve all", devices)
      BY <1>0, <2>1, <2>4, JobMoves, Names
      DEF Effect, Quiet, rows, account, history, StillAccount, StillPolicy, StillHistory
    <2> QED
      BY <2>1, <2>2, <2>3, <2>4
  <1>9. CASE DeleteOwn(w)
    <2>1. PICK gone \in SUBSET job[w].seen :
             /\ DeletePeers(gone)
             /\ \/ gone = job[w].seen /\ Goto(w, "delete row") /\ UNCHANGED history
                \/ gone # job[w].seen /\ Fail(w, "netbird")
      BY <1>9, Zenon DEF DeleteOwn
    <2>2. job[w].pc = "delete own" /\ UNCHANGED <<rows, grants, policies, mu>>
      BY <1>9, Zenon DEF DeleteOwn
    <2>3. CASE Fail(w, "netbird")
      <3>1. DeletePeers(gone \intersect Devices)
        BY <1>0, <2>1 DEF DeletePeers
      <3> QED
        BY <2>2, <2>3, <3>1, Failures DEF Effect, rows, Held
    <2>4. CASE gone = job[w].seen /\ Goto(w, "delete row") /\ UNCHANGED history
      BY <1>0, <2>1, <2>2, <2>4, JobMoves, Names
      DEF Effect, OwnDeleted, DeletePeers, rows, history, StillPolicy, StillHistory
    <2> QED
      BY <2>1, <2>3, <2>4
  <1>10. CASE ReadGroup(w)
    <2>1. /\ job[w].pc = "read group" /\ UNCHANGED <<rows, account, mu, history>>
          /\ Done(w) \/ See(w, "write group", approved)
      BY <1>10, Zenon DEF ReadGroup
    <2>2. CASE Done(w)
      BY <1>0, <2>1, <2>2, JobMoves
      DEF Effect, Ended, rows, account, history, StillPolicy, StillHistory
    <2>3. CASE See(w, "write group", approved)
      BY <1>0, <2>1, <2>3, JobMoves, Names
      DEF Effect, Quiet, rows, account, history, StillAccount, StillPolicy, StillHistory
    <2> QED
      BY <2>1, <2>2, <2>3
  <1>11. CASE WriteGroup(w) \/ DeletePeer(w) \/ SetMfa(w)
    <2>1. job'[w] = Idle
      BY <1>11, JobMoves DEF WriteGroup, DeletePeer, SetMfa
    <2>2. /\ UNCHANGED <<rows, grants, policies, mu, history>>
          /\ \/ /\ job[w].pc \in {"write group", "remove", "mfa set"}
                /\ UNCHANGED <<devices, approved>>
             \/ /\ job[w].pc = "write group" /\ UNCHANGED devices
                /\ setGroupPeers(job[w].seen \union {job[w].dev})
             \/ job[w].pc = "remove" /\ DeletePeers({job[w].dev})
      BY <1>11, Zenon DEF WriteGroup, DeletePeer, SetMfa
    <2> QED
      BY <2>1, <2>2
      DEF Effect, Ended, rows, history, StillPolicy, StillHistory, setGroupPeers, DeletePeers
  <1>12. CASE SaveOption(w) \/ ReadWanted(w)
    <2>1. /\ UNCHANGED <<access, account, mu>>
          /\ \/ job[w].pc = "save option" /\ Goto(w, "mfa wanted") /\ UNCHANGED history
             \/ job[w].pc = "save option" /\ Fail(w, "db")
             \/ /\ job[w].pc = "mfa wanted" /\ UNCHANGED history
                /\ \E on \in BOOLEAN : job' = [job EXCEPT ![w].pc = "mfa set", ![w].on = on]
      BY <1>12, Zenon DEF SaveOption, ReadWanted, rows
    <2>2. CASE job[w].pc = "save option" /\ Fail(w, "db")
      BY <2>1, <2>2, Failures DEF Effect, account, Held
    <2>3. CASE job[w].pc = "save option" /\ Goto(w, "mfa wanted") /\ UNCHANGED history
      BY <1>0, <2>1, <2>3, JobMoves, Names
      DEF Effect, Quiet, account, history, StillAccount, StillPolicy, StillHistory
    <2>4. CASE /\ job[w].pc = "mfa wanted" /\ UNCHANGED history
               /\ \E on \in BOOLEAN : job' = [job EXCEPT ![w].pc = "mfa set", ![w].on = on]
      <3>1. PICK on \in BOOLEAN : job' = [job EXCEPT ![w].pc = "mfa set", ![w].on = on]
        BY <2>4
      <3>2. job'[w] = [job[w] EXCEPT !.pc = "mfa set", !.on = on]
        BY <1>0, <3>1, Zenon DEF Jobs
      <3>3. Went(w, "mfa set")
        BY <1>0, <3>2, Names DEF Jobs, Went, Same
      <3> QED
        BY <2>1, <2>4, <3>3
        DEF Effect, Quiet, account, history, StillAccount, StillPolicy, StillHistory
    <2> QED
      BY <2>1, <2>2, <2>3, <2>4
  <1>13. ASSUME AfterPolicy(w), job[w].pc \in {"policy"} \union Held PROVE After(w)
    <2>1. job[w].op \in {"enable", "approve", "sync"}
      BY <1>0, <1>13 DEF JobOK
    <2>2. \/ job[w].op = "enable" /\ Goto(w, "mfa on")
          \/ job[w].op = "approve" /\ Goto(w, "read group")
          \/ job[w].op = "sync" /\ Goto(w, "mfa wanted")
      BY <1>13, <2>1 DEF AfterPolicy
    <2> QED
      BY <2>2, JobMoves, Names DEF After
  <1>14. CASE Policy(w)
    <2>1. /\ job[w].pc = "policy" /\ mu = NoLock
          /\ UNCHANGED <<rows, grants, devices, approved>>
          /\ \/ /\ CreateAllowPolicy /\ UNCHANGED history
                /\ \/ "Default" \in policies /\ mu' = w /\ Goto(w, "list all")
                   \/ "Default" \notin policies /\ AfterPolicy(w) /\ UNCHANGED mu
             \/ Fail(w, "netbird") /\ UNCHANGED <<policies, mu>>
      BY <1>14, Zenon DEF Policy
    <2>2. CASE Fail(w, "netbird") /\ UNCHANGED <<policies, mu>>
      BY <2>1, <2>2, Failures DEF Effect, rows, Held
    <2>3. CASE /\ CreateAllowPolicy /\ UNCHANGED history
               /\ \/ "Default" \in policies /\ mu' = w /\ Goto(w, "list all")
                  \/ "Default" \notin policies /\ AfterPolicy(w) /\ UNCHANGED mu
      BY <1>0, <2>1, <2>3, <1>13, JobMoves, Names
      DEF Effect, PolicyMade, CreateAllowPolicy, rows, history, StillAccount, StillHistory
    <2> QED
      BY <2>1, <2>2, <2>3
  <1>15. CASE ApproveAll(w)
    <2>1. /\ job[w].pc = "approve all" /\ UNCHANGED <<rows, grants, devices, policies>>
          /\ \/ /\ setGroupPeers(job[w].seen) /\ Goto(w, "drop default")
                /\ admitted' = IF "Default" \in policies THEN admitted \union job[w].seen
                               ELSE admitted
                /\ UNCHANGED <<mu, blurred>>
             \/ Fail(w, "netbird") /\ mu' = NoLock /\ UNCHANGED approved
      BY <1>15, Zenon DEF ApproveAll
    <2>2. CASE Fail(w, "netbird") /\ mu' = NoLock /\ UNCHANGED approved
      BY <2>1, <2>2, Failures DEF Effect, rows, Held
    <2>3. CASE setGroupPeers(job[w].seen) /\ Goto(w, "drop default")
      <3>1. Went(w, "drop default")
        BY <2>3, JobMoves, Names
      <3>2. CASE UNCHANGED <<mu, blurred>>
        BY <2>1, <2>2, <2>3, <3>1, <3>2
        DEF Effect, AllApproved, setGroupPeers, rows, StillPolicy
      <3> QED
        BY <2>1, <2>2, <3>2
    <2> QED
      BY <2>1, <2>2, <2>3
  <1>16. CASE DropDefault(w)
    <2>1. /\ job[w].pc = "drop default" /\ mu' = NoLock
          /\ UNCHANGED <<rows, grants, devices, approved>>
          /\ \/ DeletePolicy /\ AfterPolicy(w) /\ UNCHANGED history
             \/ Fail(w, "netbird") /\ UNCHANGED policies
      BY <1>16, Zenon DEF DropDefault
    <2>2. CASE Fail(w, "netbird") /\ UNCHANGED policies
      BY <2>1, <2>2, Failures DEF Effect, rows, Held
    <2>3. CASE DeletePolicy /\ AfterPolicy(w) /\ UNCHANGED history
      BY <2>1, <2>3, <1>13
      DEF Effect, DefaultDropped, DeletePolicy, Held, rows, history, StillAccount,
          StillHistory
    <2> QED
      BY <2>1, <2>2, <2>3
  <1> QED
    BY <1>1, <1>2, <1>3, <1>4, <1>5, <1>6, <1>7, <1>8, <1>9, <1>10, <1>11, <1>12, <1>14,
       <1>15, <1>16 DEF Step

----------------------------------------------------------------------------
(* What each effect leaves of the invariant.                               *)

\* A step leaves a worker a request, and the request at one of its calls.
LEMMA JobsStep ==
    ASSUME JobsInv, TablesInv, NEW w \in Workers, Effect(w)
    PROVE  job'[w] \in Jobs /\ JobOK(job'[w])
  <1>0. /\ job[w] \in Jobs /\ JobOK(job[w])
        /\ devices \subseteq Devices /\ approved \subseteq devices
    BY DEF JobsInv, TablesInv
  <1>1. CASE Begun(w)
    BY <1>1 DEF Begun
  <1>2. CASE Failed(w) \/ Wrote(w) \/ Ended(w)
    BY <1>2, NoJob DEF Failed, Wrote, Ended
  <1>3. CASE RowRead(w)
    BY <1>0, <1>3 DEF RowRead, Saw, Same, JobOK, Held
  <1>4. CASE OldDeleted(w)
    BY <1>0, <1>4 DEF OldDeleted, Went, Same, JobOK, Held
  <1>5. CASE Quiet(w)
    BY <1>0, <1>5 DEF Quiet, Went, Saw, Same, JobOK, Held
  <1>6. CASE Made(w)
    BY <1>0, <1>6 DEF Made, Saw, Same, JobOK, Held
  <1>7. CASE OwnDeleted(w) \/ AllApproved(w)
    BY <1>0, <1>7 DEF OwnDeleted, AllApproved, Went, Same, JobOK, Held
  <1>8. ASSUME After(w), job[w].pc \in {"policy"} \union Held
        PROVE  job'[w] \in Jobs /\ JobOK(job'[w])
    BY <1>0, <1>8 DEF After, Went, Same, JobOK, Held
  <1>9. CASE PolicyMade(w)
    BY <1>0, <1>8, <1>9 DEF PolicyMade, Went, Same, JobOK, Held
  <1>10. CASE DefaultDropped(w)
    BY <1>8, <1>10 DEF DefaultDropped, Held
  <1> QED
    BY <1>1, <1>2, <1>3, <1>4, <1>5, <1>6, <1>7, <1>9, <1>10 DEF Effect

\* The rows and the account stay what they are: a row holds one grant of its user.
LEMMA TablesStep ==
    ASSUME JobsInv, TablesInv, NEW w \in Workers, Turn(w), Effect(w)
    PROVE  TablesInv'
  <1>0. /\ job[w] \in Jobs /\ JobOK(job[w]) /\ job[w].user \in Users
        /\ job[w].dev \in Devices
    BY DEF JobsInv, Jobs
  <1>1. ASSUME access' = access
        PROVE  /\ access' \in [Users -> SUBSET Grants]
               /\ \A u \in Users :
                     access'[u] = {} \/ \E g \in Grants : access'[u] = {g} /\ g.user = u
    BY <1>1 DEF TablesInv
  <1>2. ASSUME policies' = policies PROVE policies' \subseteq {"Default", "approved devices"}
    BY <1>2 DEF TablesInv
  <1>3. ASSUME StillAccount
        PROVE  /\ grants' \subseteq Grants
               /\ devices' \subseteq devices /\ approved' \subseteq devices'
    BY <1>3 DEF StillAccount, TablesInv
  <1>4. ASSUME StillHistory PROVE admitted' \subseteq Devices /\ blurred' \subseteq Users
    BY <1>4 DEF StillHistory, TablesInv
  <1>5. Blur(w) => blurred' \subseteq Users
    BY <1>0 DEF Blur, TablesInv
  <1>6. /\ access' \in [Users -> SUBSET Grants]
        /\ \A u \in Users :
              access'[u] = {} \/ \E g \in Grants : access'[u] = {g} /\ g.user = u
    <2>1. CASE Wrote(w)
      <3>1. CASE job[w].pc = "record" /\ access' = [access EXCEPT ![job[w].user] = job[w].seen]
        <4>1. PICK g \in Grants : job[w].seen = {g} /\ g.user = job[w].user
          BY <1>0, <3>1 DEF JobOK
        <4> QED
          BY <1>0, <3>1, <4>1 DEF TablesInv
      <3>2. CASE access' = [access EXCEPT ![job[w].user] = {}]
        BY <1>0, <3>2 DEF TablesInv
      <3> QED
        BY <2>1, <3>1, <3>2 DEF Wrote
    <2>2. CASE ~Wrote(w)
      BY <1>1, <2>2
      DEF Effect, Begun, Failed, RowRead, OldDeleted, Quiet, Made, OwnDeleted, Ended,
          PolicyMade, AllApproved, DefaultDropped
    <2> QED
      BY <2>1, <2>2
  <1>7. /\ grants' \subseteq Grants
        /\ devices' \subseteq devices /\ approved' \subseteq devices'
    <2>1. grants \subseteq Grants /\ approved \subseteq devices
      BY DEF TablesInv
    <2>2. CASE \/ Begun(w) \/ RowRead(w) \/ Quiet(w) \/ Wrote(w) \/ PolicyMade(w)
               \/ DefaultDropped(w)
      BY <1>3, <2>2 DEF Begun, RowRead, Quiet, Wrote, PolicyMade, DefaultDropped
    <2>3. CASE Failed(w)
      BY <2>1, <2>3 DEF Failed
    <2>4. CASE OldDeleted(w) \/ Made(w) \/ OwnDeleted(w)
      BY <2>1, <2>4 DEF OldDeleted, Made, OwnDeleted
    <2>5. CASE Ended(w) \/ AllApproved(w)
      BY <2>1, <2>5 DEF Ended, AllApproved
    <2> QED
      BY <2>2, <2>3, <2>4, <2>5 DEF Effect
  <1>8. policies' \subseteq {"Default", "approved devices"}
    <2>1. CASE PolicyMade(w)
      BY <2>1 DEF PolicyMade, TablesInv
    <2>2. CASE DefaultDropped(w)
      BY <2>2 DEF DefaultDropped, TablesInv
    <2>3. CASE ~PolicyMade(w) /\ ~DefaultDropped(w)
      <3>1. policies' = policies
        BY <2>3, Zenon
        DEF Effect, Begun, Failed, RowRead, OldDeleted, Quiet, Made, Wrote, OwnDeleted, Ended,
            AllApproved, StillPolicy
      <3> QED
        BY <1>2, <3>1
    <2> QED
      BY <2>1, <2>2, <2>3
  <1>9. admitted' \subseteq Devices /\ blurred' \subseteq Users
    <2>1. CASE Begun(w)
      BY <1>4, <2>1 DEF Begun, TablesInv, Jobs
    <2>2. CASE AllApproved(w)
      BY <1>0, <2>2 DEF AllApproved, TablesInv, JobOK
    <2>3. CASE Failed(w) \/ RowRead(w) \/ OldDeleted(w)
      BY <1>4, <1>5, <2>3 DEF Failed, RowRead, OldDeleted, TablesInv
    <2>4. CASE ~Begun(w) /\ ~AllApproved(w) /\ ~Failed(w) /\ ~RowRead(w) /\ ~OldDeleted(w)
      BY <1>4, <2>4
      DEF Effect, Quiet, Made, Wrote, OwnDeleted, Ended, PolicyMade, DefaultDropped
    <2> QED
      BY <2>1, <2>2, <2>3, <2>4
  <1> QED
    BY <1>6, <1>7, <1>8, <1>9 DEF TablesInv, Turn

\* Whoever moves the account over holds the mutex until the Default policy is
\* dropped, and a list of approved devices is only written back after that.
LEMMA MoveStep ==
    ASSUME VpnInv, NEW w \in Workers, Turn(w), Effect(w)
    PROVE  MoveInv'
  <1>0. /\ job[w] \in Jobs /\ JobOK(job[w]) /\ w # NoLock
        /\ \A v \in Workers \ {w} : job'[v] = job[v]
        /\ devices \subseteq Devices /\ \A d \in devices : d.id <= lastDevice
        /\ lastDevice' = lastDevice
    BY Bounds DEF VpnInv, JobsInv, TablesInv, Turn
  <1> USE DEF VpnInv
  <1>1. ASSUME StillPolicy,
               job'[w].pc \in Held <=> job[w].pc \in Held,
               job'[w].pc \in {"read group", "write group"} =>
                  job[w].pc \in {"read group", "write group"},
               job'[w].pc \in {"approve all", "drop default"} =>
                  \A d \in job'[w].seen : d.id <= lastDevice,
               job'[w].pc = "drop default" =>
                  job'[w].seen \intersect devices' \subseteq approved',
               \/ job[w].pc \in Held \union {"write group"}
               \/ \E gone : devices' = devices \ gone /\ approved' = approved \ gone
        PROVE  MoveInv'
    <2>1. /\ mu' \in Workers \union {NoLock}
          /\ \A v \in Workers : mu' = v <=> job'[v].pc \in Held
      BY <1>0, <1>1 DEF MoveInv, StillPolicy
    <2>2. \A v \in Workers : job'[v].pc \in Held => "Default" \in policies'
      BY <1>0, <1>1 DEF MoveInv, StillPolicy
    <2>3. \A v \in Workers :
             job'[v].pc \in {"read group", "write group"} => "Default" \notin policies'
      BY <1>0, <1>1 DEF MoveInv, StillPolicy
    <2>4. ASSUME NEW v \in Workers
          PROVE  /\ job'[v].pc \in {"approve all", "drop default"} =>
                       \A d \in job'[v].seen : d.id <= lastDevice'
                 /\ job'[v].pc = "drop default" =>
                       job'[v].seen \intersect devices' \subseteq approved'
      <3>1. CASE v = w
        BY <1>0, <1>1, <3>1
      <3>2. CASE v # w
        <4>1. job'[v] = job[v]
          BY <1>0, <3>2
        <4>2. job[v].pc = "drop default" => job[w].pc \notin Held \union {"write group"}
          BY <3>2 DEF MoveInv, Held
        <4> QED
          BY <1>0, <1>1, <4>1, <4>2 DEF MoveInv
      <3> QED
        BY <3>1, <3>2
    <2> QED
      BY <2>1, <2>2, <2>3, <2>4 DEF MoveInv
  <1>2. ASSUME devices' = devices, approved' = approved
        PROVE  \E gone : devices' = devices \ gone /\ approved' = approved \ gone
    <2>1. devices' = devices \ {} /\ approved' = approved \ {}
      BY <1>2
    <2> QED
      BY <2>1
  <1>3. CASE Begun(w)
    <2>1. /\ StillPolicy /\ StillAccount /\ job[w].pc = "idle"
          /\ job'[w].pc \in {"read row", "policy", "remove", "save option"}
      BY <1>0, <1>3 DEF Begun, JobOK
    <2> QED
      BY <1>1, <1>2, <2>1 DEF Held, StillAccount
  <1>4. CASE RowRead(w) \/ Quiet(w)
    <2>1. StillPolicy /\ StillAccount
      BY <1>4 DEF RowRead, Quiet
    <2>2. /\ job'[w].pc \in Held <=> job[w].pc \in Held
          /\ job'[w].pc \in {"read group", "write group"} =>
                job[w].pc \in {"read group", "write group"}
          /\ job'[w].pc # "drop default"
          /\ job'[w].pc = "approve all" => job'[w].seen = devices
      BY <1>4 DEF RowRead, Quiet, Went, Saw, Held
    <2> QED
      BY <1>0, <1>1, <1>2, <2>1, <2>2 DEF StillAccount
  <1>5. CASE OldDeleted(w) \/ Made(w) \/ OwnDeleted(w)
    <2>1. StillPolicy /\ \E gone : devices' = devices \ gone /\ approved' = approved \ gone
      <3>1. CASE OldDeleted(w) \/ Made(w)
        BY <1>2, <3>1 DEF OldDeleted, Made
      <3> QED
        BY <1>5, <3>1 DEF OwnDeleted
    <2>2. /\ job[w].pc \in {"delete old", "create key", "create login", "delete own"}
          /\ job'[w].pc \in {"choose", "list own", "record", "delete row"}
      BY <1>5 DEF OldDeleted, Made, OwnDeleted, Went, Saw
    <2> QED
      BY <1>1, <2>1, <2>2 DEF Held
  <1>6. CASE Wrote(w) \/ Ended(w)
    <2>1. /\ job[w].pc \in {"record", "delete row", "read group", "write group", "remove",
                           "mfa set"}
          /\ job'[w].pc = "idle" /\ StillPolicy
      BY <1>6, NoJob DEF Wrote, Ended
    <2>2. \/ job[w].pc = "write group"
          \/ \E gone : devices' = devices \ gone /\ approved' = approved \ gone
      BY <1>2, <1>6 DEF Wrote, Ended, StillAccount
    <2> QED
      BY <1>1, <2>1, <2>2 DEF Held
  <1>7. CASE AllApproved(w)
    <2>1. /\ job[w].pc = "approve all" /\ job'[w].pc = "drop default"
          /\ job'[w].seen = job[w].seen /\ StillPolicy /\ devices' = devices
          /\ approved' = job[w].seen \intersect devices
      BY <1>7 DEF AllApproved, Went
    <2>2. \A d \in job[w].seen : d.id <= lastDevice
      BY <2>1 DEF MoveInv
    <2> QED
      BY <1>1, <2>1, <2>2 DEF Held
  <1>8. ASSUME policies' = policies \/ (mu = w /\ policies' = policies \ {"Default"}),
               mu' = IF job[w].pc \in Held THEN NoLock ELSE mu,
               job'[w].pc \notin Held \union {"write group"},
               job'[w].pc = "read group" => "Default" \notin policies',
               \E gone : devices' = devices \ gone /\ approved' = approved \ gone
        PROVE  MoveInv'
    <2>1. /\ mu' \in Workers \union {NoLock}
          /\ \A v \in Workers : mu' = v <=> job'[v].pc \in Held
      BY <1>0, <1>8, Bounds DEF MoveInv
    <2>2. \A v \in Workers : job'[v].pc \in Held => "Default" \in policies'
      BY <1>0, <1>8 DEF MoveInv
    <2>3. \A v \in Workers :
             job'[v].pc \in {"read group", "write group"} => "Default" \notin policies'
      BY <1>0, <1>8 DEF MoveInv
    <2>4. ASSUME NEW v \in Workers
          PROVE  /\ job'[v].pc \in {"approve all", "drop default"} =>
                       \A d \in job'[v].seen : d.id <= lastDevice'
                 /\ job'[v].pc = "drop default" =>
                       job'[v].seen \intersect devices' \subseteq approved'
      BY <1>0, <1>8 DEF MoveInv, Held
    <2> QED
      BY <2>1, <2>2, <2>3, <2>4 DEF MoveInv
  <1>9. CASE Failed(w)
    <2>1. job'[w].pc = "idle"
      BY <1>9, NoJob DEF Failed
    <2> QED
      BY <1>8, <1>9, <2>1 DEF Failed, Held
  <1>10. CASE DefaultDropped(w)
    <2>1. /\ job[w].pc \in Held /\ mu' = NoLock /\ policies' = policies \ {"Default"}
          /\ StillAccount /\ job'[w].pc \in {"mfa on", "read group", "mfa wanted"}
      BY <1>10 DEF DefaultDropped, After, Went, Held
    <2>2. mu = w
      BY <2>1 DEF MoveInv
    <2> QED
      BY <1>2, <1>8, <2>1, <2>2 DEF Held, StillAccount
  <1>11. CASE PolicyMade(w)
    <2>1. /\ job[w].pc = "policy" /\ mu = NoLock /\ StillAccount
          /\ policies' = policies \union {"approved devices"}
          /\ \/ "Default" \in policies /\ mu' = w /\ job'[w].pc = "list all"
             \/ /\ "Default" \notin policies /\ mu' = mu
                /\ job'[w].pc \in {"mfa on", "read group", "mfa wanted"}
      BY <1>11 DEF PolicyMade, After, Went
    <2>2. \A v \in Workers : job[v].pc \notin Held
      BY <2>1, Bounds DEF MoveInv
    <2>3. /\ mu' \in Workers \union {NoLock}
          /\ \A v \in Workers : mu' = v <=> job'[v].pc \in Held
      BY <1>0, <2>1, <2>2, Bounds DEF MoveInv, Held
    <2>4. \A v \in Workers :
             /\ job'[v].pc \in Held => "Default" \in policies'
             /\ job'[v].pc \in {"read group", "write group"} => "Default" \notin policies'
             /\ job'[v].pc \notin {"approve all", "drop default"}
      BY <1>0, <2>1, <2>2 DEF MoveInv, Held
    <2> QED
      BY <2>3, <2>4 DEF MoveInv
  <1> QED
    BY <1>3, <1>4, <1>5, <1>6, <1>7, <1>9, <1>10, <1>11 DEF Effect

\* Who gets on the list of approved devices was let in.
LEMMA AdmitStep ==
    ASSUME VpnInv, NEW w \in Workers, Turn(w), Effect(w)
    PROVE  AdmitInv'
  <1>0. /\ job[w] \in Jobs /\ JobOK(job[w])
        /\ \A v \in Workers \ {w} : job'[v] = job[v]
        /\ approved \subseteq admitted
    BY DEF VpnInv, JobsInv, AdmitInv, Turn
  <1>1. ASSUME admitted \subseteq admitted', approved' \subseteq admitted',
               job'[w].op = "approve" => job'[w].dev \in admitted',
               job'[w].pc = "write group" => job'[w].seen \subseteq admitted'
        PROVE  AdmitInv'
    <2>1. \A v \in Workers :
             /\ job'[v].op = "approve" => job'[v].dev \in admitted'
             /\ job'[v].pc = "write group" => job'[v].seen \subseteq admitted'
      BY <1>0, <1>1 DEF VpnInv, AdmitInv
    <2> QED
      BY <1>1, <2>1 DEF AdmitInv
  <1>2. ASSUME Same(w)
        PROVE  job'[w].op = "approve" => job'[w].dev \in admitted
    BY <1>2 DEF Same, VpnInv, AdmitInv
  <1>3. CASE Begun(w)
    BY <1>0, <1>1, <1>3 DEF Begun, StillAccount, StillHistory
  <1>4. CASE Failed(w) \/ Wrote(w)
    BY <1>0, <1>1, <1>4, NoJob DEF Failed, Wrote, StillAccount, StillHistory
  <1>5. CASE RowRead(w) \/ OldDeleted(w) \/ Made(w) \/ OwnDeleted(w)
    BY <1>0, <1>1, <1>2, <1>5
    DEF RowRead, OldDeleted, Made, OwnDeleted, Went, Saw, StillAccount, StillHistory
  <1>6. CASE Quiet(w)
    BY <1>0, <1>1, <1>2, <1>6 DEF Quiet, Went, Saw, StillAccount, StillHistory
  <1>7. CASE Ended(w)
    <2>1. job[w].pc = "write group" => job[w].seen \union {job[w].dev} \subseteq admitted
      BY <1>0 DEF VpnInv, AdmitInv, JobOK
    <2> QED
      BY <1>0, <1>1, <1>7, <2>1, NoJob DEF Ended, StillHistory
  <1>8. CASE PolicyMade(w) \/ DefaultDropped(w)
    BY <1>0, <1>1, <1>2, <1>8
    DEF PolicyMade, DefaultDropped, After, Went, StillAccount, StillHistory
  <1>9. CASE AllApproved(w)
    <2>1. "Default" \in policies
      BY <1>9 DEF AllApproved, VpnInv, MoveInv, Held
    <2> QED
      BY <1>0, <1>1, <1>2, <1>9, <2>1 DEF AllApproved, Went
  <1> QED
    BY <1>3, <1>4, <1>5, <1>6, <1>7, <1>8, <1>9 DEF Effect

----------------------------------------------------------------------------
(* Access on record.                                                       *)

\* What a step leaves a user who no running request is about, and the requests
\* about anyone whose grants and devices only get fewer.
LEMMA AccessKept ==
    ASSUME JobsInv, AccessInv, NEW u \in Users \ blurred', blurred \subseteq blurred',
           \A v \in Workers : v \in Busy(u) \/ v \in Busy(u)' => job'[v] = job[v],
           access'[u] = access[u], Has(u)' \subseteq Has(u), Devs(u)' \subseteq Devs(u)
    PROVE  /\ \A v, w \in Busy(u)' : v = w
           /\ \A w \in Busy(u)' : BusyOK(w)'
           /\ Busy(u)' = {} => RecordedOf(u)' /\ DevicesOf(u)'
  <1>1. Busy(u)' = Busy(u)
    BY DEF Busy
  <1>2. /\ \A v, w \in Busy(u) : v = w
        /\ \A w \in Busy(u) : BusyOK(w)
        /\ Busy(u) = {} => RecordedOf(u) /\ DevicesOf(u)
    BY DEF AccessInv
  <1>3. /\ RecordedOf(u) => RecordedOf(u)'
        /\ DevicesOf(u) => DevicesOf(u)'
        /\ Has(u) = {} => Has(u)' = {}
    BY DEF RecordedOf, DevicesOf
  <1>4. ASSUME NEW w \in Busy(u) PROVE BusyOK(w)'
    <2>1. job'[w] = job[w] /\ job[w].user = u
      BY DEF Busy
    <2>2. BusyOK(w)
      BY <1>2
    <2> QED
      BY <1>3, <2>1, <2>2 DEF BusyOK
  <1> QED
    BY <1>1, <1>2, <1>3, <1>4

\* What the one running request about a user leaves, going on or ending.
LEMMA AccessTaken ==
    ASSUME JobsInv, AccessInv, NEW w \in Workers, NEW u \in Users \ blurred',
           blurred \subseteq blurred', Turn(w), Busy(u) \subseteq {w},
           \/ w \in Busy(u)' /\ BusyOK(w)'
           \/ w \notin Busy(u)' /\ RecordedOf(u)' /\ DevicesOf(u)'
    PROVE  /\ \A v, x \in Busy(u)' : v = x
           /\ \A x \in Busy(u)' : BusyOK(x)'
           /\ Busy(u)' = {} => RecordedOf(u)' /\ DevicesOf(u)'
  <1>1. Busy(u)' \subseteq {w}
    BY DEF Busy, Turn
  <1> QED
    BY <1>1

\* A step of a request about a user.
LEMMA AccessStep ==
    ASSUME VpnInv, NEW w \in Workers, Turn(w), Effect(w)
    PROVE  AccessInv'
  <1> USE DEF VpnInv
  <1>0. /\ job[w] \in Jobs /\ JobOK(job[w]) /\ job[w].user \in Users
        /\ \A v \in Workers \ {w} : job'[v] = job[v]
        /\ access \in [Users -> SUBSET Grants]
        /\ grants \subseteq Grants /\ devices \subseteq Devices
    BY DEF JobsInv, Jobs, TablesInv, Turn
  <1>1. SUFFICES ASSUME NEW u \in Users \ blurred'
                 PROVE  /\ \A v, x \in Busy(u)' : v = x
                        /\ \A x \in Busy(u)' : BusyOK(x)'
                        /\ Busy(u)' = {} => RecordedOf(u)' /\ DevicesOf(u)'
    BY DEF AccessInv
  <1>2. Blur(w) => blurred \subseteq blurred' /\ w \notin Busy(u)
    BY DEF Blur, Busy
  <1>3. StillHistory => blurred \subseteq blurred'
    BY DEF StillHistory
  <1>4. ASSUME access' = access, StillAccount
        PROVE  /\ access'[u] = access[u] /\ Has(u)' = Has(u) /\ Devs(u)' = Devs(u)
               /\ RecordedOf(u) => RecordedOf(u)'
               /\ DevicesOf(u) => DevicesOf(u)'
    BY <1>4 DEF StillAccount, Has, Devs, RecordedOf, DevicesOf
  <1>5. blurred \subseteq blurred'
    BY <1>2, <1>3
    DEF Effect, Begun, Failed, RowRead, OldDeleted, Quiet, Made, Wrote, OwnDeleted, Ended,
        PolicyMade, AllApproved, DefaultDropped, StillHistory
  <1>6. w \in Busy(u) => Busy(u) = {w} /\ BusyOK(w) /\ job[w].user = u
    BY <1>5 DEF AccessInv, Busy
  <1> DEFINE Rest == /\ \A v, x \in Busy(u)' : v = x
                     /\ \A x \in Busy(u)' : BusyOK(x)'
                     /\ Busy(u)' = {} => RecordedOf(u)' /\ DevicesOf(u)'
  <1> SUFFICES Rest
    OBVIOUS
  <1>7. ASSUME w \notin Busy(u), w \notin Busy(u)',
               access'[u] = access[u], Has(u)' \subseteq Has(u), Devs(u)' \subseteq Devs(u)
        PROVE  Rest
    <2>1. \A v \in Workers : v \in Busy(u) \/ v \in Busy(u)' => job'[v] = job[v]
      BY <1>0, <1>7
    <2> QED
      BY <1>5, <1>7, <2>1, AccessKept
  <1>8. ASSUME w \in Busy(u), \/ w \in Busy(u)' /\ BusyOK(w)'
                              \/ w \notin Busy(u)' /\ RecordedOf(u)' /\ DevicesOf(u)'
        PROVE  Rest
    BY <1>5, <1>6, <1>8, AccessTaken
  <1>9. ASSUME Same(w) PROVE w \in Busy(u)' <=> w \in Busy(u)
    BY <1>9 DEF Same, Busy
  <1>10. job'[w] = Idle => w \notin Busy(u)'
    BY NoJob DEF Busy
  <1> HIDE DEF Rest
  <1>11. CASE Begun(w)
    <2>1. access' = access /\ StillAccount /\ w \notin Busy(u)
      BY <1>11 DEF Begun, Busy
    <2>2. CASE w \in Busy(u)'
      <3>1. job'[w].user = u /\ job'[w].pc = "read row" /\ Busy(u) = {}
        BY <1>11, <2>2 DEF Begun, Busy
      <3>2. RecordedOf(u)' /\ DevicesOf(u)'
        BY <1>4, <1>5, <2>1, <3>1 DEF AccessInv
      <3>3. BusyOK(w)'
        BY <3>1, <3>2 DEF BusyOK, Without
      <3>4. JobsInv /\ AccessInv /\ Busy(u) \subseteq {w}
        BY <3>1
      <3> QED
        BY <1>5, <2>2, <3>3, <3>4, AccessTaken DEF Rest
    <2> QED
      BY <1>4, <1>7, <2>1, <2>2
  <1>12. CASE Failed(w)
    <2>1. /\ w \notin Busy(u) /\ w \notin Busy(u)' /\ access'[u] = access[u]
          /\ Has(u)' = Has(u) /\ Devs(u)' \subseteq Devs(u)
      BY <1>2, <1>10, <1>12 DEF Failed, Has, Devs
    <2> QED
      BY <1>7, <2>1
  <1>13. CASE RowRead(w)
    <2>1. access' = access /\ StillAccount /\ Same(w)
      BY <1>13 DEF RowRead, Saw
    <2>2. CASE w \in Busy(u)
      <3>1. RecordedOf(u)' /\ DevicesOf(u)' /\ access'[u] = access[u]
        BY <1>4, <1>6, <1>13, <2>1, <2>2 DEF RowRead, BusyOK
      <3>2. job'[w].user = u /\ job'[w].pc = "delete old" /\ job'[w].seen = access[u]
        BY <1>2, <1>6, <1>13, <2>2 DEF RowRead, Saw, Same
      <3>3. BusyOK(w)'
        BY <3>1, <3>2 DEF BusyOK, Without
      <3> QED
        BY <1>8, <1>9, <2>1, <2>2, <3>3
    <2> QED
      BY <1>4, <1>7, <1>9, <2>1, <2>2
  <1>14. CASE OldDeleted(w)
    <2>1. /\ access' = access /\ devices' = devices /\ Same(w) /\ job[w].pc = "delete old"
          /\ grants' \subseteq grants
          /\ job'[w].pc \in {"choose", "list own"}
      BY <1>14 DEF OldDeleted, Went
    <2>2. Devs(u)' = Devs(u) /\ Has(u)' \subseteq Has(u)
      BY <2>1 DEF Devs, Has
    <2>3. CASE w \in Busy(u)
      <3>1. /\ RecordedOf(u) /\ DevicesOf(u) /\ job[w].seen = access[u]
            /\ grants' = grants \ job[w].seen /\ job'[w].user = u
        BY <1>2, <1>6, <1>14, <2>1, <2>3 DEF OldDeleted, BusyOK, Same
      <3>2. Has(u)' = {} /\ DevicesOf(u)'
        BY <2>1, <2>2, <3>1 DEF Has, RecordedOf, DevicesOf
      <3>3. BusyOK(w)'
        BY <2>1, <3>1, <3>2 DEF BusyOK
      <3> QED
        BY <1>8, <1>9, <2>1, <2>3, <3>3
    <2> QED
      BY <1>7, <1>9, <2>1, <2>2, <2>3
  <1>15. CASE Quiet(w)
    <2>1. access' = access /\ StillAccount /\ Same(w)
      BY <1>15 DEF Quiet, Went, Saw
    <2>2. CASE w \in Busy(u)
      <3>1. job[w].op \in {"enable", "revoke"} /\ job'[w].user = u
        BY <1>6, <2>1, <2>2 DEF Busy, Same
      <3>2. /\ job[w].pc \in {"choose", "mfa on", "list own", "list all"}
            /\ job'[w].pc \in {"policy", "create key", "create login", "delete own",
                                "approve all"}
            /\ job'[w].pc = "delete own" => job'[w].seen = Devs(u)
        BY <1>0, <1>6, <1>15, <2>2, <3>1 DEF Quiet, Went, Saw, JobOK
      <3>3. Has(u)' = {} /\ DevicesOf(u)' /\ Devs(u)' = Devs(u)
        BY <1>4, <1>6, <2>1, <2>2, <3>2 DEF BusyOK, Without
      <3>4. BusyOK(w)'
        BY <3>1, <3>2, <3>3 DEF BusyOK
      <3> QED
        BY <1>8, <1>9, <2>1, <2>2, <3>4
    <2> QED
      BY <1>4, <1>7, <1>9, <2>1, <2>2
  <1>16. CASE Made(w)
    <2>1. PICK g \in Grants :
             g.user = job[w].user /\ grants' = grants \union {g} /\ Saw(w, "record", {g})
      BY <1>16 DEF Made
    <2>2. /\ access' = access /\ devices' = devices /\ Same(w) /\ job'[w].pc = "record"
          /\ job'[w].seen = {g} /\ job[w].pc \in {"create key", "create login"}
      BY <1>16, <2>1 DEF Made, Saw
    <2>3. job[w].op = "enable"
      BY <1>0, <2>2 DEF JobOK
    <2>4. CASE w \in Busy(u)
      <3>1. Has(u) = {} /\ job'[w].user = u
        BY <1>6, <2>2, <2>4 DEF BusyOK, Without, Same
      <3>2. Has(u)' \subseteq {g}
        BY <2>1, <3>1 DEF Has
      <3>3. BusyOK(w)'
        BY <2>2, <3>1, <3>2 DEF BusyOK, Without
      <3> QED
        BY <1>8, <1>9, <2>2, <2>4, <3>3
    <2>5. CASE w \notin Busy(u)
      <3>1. g.user # u
        BY <2>1, <2>3, <2>5 DEF Busy
      <3>2. Has(u)' = Has(u) /\ Devs(u)' = Devs(u)
        BY <2>1, <2>2, <3>1 DEF Has, Devs
      <3> QED
        BY <1>7, <1>9, <2>2, <2>5, <3>2
    <2> QED
      BY <2>4, <2>5
  <1>17. CASE Wrote(w)
    <2>1. /\ job'[w] = Idle /\ StillAccount /\ job[w].op \in {"enable", "revoke"}
          /\ w \notin Busy(u)'
      BY <1>0, <1>10, <1>17 DEF Wrote, JobOK
    <2>2. Has(u)' = Has(u) /\ Devs(u)' = Devs(u)
      BY <2>1 DEF StillAccount, Has, Devs
    <2>3. CASE w \in Busy(u) /\ job[w].pc = "record"
      <3>1. access'[u] = job[w].seen /\ Has(u) \subseteq job[w].seen
        BY <1>0, <1>6, <1>17, <2>3 DEF Wrote, BusyOK
      <3>2. access'[u] # {}
        BY <1>0, <2>3, <3>1 DEF JobOK
      <3>3. RecordedOf(u)' /\ DevicesOf(u)'
        BY <2>2, <3>1, <3>2 DEF RecordedOf, DevicesOf
      <3> QED
        BY <1>8, <2>1, <2>3, <3>3
    <2>4. CASE w \in Busy(u) /\ job[w].pc = "delete row"
      <3>1. Has(u) = {} /\ Devs(u) = {}
        BY <1>6, <2>4 DEF BusyOK, Without
      <3>2. RecordedOf(u)' /\ DevicesOf(u)'
        BY <2>2, <3>1 DEF RecordedOf, DevicesOf
      <3> QED
        BY <1>8, <2>1, <2>4, <3>2
    <2>5. CASE w \notin Busy(u)
      <3>1. job[w].user # u
        BY <2>1, <2>5 DEF Busy
      <3>2. access'[u] = access[u]
        BY <1>0, <1>17, <3>1 DEF Wrote
      <3> QED
        BY <1>7, <2>1, <2>2, <2>5, <3>2
    <2> QED
      BY <1>17, <2>3, <2>4, <2>5 DEF Wrote
  <1>18. CASE OwnDeleted(w)
    <2>1. /\ access' = access /\ grants' = grants /\ devices' = devices \ job[w].seen
          /\ Same(w) /\ job[w].pc = "delete own" /\ job'[w].pc = "delete row"
      BY <1>18 DEF OwnDeleted, Went
    <2>2. Has(u)' = Has(u) /\ Devs(u)' = Devs(u) \ job[w].seen
      BY <2>1 DEF Has, Devs
    <2>3. CASE w \in Busy(u)
      <3>1. Has(u)' = {} /\ Devs(u)' = {} /\ job'[w].user = u
        BY <1>6, <2>1, <2>2, <2>3 DEF BusyOK, Without, Same
      <3>2. BusyOK(w)'
        BY <2>1, <3>1 DEF BusyOK, DevicesOf
      <3> QED
        BY <1>8, <1>9, <2>1, <2>3, <3>2
    <2> QED
      BY <1>7, <1>9, <2>1, <2>2, <2>3
  <1>19. CASE Ended(w)
    <2>1. w \notin Busy(u) /\ w \notin Busy(u)'
      BY <1>0, <1>10, <1>19 DEF Ended, Busy, JobOK
    <2>2. access'[u] = access[u] /\ Has(u)' = Has(u) /\ Devs(u)' \subseteq Devs(u)
      BY <1>19 DEF Ended, Has, Devs
    <2> QED
      BY <1>7, <2>1, <2>2
  <1>20. CASE PolicyMade(w) \/ AllApproved(w) \/ DefaultDropped(w)
    <2>1. /\ access' = access /\ grants' = grants /\ devices' = devices /\ Same(w)
          /\ job[w].pc \in {"policy", "approve all", "drop default"}
      BY <1>20
      DEF PolicyMade, AllApproved, DefaultDropped, After, Went, StillAccount
    <2>2. Has(u)' = Has(u) /\ Devs(u)' = Devs(u) /\ (DevicesOf(u) => DevicesOf(u)')
      BY <2>1 DEF Has, Devs, DevicesOf
    <2>3. CASE w \in Busy(u)
      <3>1. job[w].op = "enable" /\ job'[w].user = u
        BY <1>0, <1>6, <2>1, <2>3 DEF Busy, JobOK, Same, Held
      <3>2. job'[w].pc \in {"list all", "drop default", "mfa on"}
        BY <1>20, <3>1 DEF PolicyMade, AllApproved, DefaultDropped, After, Went
      <3>3. Has(u)' = {} /\ DevicesOf(u)'
        BY <1>6, <2>1, <2>2, <2>3 DEF BusyOK, Without
      <3>4. BusyOK(w)'
        BY <3>1, <3>2, <3>3 DEF BusyOK
      <3> QED
        BY <1>8, <1>9, <2>1, <2>3, <3>4
    <2> QED
      BY <1>7, <1>9, <2>1, <2>2, <2>3
  <1> QED
    BY <1>11, <1>12, <1>13, <1>14, <1>15, <1>16, <1>17, <1>18, <1>19, <1>20 DEF Effect

----------------------------------------------------------------------------
(* The bounds, and the devices that join.                                  *)

\* The options stay options and the counters stay within their bounds.
LEMMA BoundsStep ==
    ASSUME BoundsInv, JobsInv, NEW w \in Workers, Step(w)
    PROVE  BoundsInv'
  <1>1. twoFactor' \in BOOLEAN /\ mfa' \in BOOLEAN
    <2>1. job[w].on \in BOOLEAN
      BY JobParts DEF JobsInv
    <2>2. twoFactor' \in {twoFactor, job[w].on} /\ mfa' \in {mfa, job[w].on, TRUE}
      BY Zenon DEF Step, Begin, EnableUser, DisableUser, ApproveDevice, RemoveDevice,
         SaveTwoFactor, Sync, ReadRow, DeleteOld, Choose, TurnMfaOn, CreateSetupKey,
         CreateLocalUser, NewGrant, Record, ListOwn, DeleteOwn, DeleteRow, ReadGroup,
         WriteGroup, DeletePeer, SaveOption, ReadWanted, SetMfa, Policy, ListAll,
         ApproveAll, DropDefault, SetLocalMFA, rows, account
    <2> QED
      BY <2>1, <2>2, Zenon DEF BoundsInv
  <1>2. failing' = failing
    BY Zenon DEF Step, Begin, EnableUser, DisableUser, ApproveDevice, RemoveDevice,
         SaveTwoFactor, Sync, ReadRow, DeleteOld, Choose, TurnMfaOn, CreateSetupKey,
         CreateLocalUser, NewGrant, Record, ListOwn, DeleteOwn, DeleteRow, ReadGroup,
         WriteGroup, DeletePeer, SaveOption, ReadWanted, SetMfa, Policy, ListAll,
         ApproveAll, DropDefault, bounds
  <1>3. asked' = asked \/ (asked < MaxRequests /\ asked' = asked + 1)
    BY Zenon DEF Step, Begin, EnableUser, DisableUser, ApproveDevice, RemoveDevice,
         SaveTwoFactor, Sync, ReadRow, DeleteOld, Choose, TurnMfaOn, CreateSetupKey,
         CreateLocalUser, NewGrant, Record, ListOwn, DeleteOwn, DeleteRow, ReadGroup,
         WriteGroup, DeletePeer, SaveOption, ReadWanted, SetMfa, Policy, ListAll,
         ApproveAll, DropDefault, bounds
  <1>4. lastGrant' = lastGrant \/ (lastGrant < MaxGrants /\ lastGrant' = lastGrant + 1)
    BY Zenon DEF Step, Begin, EnableUser, DisableUser, ApproveDevice, RemoveDevice,
         SaveTwoFactor, Sync, ReadRow, DeleteOld, Choose, TurnMfaOn, CreateSetupKey,
         CreateLocalUser, NewGrant, Record, ListOwn, DeleteOwn, DeleteRow, ReadGroup,
         WriteGroup, DeletePeer, SaveOption, ReadWanted, SetMfa, Policy, ListAll,
         ApproveAll, DropDefault, bounds
  <1>5. asked' \in 0 .. MaxRequests /\ lastGrant' \in 0 .. MaxGrants
    BY <1>3, <1>4, Bounds DEF BoundsInv
  <1>6. failing' \in Flaky \union {"nothing"}
    BY <1>2, Zenon DEF BoundsInv
  <1> QED
    BY <1>1, <1>5, <1>6, Zenon DEF BoundsInv

\* A step of a worker keeps the invariant.
LEMMA WorkersStep ==
    ASSUME VpnInv, NEW w \in Workers, Step(w)
    PROVE  VpnInv'
  <1>1. JobsInv /\ TablesInv /\ BoundsInv
    BY DEF VpnInv
  <1>2. Effect(w)
    BY <1>1, Effects
  <1>3. job'[w] \in Jobs /\ JobOK(job'[w])
    BY <1>1, <1>2, JobsStep
  <1>4. Turn(w)
    BY <1>1, <1>3, Turns
  <1>5. JobsInv'
    BY <1>1, <1>3, <1>4 DEF JobsInv, Turn
  <1>6. TablesInv' /\ MoveInv' /\ AdmitInv' /\ AccessInv' /\ BoundsInv'
    BY <1>1, <1>2, <1>4, TablesStep, MoveStep, AdmitStep, AccessStep, BoundsStep
  <1> QED
    BY <1>5, <1>6 DEF VpnInv

\* A device that joins is a new one of the grant's user, who has access on record
\* or is just being given it.
LEMMA EnrolStep ==
    ASSUME VpnInv, Enrol
    PROVE  VpnInv'
  <1> USE DEF VpnInv
  <1> DEFINE D(g) == [id |-> lastDevice + 1, user |-> g.user]
  <1>1. /\ lastDevice < MaxDevices /\ lastDevice' = lastDevice + 1
        /\ access' = access /\ policies' = policies /\ mu' = mu /\ job' = job
        /\ blurred' = blurred
        /\ twoFactor' = twoFactor /\ mfa' = mfa /\ failing' = failing /\ asked' = asked
        /\ lastGrant' = lastGrant
    BY Zenon DEF Enrol, rows
  <1>2. PICK g \in grants :
           /\ devices' = devices \union {D(g)}
           /\ grants' = grants \/ (~g.login /\ grants' = grants \ {g})
           /\ \/ approved' = approved /\ admitted' = admitted
              \/ /\ approved' = approved \union {D(g)}
                 /\ admitted' = admitted \union {D(g)}
    BY Zenon DEF Enrol
  <1> DEFINE d == D(g)
  <1>3. /\ lastDevice \in 1 .. MaxDevices /\ devices \subseteq Devices
        /\ approved \subseteq devices /\ grants \subseteq Grants
    BY DEF TablesInv
  <1>4. d \in Devices /\ d.id = lastDevice + 1 /\ d.user = g.user /\ g \in Grants
    BY <1>1, <1>3, Bounds DEF Devices, Grants
  <1>5. /\ devices' = devices \union {d} /\ grants' \subseteq grants
        /\ \/ approved' = approved /\ admitted' = admitted
           \/ approved' = approved \union {d} /\ admitted' = admitted \union {d}
    BY <1>2
  <1> HIDE DEF d
  <1>12. \A e \in Devices : e.id \in Int
    <2>1. \A e \in Devices : e.id \in 0 .. MaxDevices
      BY Zenon DEF Devices
    <2> QED
      BY <2>1, Bounds
  <1>6. JobsInv'
    BY <1>1 DEF JobsInv
  <1>7. TablesInv'
    <2>1. /\ lastDevice' \in 1 .. MaxDevices
          /\ \A e \in devices' : e.id <= lastDevice'
      <3>1. \A e \in devices : e.id \in Int /\ e.id <= lastDevice
        BY <1>3, <1>12 DEF TablesInv
      <3> QED
        BY <1>1, <1>3, <1>4, <1>5, <3>1, Bounds
    <2>2. /\ devices' \subseteq Devices /\ approved' \subseteq devices'
          /\ admitted' \subseteq Devices /\ grants' \subseteq Grants
      BY <1>3, <1>4, <1>5 DEF TablesInv
    <2> QED
      BY <1>1, <2>1, <2>2 DEF TablesInv
  <1>8. MoveInv'
    <2>1. \A v \in Workers :
             /\ job[v].pc \in {"approve all", "drop default"} =>
                   \A e \in job[v].seen : e.id <= lastDevice' /\ e # d
             /\ job[v].pc = "drop default" =>
                   job[v].seen \intersect devices' \subseteq approved'
      <3>1. \A v \in Workers : job[v].pc \in {"approve all", "drop default"} =>
               \A e \in job[v].seen : e.id \in Int /\ e.id <= lastDevice
        BY <1>12 DEF JobsInv, JobOK, MoveInv
      <3>2. ASSUME NEW v \in Workers, job[v].pc \in {"approve all", "drop default"},
                   NEW e \in job[v].seen
            PROVE  e.id <= lastDevice' /\ e # d
        <4>1. e.id \in Int /\ e.id <= lastDevice
          BY <3>1, <3>2, Zenon
        <4>2. lastDevice \in Int
          BY <1>3, Bounds
        <4> QED
          BY <1>1, <1>4, <4>1, <4>2
      <3> QED
        BY <1>5, <3>2 DEF MoveInv
    <2> QED
      BY <1>1, <2>1 DEF MoveInv
  <1>9. AdmitInv'
    BY <1>1, <1>5 DEF AdmitInv
  <1>10. AccessInv'
    <2>1. SUFFICES ASSUME NEW u \in Users \ blurred'
                   PROVE  /\ \A v, w \in Busy(u)' : v = w
                          /\ \A w \in Busy(u)' : BusyOK(w)'
                          /\ Busy(u)' = {} => RecordedOf(u)' /\ DevicesOf(u)'
      BY DEF AccessInv
    <2>2. /\ Busy(u)' = Busy(u) /\ \A v, w \in Busy(u) : v = w
          /\ \A w \in Busy(u) : BusyOK(w)
          /\ Busy(u) = {} => RecordedOf(u) /\ DevicesOf(u)
      BY <1>1 DEF AccessInv, Busy
    <2>3. Has(u)' \subseteq Has(u) /\ (RecordedOf(u) => RecordedOf(u)')
      BY <1>1, <1>5 DEF Has, RecordedOf
    <2>4. CASE g.user = u
      <3>1. g \in Has(u)
        BY <2>4 DEF Has
      <3>2. RecordedOf(u) => access[u] # {}
        BY <3>1 DEF RecordedOf
      <3>3. RecordedOf(u) => DevicesOf(u)'
        BY <1>1, <3>2 DEF DevicesOf
      <3>4. ASSUME NEW w \in Busy(u) PROVE BusyOK(w)'
        <4>1. BusyOK(w) /\ job[w].user = u /\ job' = job
          BY <1>1, <2>2 DEF Busy
        <4>2. job[w].pc \notin Without
          BY <3>1, <4>1 DEF BusyOK
        <4> QED
          BY <1>1, <2>3, <3>3, <4>1, <4>2 DEF BusyOK, Without
      <3> QED
        BY <2>2, <2>3, <3>3, <3>4
    <2>5. CASE g.user # u
      <3>1. Devs(u)' = Devs(u) /\ (DevicesOf(u) => DevicesOf(u)')
        BY <1>1, <1>4, <1>5, <2>5 DEF Devs, DevicesOf
      <3>2. ASSUME NEW w \in Busy(u) PROVE BusyOK(w)'
        <4>1. BusyOK(w) /\ job[w].user = u /\ job' = job
          BY <1>1, <2>2 DEF Busy
        <4> QED
          BY <1>1, <2>3, <3>1, <4>1 DEF BusyOK
      <3> QED
        BY <2>2, <2>3, <3>1, <3>2
    <2> QED
      BY <2>4, <2>5
  <1>11. BoundsInv'
    BY <1>1, Zenon DEF BoundsInv
  <1> QED
    BY <1>6, <1>7, <1>8, <1>9, <1>10, <1>11

\* A setup key that expires lets nobody in any more.
LEMMA ExpiryStep ==
    ASSUME VpnInv, KeyExpires
    PROVE  VpnInv'
  <1> USE DEF VpnInv
  <1>1. /\ access' = access /\ policies' = policies /\ mu' = mu /\ job' = job
        /\ blurred' = blurred /\ admitted' = admitted
        /\ twoFactor' = twoFactor /\ mfa' = mfa /\ failing' = failing /\ asked' = asked
        /\ lastGrant' = lastGrant /\ lastDevice' = lastDevice
        /\ devices' = devices /\ approved' = approved
    BY Zenon DEF KeyExpires, rows, bounds, history
  <1>2. grants' \subseteq grants
    BY DEF KeyExpires
  <1>3. JobsInv' /\ TablesInv' /\ MoveInv' /\ AdmitInv'
    BY <1>1, <1>2 DEF JobsInv, TablesInv, MoveInv, AdmitInv
  <1>4. AccessInv'
    <2>1. ASSUME NEW u \in Users \ blurred'
          PROVE  /\ \A v, w \in Busy(u)' : v = w
                 /\ \A w \in Busy(u)' : BusyOK(w)'
                 /\ Busy(u)' = {} => RecordedOf(u)' /\ DevicesOf(u)'
      <3>1. /\ \A v \in Workers : v \in Busy(u) \/ v \in Busy(u)' => job'[v] = job[v]
            /\ access'[u] = access[u] /\ blurred \subseteq blurred'
            /\ Has(u)' \subseteq Has(u) /\ Devs(u)' \subseteq Devs(u)
        BY <1>1, <1>2 DEF Has, Devs
      <3> QED
        BY <3>1, AccessKept
    <2> QED
      BY <2>1 DEF AccessInv
  <1>5. BoundsInv'
    BY <1>1, Zenon DEF BoundsInv
  <1> QED
    BY <1>3, <1>4, <1>5

\* Nothing happens.
LEMMA Stutters ==
    ASSUME VpnInv, UNCHANGED vars
    PROVE  VpnInv'
  <1>1. /\ twoFactor' = twoFactor /\ access' = access /\ grants' = grants
        /\ devices' = devices /\ approved' = approved /\ policies' = policies /\ mfa' = mfa
        /\ mu' = mu /\ job' = job /\ failing' = failing /\ asked' = asked
        /\ lastGrant' = lastGrant /\ lastDevice' = lastDevice
        /\ admitted' = admitted /\ blurred' = blurred
    BY Zenon DEF vars, rows, account, bounds, history
  <1>2. JobsInv' /\ TablesInv' /\ MoveInv' /\ AdmitInv'
    BY <1>1 DEF VpnInv, JobsInv, TablesInv, MoveInv, AdmitInv
  <1>3. AccessInv'
    <2>1. ASSUME NEW u \in Users \ blurred'
          PROVE  /\ \A v, w \in Busy(u)' : v = w
                 /\ \A w \in Busy(u)' : BusyOK(w)'
                 /\ Busy(u)' = {} => RecordedOf(u)' /\ DevicesOf(u)'
      <3>1. /\ \A v \in Workers : v \in Busy(u) \/ v \in Busy(u)' => job'[v] = job[v]
            /\ access'[u] = access[u] /\ blurred \subseteq blurred'
            /\ Has(u)' \subseteq Has(u) /\ Devs(u)' \subseteq Devs(u)
        BY <1>1 DEF Has, Devs
      <3> QED
        BY <3>1, AccessKept DEF VpnInv
    <2> QED
      BY <2>1 DEF AccessInv
  <1>4. BoundsInv'
    BY <1>1, Zenon DEF VpnInv, BoundsInv
  <1> QED
    BY <1>2, <1>3, <1>4 DEF VpnInv

\* At the start nobody has access and the account is NetBird's own.
LEMMA Starts ==
    ASSUME Init
    PROVE  VpnInv
  <1> DEFINE d == [id |-> 1, user |-> AnyUser]
  <1>1. /\ access = [u \in Users |-> {}] /\ grants = {} /\ devices = {d} /\ approved = {}
        /\ policies = {"Default"} /\ mu = NoLock /\ job = [w \in Workers |-> Idle]
        /\ failing \in Flaky \union {"nothing"} /\ asked = 0 /\ lastGrant = 0
        /\ lastDevice = 1 /\ admitted = {} /\ blurred = {}
    BY Zenon DEF Init
  <1>2. twoFactor = FALSE /\ mfa = FALSE
    BY Zenon DEF Init
  <1>3. d \in Devices /\ d.id = 1
    BY Bounds DEF Devices
  <1> HIDE DEF d
  <1>4. \A w \in Workers : job[w] = Idle
    BY <1>1
  <1>5. JobsInv
    BY <1>1, <1>4, NoJob DEF JobsInv
  <1>6. TablesInv
    BY <1>1, <1>3, Bounds DEF TablesInv
  <1>7. MoveInv /\ AdmitInv
    BY <1>1, <1>4, NoJob, Bounds DEF MoveInv, AdmitInv, Held
  <1>8. AccessInv
    <2>1. \A u \in Users : Busy(u) = {}
      BY <1>4, NoJob DEF Busy
    <2>2. \A u \in Users : RecordedOf(u) /\ DevicesOf(u)
      BY <1>1, <1>3 DEF RecordedOf, DevicesOf, Has, Devs
    <2> QED
      BY <2>1, <2>2 DEF AccessInv
  <1>9. asked \in 0 .. MaxRequests /\ lastGrant \in 0 .. MaxGrants
    BY <1>1, Bounds
  <1>10. BoundsInv
    BY <1>1, <1>2, <1>9, Zenon DEF BoundsInv
  <1> QED
    BY <1>5, <1>6, <1>7, <1>8, <1>10 DEF VpnInv

----------------------------------------------------------------------------
(* The theorems.                                                           *)

\* The inductive invariant holds of every behaviour.
LEMMA Invariance == Spec => []VpnInv
  <1>1. VpnInv /\ [Next]_vars => VpnInv'
    BY WorkersStep, EnrolStep, ExpiryStep, Stutters DEF Next
  <1> QED
    BY Starts, <1>1, PTL DEF Spec

\* The tables of vpn.go and the account in NetBird keep their types: a row holds at
\* most one grant, of its own user; who is approved is a device; and the mutex of
\* ensureAccessPolicy is held exactly by the request that moves the account over.
THEOREM VpnTypeCorrect == Spec => []TypeOK
  <1>1. VpnInv => TypeOK
    <2> SUFFICES ASSUME VpnInv PROVE TypeOK
      OBVIOUS
    <2>1. /\ twoFactor \in BOOLEAN /\ mfa \in BOOLEAN
          /\ failing \in Flaky \union {"nothing"}
          /\ asked \in 0 .. MaxRequests /\ lastGrant \in 0 .. MaxGrants
      BY Zenon DEF VpnInv, BoundsInv
    <2>2. \A u \in Users : Cardinality(access[u]) <= 1 /\ \A g \in access[u] : g.user = u
      <3> TAKE u \in Users
      <3>1. CASE access[u] = {}
        BY <3>1, FS_EmptySet
      <3>2. CASE \E g \in Grants : access[u] = {g} /\ g.user = u
        <4>1. PICK g \in Grants : access[u] = {g} /\ g.user = u
          BY <3>2
        <4>2. Cardinality({g}) = 1
          BY FS_Singleton
        <4> QED
          BY <4>1, <4>2
      <3> QED
        BY <3>1, <3>2 DEF VpnInv, TablesInv
    <2>3. lastDevice \in 0 .. MaxDevices
      <3>1. lastDevice \in 1 .. MaxDevices
        BY Zenon DEF VpnInv, TablesInv
      <3> QED
        BY <3>1, Bounds
    <2>4. /\ access \in [Users -> SUBSET Grants]
          /\ grants \subseteq Grants /\ devices \subseteq Devices /\ approved \subseteq devices
          /\ policies \subseteq {"Default", "approved devices"}
          /\ admitted \subseteq Devices /\ blurred \subseteq Users
          /\ mu \in Workers \union {NoLock}
      BY DEF VpnInv, TablesInv, MoveInv
    <2>5. ASSUME NEW w \in Workers
          PROVE  /\ job[w].op \in {"none", "enable", "revoke", "approve", "remove",
                                   "two factor", "sync"}
                 /\ job[w].user \in Users /\ job[w].dev \in Devices /\ job[w].on \in BOOLEAN
                 /\ mu = w <=> job[w].pc \in {"list all", "approve all", "drop default"}
      <3>1. job[w] \in Jobs
        BY DEF VpnInv, JobsInv
      <3>2. /\ job[w].op \in Ops /\ job[w].user \in Users /\ job[w].dev \in Devices
            /\ job[w].on \in BOOLEAN
        BY <3>1, JobParts, Zenon
      <3>3. mu = w <=> job[w].pc \in Held
        BY DEF VpnInv, MoveInv
      <3> QED
        BY <3>2, <3>3, Zenon DEF Ops, Held
    <2> QED
      BY <2>1, <2>2, <2>3, <2>4, <2>5, Zenon DEF TypeOK
  <1> QED
    BY Invariance, <1>1, PTL

\* Once the account has been moved over, only devices that an admin asked for, whose
\* owner signed in with a code or that were there before are on the VPN, although
\* the members of vpn-approved are read and written back by requests that overlap.
THEOREM OnlyAdmittedJoin == Spec => []OnlyAdmitted
  <1>1. VpnInv => OnlyAdmitted
    BY DEF VpnInv, AdmitInv, OnlyAdmitted, OnTheVpn
  <1> QED
    BY Invariance, <1>1, PTL

\* The grants that work are those on record, and nobody without a row has a device,
\* unless two requests about the user overlapped or one failed half-way.
THEOREM AccessOnRecord == Spec => []AccessIsRecorded
  <1>1. VpnInv => AccessIsRecorded
    BY DEF VpnInv, AccessInv, AccessIsRecorded, RecordedOf, DevicesOf, Has, Devs
  <1> QED
    BY Invariance, <1>1, PTL

\* The step that drops the Default policy takes the VPN from no device that was
\* enrolled when the move began.
THEOREM NobodyIsLeftOut == Spec => NobodyLosesAccess
  <1> DEFINE Keeps ==
         \A w \in Workers :
            "Default" \in policies /\ "Default" \notin policies' /\ job[w].pc = "drop default" =>
               job[w].seen \intersect devices' \subseteq approved'
  <1>1. VpnInv /\ [Next]_vars => [Keeps]_vars
    <2> SUFFICES ASSUME VpnInv, Next, NEW v \in Workers, "Default" \in policies,
                        "Default" \notin policies', job[v].pc = "drop default"
                 PROVE  job[v].seen \intersect devices' \subseteq approved'
      BY DEF Keeps
    <2>1. policies' = policies \/ \E w \in Workers : Step(w)
      BY DEF Next, Enrol, KeyExpires
    <2>2. PICK w \in Workers : Step(w)
      BY <2>1
    <2>3. Effect(w)
      BY <2>2, Effects DEF VpnInv
    <2>4. DefaultDropped(w)
      BY <2>3
      DEF Effect, Begun, Failed, RowRead, OldDeleted, Quiet, Made, Wrote, OwnDeleted, Ended,
          PolicyMade, AllApproved, StillPolicy
    <2> QED
      BY <2>4 DEF DefaultDropped, StillAccount, VpnInv, MoveInv
  <1> QED
    BY Invariance, <1>1, PTL DEF Spec, NobodyLosesAccess

----------------------------------------------------------------------------
(* One request at a time.                                                  *)

\* Nobody has a login without a code: it is switched on before a login is made, and
\* switched off only by a request that finds no login on record.
CodesInv ==
    blurred = {} =>
        /\ (\E g \in grants : g.login) => mfa
        /\ \A w \in Workers :
            /\ job[w].pc = "create login" => mfa
            /\ job[w].pc = "mfa set" /\ ~job[w].on => \A g \in grants : ~g.login

\* Who is blurred stays so.
LEMMA BlurredStays ==
    ASSUME [Next]_vars
    PROVE  blurred \subseteq blurred'
  <1>1. ASSUME NEW w \in Workers,
               EnableUser(w) \/ DisableUser(w) \/ ApproveDevice(w) \/ RemoveDevice(w)
               \/ SaveTwoFactor(w) \/ Sync(w)
        PROVE  blurred \subseteq blurred'
    BY <1>1 DEF EnableUser, DisableUser, ApproveDevice, RemoveDevice, SaveTwoFactor, Sync,
       history
  <1>2. ASSUME NEW w \in Workers, Blur(w) PROVE blurred \subseteq blurred'
    BY <1>2 DEF Blur
  <1>3. CASE UNCHANGED blurred
    BY <1>3
  <1>4. ASSUME NEW w \in Workers, Step(w) PROVE blurred \subseteq blurred'
    <2>1. \/ UNCHANGED blurred \/ Blur(w)
          \/ EnableUser(w) \/ DisableUser(w) \/ ApproveDevice(w) \/ RemoveDevice(w)
          \/ SaveTwoFactor(w) \/ Sync(w)
      BY <1>4, Zenon
      DEF Step, ReadRow, DeleteOld, Choose, TurnMfaOn, CreateSetupKey, CreateLocalUser, NewGrant,
          Record, ListOwn, DeleteOwn, DeleteRow, ReadGroup, WriteGroup, DeletePeer, SaveOption,
          ReadWanted, SetMfa, Policy, ListAll, ApproveAll, DropDefault, Fail, history
    <2> QED
      BY <1>1, <1>2, <1>3, <2>1, Zenon
  <1> QED
    BY <1>3, <1>4, Zenon DEF Next, Enrol, KeyExpires, vars, history

\* A request that reads that no code is wanted finds every login on record.
LEMMA NoLoginUnread ==
    ASSUME VpnInv, NEW w \in Workers, \A v \in Workers : v = w, blurred = {},
           job[w].op \in {"two factor", "sync"}, ~vpnMFAWanted, NEW g \in grants
    PROVE  ~g.login
  <1>1. g \in Grants /\ g.user \in Users
    BY DEF VpnInv, TablesInv, Grants
  <1>2. Busy(g.user) = {}
    BY DEF Busy
  <1>3. g \in access[g.user]
    BY <1>1, <1>2 DEF VpnInv, AccessInv, RecordedOf, Has
  <1> QED
    BY <1>1, <1>3, Zenon DEF vpnMFAWanted

\* What a step does to the code, the logins and the calls that depend on them.
LEMMA CodesStep ==
    ASSUME VpnInv, CodesInv, [Next]_vars, \A v, w \in Workers : v = w, "db" \notin Flaky
    PROVE  CodesInv'
  <1> SUFFICES ASSUME blurred' = {}
               PROVE  /\ (\E g \in grants' : g.login) => mfa'
                      /\ \A w \in Workers :
                          /\ job'[w].pc = "create login" => mfa'
                          /\ job'[w].pc = "mfa set" /\ ~job'[w].on => \A g \in grants' : ~g.login
    BY DEF CodesInv
  <1>0. /\ blurred = {} /\ job \in [Workers -> Jobs]
        /\ (\E g \in grants : g.login) => mfa
        /\ \A w \in Workers :
            /\ job[w].pc = "create login" => mfa
            /\ job[w].pc = "mfa set" /\ ~job[w].on => \A g \in grants : ~g.login
    BY BlurredStays DEF CodesInv, VpnInv, JobsInv
  <1>1. ASSUME UNCHANGED job, UNCHANGED mfa, grants' \subseteq grants
        PROVE  /\ (\E g \in grants' : g.login) => mfa'
               /\ \A w \in Workers :
                   /\ job'[w].pc = "create login" => mfa'
                   /\ job'[w].pc = "mfa set" /\ ~job'[w].on => \A g \in grants' : ~g.login
    BY <1>0, <1>1, Zenon
  <1>2. ASSUME NEW w \in Workers, Step(w)
        PROVE  /\ (\E g \in grants' : g.login) => mfa'
               /\ job'[w].pc = "create login" => mfa'
               /\ job'[w].pc = "mfa set" /\ ~job'[w].on => \A g \in grants' : ~g.login
    <2> DEFINE Calm == job'[w].pc \notin {"create login", "mfa set"}
               Goal == /\ (\E g \in grants' : g.login) => mfa'
                       /\ job'[w].pc = "create login" => mfa'
                       /\ job'[w].pc = "mfa set" /\ ~job'[w].on => \A g \in grants' : ~g.login
    <2>0. job[w] \in Jobs /\ JobOK(job[w])
      BY <1>0 DEF VpnInv, JobsInv
    <2>1. ASSUME Calm, UNCHANGED mfa, \A g \in grants' : g.login => g \in grants PROVE Goal
      BY <1>0, <2>1, Zenon
    <2>2. ASSUME NEW n, Goto(w, n) PROVE job'[w].pc = n /\ job'[w].on = job[w].on
      BY <1>0, <2>2 DEF Goto, Jobs
    <2>3. ASSUME NEW n, NEW s, See(w, n, s) PROVE job'[w].pc = n
      BY <1>0, <2>3 DEF See, Jobs
    <2>4. ASSUME Done(w) PROVE Calm
      BY <1>0, <2>4 DEF Done, Idle
    <2>5. ASSUME NEW what, Fail(w, what) PROVE Calm
      BY <2>4, <2>5 DEF Fail
    <2>6. CASE TurnMfaOn(w)
      <3>1. UNCHANGED grants
        BY <2>6 DEF TurnMfaOn
      <3>2. CASE SetLocalMFA(TRUE) /\ Goto(w, "create login")
        <4>1. mfa' = TRUE
          BY <3>2 DEF SetLocalMFA
        <4>2. job'[w].pc = "create login"
          BY <2>2, <3>2
        <4> QED
          BY <4>1, <4>2
      <3>3. CASE Fail(w, "netbird") /\ UNCHANGED mfa
        BY <2>1, <2>5, <3>1, <3>3
      <3> QED
        BY <2>6, <3>2, <3>3 DEF TurnMfaOn
    <2>7. CASE CreateLocalUser(w)
      <3>1. mfa /\ UNCHANGED mfa
        BY <1>0, <2>7, Zenon DEF CreateLocalUser, NewGrant
      <3>2. Calm
        BY <2>3, <2>5, <2>7 DEF CreateLocalUser, NewGrant
      <3> QED
        BY <3>1, <3>2
    <2>8. CASE CreateSetupKey(w)
      <3>1. UNCHANGED mfa
        BY <2>8 DEF CreateSetupKey, NewGrant
      <3>2. Calm
        BY <2>3, <2>5, <2>8 DEF CreateSetupKey, NewGrant
      <3>3. \A g \in grants' : g.login => g \in grants
        <4>1. \/ UNCHANGED grants
              \/ grants' = grants \union {[id |-> lastGrant + 1, user |-> job[w].user,
                                          login |-> FALSE]}
          BY <2>8 DEF CreateSetupKey, NewGrant
        <4> QED
          BY <4>1
      <3> QED
        BY <2>1, <3>1, <3>2, <3>3
    <2>9. CASE ReadWanted(w)
      <3>1. UNCHANGED mfa /\ UNCHANGED grants
        BY <2>9 DEF ReadWanted, account
      <3>2. ~Fails("db")
        BY DEF Fails, VpnInv, BoundsInv
      <3>3. job' = [job EXCEPT ![w].pc = "mfa set", ![w].on = vpnMFAWanted]
        BY <2>9, <3>2 DEF ReadWanted
      <3>4. job'[w].pc = "mfa set" /\ (job'[w].on <=> vpnMFAWanted)
        BY <1>0, <3>3 DEF Jobs
      <3>5. job[w].op \in {"two factor", "sync"}
        BY <2>0, <2>9 DEF ReadWanted, JobOK
      <3>6. ~vpnMFAWanted => \A g \in grants : ~g.login
        BY <1>0, <3>5, NoLoginUnread
      <3>7. (\E g \in grants' : g.login) => mfa'
        BY <1>0, <3>1
      <3> QED
        BY <3>1, <3>4, <3>6, <3>7, Zenon
    <2>10. CASE SetMfa(w)
      <3>1. UNCHANGED grants /\ job[w].pc = "mfa set" /\ Calm
        BY <2>4, <2>10 DEF SetMfa
      <3>2. CASE SetLocalMFA(job[w].on)
        <4>1. mfa' = job[w].on
          BY <3>2 DEF SetLocalMFA
        <4>2. ~job[w].on => \A g \in grants : ~g.login
          BY <1>0, <3>1
        <4> QED
          BY <3>1, <4>1, <4>2, Zenon
      <3>3. CASE UNCHANGED mfa
        BY <2>1, <3>1, <3>3
      <3> QED
        BY <2>10, <3>2, <3>3 DEF SetMfa
    <2>11. ASSUME EnableUser(w) \/ DisableUser(w) \/ ApproveDevice(w) \/ RemoveDevice(w)
                  \/ SaveTwoFactor(w) \/ Sync(w)
           PROVE  Goal
      <3>1. UNCHANGED mfa /\ UNCHANGED grants
        BY <2>11 DEF EnableUser, DisableUser, ApproveDevice, RemoveDevice, SaveTwoFactor, Sync,
           account
      <3>3. CASE EnableUser(w) \/ DisableUser(w)
        <4>1. PICK u, o : job' = [job EXCEPT ![w] = [Idle EXCEPT !.op = o, !.pc = "read row",
                                                                 !.user = u]]
          BY <3>3, Zenon DEF EnableUser, DisableUser, Begin
        <4>2. job'[w].pc = "read row"
          BY <1>0, <4>1 DEF Idle
        <4> QED
          BY <2>1, <3>1, <4>2
      <3>4. CASE ApproveDevice(w) \/ RemoveDevice(w)
        <4>1. PICK d, o : \E p \in {"policy", "remove"} :
                 job' = [job EXCEPT ![w] = [Idle EXCEPT !.op = o, !.pc = p, !.dev = d]]
          BY <3>4, Zenon DEF ApproveDevice, RemoveDevice, Begin
        <4>2. job'[w].pc \in {"policy", "remove"}
          BY <1>0, <4>1 DEF Idle
        <4> QED
          BY <2>1, <3>1, <4>2
      <3>5. CASE SaveTwoFactor(w)
        <4>1. PICK on : job' = [job EXCEPT ![w] = [Idle EXCEPT !.op = "two factor",
                                                    !.pc = "save option", !.on = on]]
          BY <3>5, Zenon DEF SaveTwoFactor, Begin
        <4>2. job'[w].pc = "save option"
          BY <1>0, <4>1 DEF Idle
        <4> QED
          BY <2>1, <3>1, <4>2
      <3>6. CASE Sync(w)
        <4>1. job' = [job EXCEPT ![w] = [Idle EXCEPT !.op = "sync", !.pc = "policy"]]
          BY <3>6, Zenon DEF Sync, Begin
        <4>2. job'[w].pc = "policy"
          BY <1>0, <4>1 DEF Idle
        <4> QED
          BY <2>1, <3>1, <4>2
      <3> QED
        BY <2>11, <3>3, <3>4, <3>5, <3>6
    <2>12. ASSUME Policy(w) \/ DropDefault(w) PROVE Goal
      <3>1. UNCHANGED mfa /\ UNCHANGED grants
        BY <2>12 DEF Policy, DropDefault
      <3>2. job[w].op \in {"enable", "approve", "sync"}
        BY <2>0, <2>12 DEF Policy, DropDefault, JobOK, Held
      <3>3. ASSUME AfterPolicy(w) PROVE Calm
        <4>1. CASE job[w].op = "enable"
          <5>1. Goto(w, "mfa on")
            BY <3>3, <4>1 DEF AfterPolicy
          <5> QED
            BY <1>0, <5>1 DEF Goto, Jobs
        <4>2. CASE job[w].op = "approve"
          <5>1. Goto(w, "read group")
            BY <3>3, <4>2 DEF AfterPolicy
          <5> QED
            BY <1>0, <5>1 DEF Goto, Jobs
        <4>3. CASE job[w].op = "sync"
          <5>1. Goto(w, "mfa wanted")
            BY <3>3, <4>3 DEF AfterPolicy
          <5> QED
            BY <1>0, <5>1 DEF Goto, Jobs
        <4> QED
          BY <3>2, <4>1, <4>2, <4>3
      <3>4. Calm
        <4>1. \/ Fail(w, "netbird") \/ AfterPolicy(w) \/ Goto(w, "list all")
          BY <2>12, Zenon DEF Policy, DropDefault
        <4>2. ASSUME Goto(w, "list all") PROVE Calm
          BY <1>0, <4>2 DEF Goto, Jobs
        <4> QED
          BY <2>5, <3>3, <4>1, <4>2
      <3> QED
        BY <2>1, <3>1, <3>4
    <2>13. ASSUME ReadRow(w) \/ Choose(w) \/ Record(w) \/ ListOwn(w) \/ DeleteOwn(w)
                  \/ DeleteRow(w) \/ ReadGroup(w) \/ WriteGroup(w) \/ DeletePeer(w)
                  \/ SaveOption(w) \/ ListAll(w) \/ ApproveAll(w)
           PROVE  Goal
      <3>1. UNCHANGED mfa /\ UNCHANGED grants
        BY <2>13 DEF ReadRow, Choose, Record, ListOwn, DeleteOwn, DeleteRow, ReadGroup,
           WriteGroup, DeletePeer, SaveOption, ListAll, ApproveAll, account
      <3>2. ASSUME NEW n \in {"choose", "create key", "policy", "delete row", "mfa wanted",
                               "drop default"},
                   Goto(w, n)
            PROVE  Calm
        BY <2>2, <3>2
      <3>3. ASSUME NEW n \in {"delete old", "delete own", "write group", "approve all"},
                   NEW s, See(w, n, s)
            PROVE  Calm
        BY <2>3, <3>3
      <3>4. CASE ReadRow(w) \/ Choose(w) \/ Record(w) \/ ListOwn(w)
        <4>1. \/ Done(w) \/ (\E s : See(w, "delete old", s) \/ See(w, "delete own", s))
              \/ (\E what : Fail(w, what)) \/ Goto(w, "policy") \/ Goto(w, "create key")
          BY <3>4 DEF ReadRow, Choose, Record, ListOwn
        <4>2. Calm
          BY <2>4, <2>5, <3>2, <3>3, <4>1
        <4> QED
          BY <2>1, <3>1, <4>2
      <3>5. CASE DeleteOwn(w) \/ DeleteRow(w) \/ ReadGroup(w) \/ WriteGroup(w)
        <4>1. \/ Done(w) \/ (\E s : See(w, "write group", s))
              \/ (\E what : Fail(w, what)) \/ Goto(w, "delete row")
          BY <3>5 DEF DeleteOwn, DeleteRow, ReadGroup, WriteGroup
        <4>2. Calm
          BY <2>4, <2>5, <3>2, <3>3, <4>1
        <4> QED
          BY <2>1, <3>1, <4>2
      <3>6. CASE DeletePeer(w) \/ SaveOption(w) \/ ListAll(w) \/ ApproveAll(w)
        <4>1. \/ Done(w) \/ (\E s : See(w, "approve all", s))
              \/ (\E what : Fail(w, what)) \/ Goto(w, "mfa wanted") \/ Goto(w, "drop default")
          BY <3>6 DEF DeletePeer, SaveOption, ListAll, ApproveAll
        <4>2. Calm
          BY <2>4, <2>5, <3>2, <3>3, <4>1
        <4> QED
          BY <2>1, <3>1, <4>2
      <3> QED
        BY <2>13, <3>4, <3>5, <3>6
    <2>14. CASE DeleteOld(w)
      <3>1. UNCHANGED mfa /\ grants' \subseteq grants
        BY <2>14 DEF DeleteOld, DeleteGrants
      <3>2. Calm
        <4>1. Goto(w, "choose") \/ Goto(w, "list own")
          BY <2>14 DEF DeleteOld
        <4> QED
          BY <1>0, <4>1 DEF Goto, Jobs
      <3> QED
        BY <2>1, <3>1, <3>2
    <2> QED
      BY <1>2, <2>6, <2>7, <2>8, <2>9, <2>10, <2>11, <2>12, <2>13, <2>14, Zenon DEF Step
  <1>3. CASE Enrol \/ KeyExpires
    BY <1>1, <1>3 DEF Enrol, KeyExpires
  <1>4. CASE UNCHANGED vars
    BY <1>1, <1>4 DEF vars, account
  <1> QED
    BY <1>2, <1>3, <1>4, Zenon DEF Next

\* With one request at a time and a database that answers, whoever can sign in with a
\* password needs a code, too, until a request about somebody fails half-way: the
\* option can be turned on and off, and people given access and deprived of it,
\* in any order. VpnCodes.cfg shows what two requests at once do to it.
THEOREM CodesAreKept ==
    ASSUME \A v, w \in Workers : v = w, "db" \notin Flaky
    PROVE  Spec => [](blurred = {} => LoginsNeedCodes)
  <1>1. Init => CodesInv
    <2> SUFFICES ASSUME Init PROVE CodesInv
      OBVIOUS
    <2>1. grants = {} /\ job = [w \in Workers |-> Idle] /\ Idle.pc = "idle"
      BY DEF Init, Idle
    <2> QED
      BY <2>1 DEF CodesInv

  <1>2. VpnInv /\ CodesInv /\ [Next]_vars => CodesInv'
    BY CodesStep
  <1>3. CodesInv => (blurred = {} => LoginsNeedCodes)
    BY DEF CodesInv, LoginsNeedCodes
  <1> QED
    BY <1>1, <1>2, <1>3, Invariance, PTL DEF Spec
============================================================================
