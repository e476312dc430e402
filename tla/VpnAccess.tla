------------------------------- MODULE VpnAccess -------------------------------
(***************************************************************************)
(* Who is on the company VPN: the admin's requests (vpn.go), call by call, *)
(* over the platform's own rows and the account in the NetBird server,     *)
(* which employees' devices join beside them.  Requests run at once: the   *)
(* code only serialises ensureAccessPolicy.                                *)
(*                                                                         *)
(* What lets a person's devices join, a setup key or a login, is a grant   *)
(* here.  The personal group that tells whose a device is, is the device's *)
(* user.  VpnGateway has the routes and the office network.                *)
(***************************************************************************)
EXTENDS Integers, FiniteSets

CONSTANTS
    Users, Workers,
    Flaky,       \* what may fail: "db", "netbird"
    MaxGrants, MaxDevices, MaxRequests  \* bounds

ASSUME VpnConstants ==
    /\ Users # {} /\ Workers # {} /\ "nobody" \notin Workers
    /\ Flaky \subseteq {"db", "netbird"}
    /\ {MaxGrants, MaxRequests} \subseteq Nat /\ MaxDevices \in Nat \ {0}

VARIABLES
    twoFactor, \* platform_settings.vpn_two_factor
    access,    \* vpn_access: each user's recorded grant, {} for no row
    grants,    \* NetBird: the setup keys and logins a device can join with
    devices,   \* NetBird: its peers
    approved,  \* NetBird: the members of vpn-approved
    policies,  \* NetBird: the access policies of the account
    mfa,       \* NetBird: local_mfa_enabled
    mu,        \* accessPolicyMu: who holds it
    job,       \* each worker's request
    failing,   \* bound: what fails now and then, if anything
    asked, lastGrant, lastDevice,  \* counters behind the bounds
    admitted,  \* history: the devices that somebody let in
    blurred    \* history: whose requests overlapped or failed half-way

rows    == <<twoFactor, access>>
account == <<grants, devices, approved, policies, mfa>>
bounds  == <<failing, asked, lastGrant, lastDevice>>
history == <<admitted, blurred>>
vars == <<rows, account, mu, job, bounds, history>>

Grants  == [id : 1 .. MaxGrants, user : Users, login : BOOLEAN]
Devices == [id : 0 .. MaxDevices, user : Users]
AnyUser == CHOOSE u \in Users : TRUE
Idle    == [op |-> "none", pc |-> "idle", user |-> AnyUser,
            dev |-> [id |-> 0, user |-> AnyUser], on |-> FALSE, seen |-> {}]
NoLock  == "nobody"

Busy(u) == {w \in Workers : job[w].op \in {"enable", "revoke"} /\ job[w].user = u}

TypeOK ==
    /\ twoFactor \in BOOLEAN /\ access \in [Users -> SUBSET Grants]
    /\ \A u \in Users : Cardinality(access[u]) <= 1 /\ \A g \in access[u] : g.user = u
    /\ grants \subseteq Grants /\ devices \subseteq Devices /\ approved \subseteq devices
    /\ policies \subseteq {"Default", "approved devices"} /\ mfa \in BOOLEAN
    /\ mu \in Workers \union {NoLock}
    /\ \A w \in Workers :
        /\ job[w].op \in {"none", "enable", "revoke", "approve", "remove", "two factor",
                          "sync"}
        /\ job[w].user \in Users /\ job[w].dev \in Devices /\ job[w].on \in BOOLEAN
        /\ mu = w <=> job[w].pc \in {"list all", "approve all", "drop default"}
    /\ failing \in Flaky \union {"nothing"}
    /\ asked \in 0 .. MaxRequests
    /\ lastGrant \in 0 .. MaxGrants /\ lastDevice \in 0 .. MaxDevices
    /\ admitted \subseteq Devices /\ blurred \subseteq Users

\* An account as NetBird creates it, with one device that joined it before the
\* access policy was introduced.
Init ==
    /\ twoFactor = FALSE /\ access = [u \in Users |-> {}]
    /\ grants = {} /\ devices = {[id |-> 1, user |-> AnyUser]}
    /\ approved = {} /\ policies = {"Default"} /\ mfa = FALSE
    /\ mu = NoLock /\ job = [w \in Workers |-> Idle]
    /\ failing \in Flaky \union {"nothing"}
    /\ asked = 0 /\ lastGrant = 0 /\ lastDevice = 1
    /\ admitted = {} /\ blurred = {}

----------------------------------------------------------------------------
(* Requests.                                                               *)

Goto(w, pc) == job' = [job EXCEPT ![w].pc = pc]
See(w, pc, what) == job' = [job EXCEPT ![w].pc = pc, ![w].seen = what]
Done(w) == job' = [job EXCEPT ![w] = Idle]
Fails(what) == failing = what
Blur(w) == blurred' = IF job[w].op \in {"enable", "revoke"}
                      THEN blurred \union {job[w].user} ELSE blurred

\* A call that fails ends the request with an error.
Fail(w, what) == Fails(what) /\ Done(w) /\ Blur(w) /\ UNCHANGED admitted

Begin(w, request) ==
    /\ job[w].op = "none" /\ asked < MaxRequests
    /\ asked' = asked + 1
    /\ job' = [job EXCEPT ![w] = request]
    /\ UNCHANGED <<failing, lastGrant, lastDevice>>

\* The VPN page: a user's access, the devices, the 2FA option.
EnableUser(w) ==
    \E u \in Users :
        /\ Begin(w, [Idle EXCEPT !.op = "enable", !.pc = "read row", !.user = u])
        /\ blurred' = IF Busy(u) = {} THEN blurred ELSE blurred \union {u}
        /\ UNCHANGED <<rows, account, mu, admitted>>

DisableUser(w) ==
    \E u \in Users :
        /\ Begin(w, [Idle EXCEPT !.op = "revoke", !.pc = "read row", !.user = u])
        /\ blurred' = IF Busy(u) = {} THEN blurred ELSE blurred \union {u}
        /\ UNCHANGED <<rows, account, mu, admitted>>

ApproveDevice(w) ==
    \E d \in devices :
        /\ Begin(w, [Idle EXCEPT !.op = "approve", !.pc = "policy", !.dev = d])
        /\ admitted' = admitted \union {d}
        /\ UNCHANGED <<rows, account, mu, blurred>>

RemoveDevice(w) ==
    \E d \in devices :
        /\ Begin(w, [Idle EXCEPT !.op = "remove", !.pc = "remove", !.dev = d])
        /\ UNCHANGED <<rows, account, mu, history>>

SaveTwoFactor(w) ==
    \E on \in BOOLEAN :
        /\ Begin(w, [Idle EXCEPT !.op = "two factor", !.pc = "save option", !.on = on])
        /\ UNCHANGED <<rows, account, mu, history>>

\* syncGatewayRoutes begins with the access policy and the 2FA option.
Sync(w) ==
    /\ Begin(w, [Idle EXCEPT !.op = "sync", !.pc = "policy"])
    /\ UNCHANGED <<rows, account, mu, history>>

\* Both look for the grant to take away; a row that cannot be read is no row.
ReadRow(w) ==
    /\ job[w].pc = "read row"
    /\ \/ See(w, "delete old", access[job[w].user]) /\ UNCHANGED history
       \/ Fails("db") /\ See(w, "delete old", {}) /\ Blur(w) /\ UNCHANGED admitted
       \/ job[w].op = "enable" /\ Fail(w, "netbird") \* userVpnGroup
    /\ UNCHANGED <<rows, account, mu, bounds>>

\* Mutant: the new access is made beside the old.
DeleteOld_RevokeOnly(w) ==
    /\ job[w].pc = "delete old"
    /\ Goto(w, IF job[w].op = "enable" THEN "choose" ELSE "list own")
    /\ grants' = IF job[w].op = "enable" THEN grants ELSE grants \ job[w].seen
    /\ UNCHANGED <<rows, devices, approved, policies, mfa, mu, bounds, history>>

DeleteGrants(old) == grants' = grants \ old

\* "The old key or login must not stay valid": a failure is logged.
DeleteOld(w) ==
    /\ job[w].pc = "delete old"
    /\ Goto(w, IF job[w].op = "enable" THEN "choose" ELSE "list own")
    /\ \/ DeleteGrants(job[w].seen) /\ UNCHANGED history
       \/ Fails("netbird") /\ Blur(w) /\ UNCHANGED <<grants, admitted>>
    /\ UNCHANGED <<rows, devices, approved, policies, mfa, mu, bounds>>

SetLocalMFA(on) == mfa' = on

\* A login when the 2FA option is on (and can be read), else a setup key.
Choose(w) ==
    /\ job[w].pc = "choose"
    /\ \/ Goto(w, IF twoFactor THEN "policy" ELSE "create key")
       \/ Fails("db") /\ Goto(w, "create key")
    /\ UNCHANGED <<rows, account, mu, bounds, history>>

\* A login is made after the code has been switched on.
TurnMfaOn(w) ==
    /\ job[w].pc = "mfa on"
    /\ \/ SetLocalMFA(TRUE) /\ Goto(w, "create login") /\ UNCHANGED history
       \/ Fail(w, "netbird") /\ UNCHANGED mfa
    /\ UNCHANGED <<rows, grants, devices, approved, policies, mu, bounds>>

NewGrant(w, login) ==
    /\ \/ /\ lastGrant < MaxGrants /\ lastGrant' = lastGrant + 1
          /\ LET made == [id |-> lastGrant + 1, user |-> job[w].user, login |-> login]
             IN grants' = grants \union {made} /\ See(w, "record", {made})
          /\ UNCHANGED history
       \/ Fail(w, "netbird") /\ UNCHANGED <<grants, lastGrant>>
    /\ UNCHANGED <<rows, devices, approved, policies, mfa, mu, failing, asked, lastDevice>>

CreateSetupKey(w)  == job[w].pc = "create key" /\ NewGrant(w, FALSE)
CreateLocalUser(w) == job[w].pc = "create login" /\ NewGrant(w, TRUE)

\* The row is written last.
Record(w) ==
    /\ job[w].pc = "record"
    /\ \/ /\ access' = [access EXCEPT ![job[w].user] = job[w].seen]
          /\ Done(w) /\ UNCHANGED history
       \/ Fail(w, "db") /\ UNCHANGED access
    /\ UNCHANGED <<twoFactor, account, mu, bounds>>

\* The members of the user's personal group, which tells whose a device is.
userVpnGroup(u) == {d \in devices : d.user = u}

\* Revoking goes on to the person's devices.
ListOwn(w) ==
    /\ job[w].pc = "list own"
    /\ \/ See(w, "delete own", userVpnGroup(job[w].user)) /\ UNCHANGED history
       \/ Fail(w, "netbird")
    /\ UNCHANGED <<rows, account, mu, bounds>>

DeletePeers(gone) == devices' = devices \ gone /\ approved' = approved \ gone

\* One by one, until one fails.
DeleteOwn(w) ==
    /\ job[w].pc = "delete own"
    /\ \E gone \in SUBSET job[w].seen :
        /\ DeletePeers(gone)
        /\ \/ gone = job[w].seen /\ Goto(w, "delete row") /\ UNCHANGED history
           \/ gone # job[w].seen /\ Fail(w, "netbird")
    /\ UNCHANGED <<rows, grants, policies, mfa, mu, bounds>>

DeleteRow(w) ==
    /\ job[w].pc = "delete row"
    /\ \/ access' = [access EXCEPT ![job[w].user] = {}] /\ Done(w) /\ UNCHANGED history
       \/ Fail(w, "db") /\ UNCHANGED access
    /\ UNCHANGED <<twoFactor, account, mu, bounds>>

\* NetBird replaces the whole list; who is no device any more stays out.
setGroupPeers(peers) == approved' = peers \intersect devices

\* AddPeerToGroup reads the members and writes them all back.
ReadGroup(w) ==
    /\ job[w].pc = "read group"
    /\ \/ IF job[w].dev \in approved THEN Done(w) ELSE See(w, "write group", approved)
       \/ Fails("netbird") /\ Done(w)
    /\ UNCHANGED <<rows, account, mu, bounds, history>>

WriteGroup(w) ==
    /\ job[w].pc = "write group" /\ Done(w)
    /\ \/ setGroupPeers(job[w].seen \union {job[w].dev})
       \/ Fails("netbird") /\ UNCHANGED approved
    /\ UNCHANGED <<rows, grants, devices, policies, mfa, mu, bounds, history>>

DeletePeer(w) ==
    /\ job[w].pc = "remove" /\ Done(w)
    /\ \/ DeletePeers({job[w].dev})
       \/ Fails("netbird") /\ UNCHANGED <<devices, approved>>
    /\ UNCHANGED <<rows, grants, policies, mfa, mu, bounds, history>>

SaveOption(w) ==
    /\ job[w].pc = "save option"
    /\ \/ twoFactor' = job[w].on /\ Goto(w, "mfa wanted") /\ UNCHANGED history
       \/ Fail(w, "db") /\ UNCHANGED twoFactor
    /\ UNCHANGED <<access, account, mu, bounds>>

\* The option, or anyone recorded with a login.
vpnMFAWanted == twoFactor \/ \E u \in Users : \E g \in access[u] : g.login

\* Errors read as no.
ReadWanted(w) ==
    /\ job[w].pc = "mfa wanted"
    /\ \E on \in BOOLEAN :
        /\ on = vpnMFAWanted \/ (~on /\ Fails("db"))
        /\ job' = [job EXCEPT ![w].pc = "mfa set", ![w].on = on]
    /\ UNCHANGED <<rows, account, mu, bounds, history>>

SetMfa(w) ==
    /\ job[w].pc = "mfa set" /\ Done(w)
    /\ \/ SetLocalMFA(job[w].on)
       \/ Fails("netbird") /\ UNCHANGED mfa
    /\ UNCHANGED <<rows, grants, devices, approved, policies, mu, bounds, history>>

----------------------------------------------------------------------------
(* ensureAccessPolicy: a device reaches nothing until it is approved.  An  *)
(* account that still has NetBird's "Default" policy is moved over first.  *)

\* Where each caller goes on.
AfterPolicy(w) ==
    Goto(w, CASE job[w].op = "enable"  -> "mfa on"
              [] job[w].op = "approve" -> "read group"
              [] job[w].op = "sync"    -> "mfa wanted")

CreateAllowPolicy == policies' = policies \union {"approved devices"}
DeletePolicy      == policies' = policies \ {"Default"}

\* Mutant: every account is taken for a new one.
Policy_AlwaysMoves(w) ==
    /\ job[w].pc = "policy" /\ mu = NoLock
    /\ \/ /\ CreateAllowPolicy /\ UNCHANGED history
          /\ mu' = w /\ Goto(w, "list all")
       \/ Fail(w, "netbird") /\ UNCHANGED <<policies, mu>>
    /\ UNCHANGED <<rows, grants, devices, approved, mfa, bounds>>

\* Groups and policies are listed, and the two of the platform made.
Policy(w) ==
    /\ job[w].pc = "policy" /\ mu = NoLock
    /\ \/ /\ CreateAllowPolicy /\ UNCHANGED history
          /\ IF "Default" \in policies THEN mu' = w /\ Goto(w, "list all")
             ELSE AfterPolicy(w) /\ UNCHANGED mu
       \/ Fail(w, "netbird") /\ UNCHANGED <<policies, mu>>
    /\ UNCHANGED <<rows, grants, devices, approved, mfa, bounds>>

\* Mutant: an error leaves the mutex locked.
ListAll_NoDefer(w) ==
    /\ job[w].pc = "list all"
    /\ \/ See(w, "approve all", devices) /\ UNCHANGED history
       \/ Fail(w, "netbird")
    /\ UNCHANGED <<rows, account, mu, bounds>>

\* AddAllPeersToGroup: the list, then the group's members.
ListAll(w) ==
    /\ job[w].pc = "list all"
    /\ \/ See(w, "approve all", devices) /\ UNCHANGED <<mu, history>>
       \/ Fail(w, "netbird") /\ mu' = NoLock
    /\ UNCHANGED <<rows, account, bounds>>

\* Mutant: only devices of people with access on record are moved.
ApproveAll_OnRecord(w) ==
    /\ job[w].pc = "approve all"
    /\ setGroupPeers({d \in job[w].seen : access[d.user] # {}})
    /\ admitted' = admitted \union job[w].seen
    /\ Goto(w, "drop default")
    /\ UNCHANGED <<rows, grants, devices, policies, mfa, mu, bounds, blurred>>

ApproveAll(w) ==
    /\ job[w].pc = "approve all"
    /\ \/ /\ setGroupPeers(job[w].seen)
          /\ admitted' = IF "Default" \in policies THEN admitted \union job[w].seen ELSE admitted
          /\ Goto(w, "drop default") /\ UNCHANGED <<mu, blurred>>
       \/ Fail(w, "netbird") /\ mu' = NoLock /\ UNCHANGED approved
    /\ UNCHANGED <<rows, grants, devices, policies, mfa, bounds>>

DropDefault(w) ==
    /\ job[w].pc = "drop default" /\ mu' = NoLock
    /\ \/ DeletePolicy /\ AfterPolicy(w) /\ UNCHANGED history
       \/ Fail(w, "netbird") /\ UNCHANGED policies
    /\ UNCHANGED <<rows, grants, devices, approved, mfa, bounds>>

----------------------------------------------------------------------------
(* Devices.                                                                *)

\* A setup key enrols one device, which waits for approval; a login enrols any
\* number, and the code lets them in.
Enrol ==
    /\ lastDevice < MaxDevices /\ lastDevice' = lastDevice + 1
    /\ \E g \in grants :
        LET d == [id |-> lastDevice + 1, user |-> g.user] IN
        /\ devices' = devices \union {d}
        /\ grants' = IF g.login THEN grants ELSE grants \ {g}
        /\ approved' = IF g.login THEN approved \union {d} ELSE approved
        /\ admitted' = IF g.login THEN admitted \union {d} ELSE admitted
    /\ UNCHANGED <<rows, policies, mfa, mu, job, failing, asked, lastGrant, blurred>>

\* A day later.
KeyExpires ==
    /\ \E g \in grants : ~g.login /\ grants' = grants \ {g}
    /\ UNCHANGED <<rows, devices, approved, policies, mfa, mu, job, bounds, history>>

Step(w) ==
    \/ EnableUser(w) \/ DisableUser(w) \/ ApproveDevice(w) \/ RemoveDevice(w)
    \/ SaveTwoFactor(w) \/ Sync(w)
    \/ ReadRow(w) \/ DeleteOld(w) \/ Choose(w) \/ TurnMfaOn(w)
    \/ CreateSetupKey(w) \/ CreateLocalUser(w) \/ Record(w)
    \/ ListOwn(w) \/ DeleteOwn(w) \/ DeleteRow(w) \/ ReadGroup(w) \/ WriteGroup(w)
    \/ DeletePeer(w) \/ SaveOption(w) \/ ReadWanted(w) \/ SetMfa(w)
    \/ Policy(w) \/ ListAll(w) \/ ApproveAll(w) \/ DropDefault(w)

Next == (\E w \in Workers : Step(w)) \/ Enrol \/ KeyExpires
Spec == Init /\ [][Next]_vars

----------------------------------------------------------------------------
(* Properties.                                                             *)

\* What a device reaches another one by.
OnTheVpn == IF "Default" \in policies THEN devices
            ELSE IF "approved devices" \in policies THEN approved ELSE {}

\* Once the account has been moved over, a device is on the VPN only if an admin
\* asked for it, its owner signed in with a code, or it was there before - with
\* any two requests at once (vpn.go: "makes a newly enrolled device useless
\* until an admin approves it").
OnlyAdmitted == "Default" \notin policies => OnTheVpn \subseteq admitted

\* Every grant that works is the one the user's row names, so that revoking or
\* replacing it finds it, and who has no row has no device either - unless two
\* requests about the user overlapped or one failed half-way.
AccessIsRecorded ==
    \A u \in Users \ blurred :
        Busy(u) = {} =>
            /\ {g \in grants : g.user = u} \subseteq access[u]
            /\ access[u] = {} => \A d \in devices : d.user = u => d.id = 1

\* The step that drops the Default policy takes the VPN from no device that was
\* enrolled when the move began, whatever ran beside it (vpn.go: "so nobody
\* loses access").
NobodyLosesAccess ==
    [][\A w \in Workers :
        "Default" \in policies /\ "Default" \notin policies' /\ job[w].pc = "drop default" =>
            job[w].seen \intersect devices' \subseteq approved']_vars

\* Whoever can sign in with a password needs a code, too (vpn.go: turning the
\* option off "must not quietly drop the code requirement for the people who
\* already have one").  Not so: the option saved while a login is being made
\* finds no row of it.
LoginsNeedCodes ==
    (\A w \in Workers : job[w].op = "none") /\ (\E g \in grants : g.login) => mfa
=============================================================================
