------------------------------ MODULE VpnGateway -------------------------------
(***************************************************************************)
(* What the VPN gives access to through the internal gateway:              *)
(* syncGatewayRoutes and syncOfficeNetwork (gateway.go) bring the account  *)
(* in NetBird in line with the office setting in the database.  A sync     *)
(* runs at every saved setting, at every start of the backend and after    *)
(* the VPN module was installed; it is one API call after another, nothing *)
(* serialises two of them, and any call can fail.                          *)
(*                                                                         *)
(* A sync talks to the account by a stored token: without one, or while    *)
(* the module is stopped, it returns having done nothing; with one of an   *)
(* earlier account every call fails.                                       *)
(* The access policy and the 2FA option a sync also applies are VpnAccess. *)
(***************************************************************************)
EXTENDS Integers, Sequences

CONSTANTS
    Lans,     \* office subnets an admin may enter
    Items,    \* entries of the list of ports: "tcp/445", "tcp/80-90", "udp/53", "icmp"
    Workers,
    MaxRequests, MaxFaults, MaxIds \* bounds

Protocol == [i \in {"tcp/445", "tcp/80-90", "udp/53", "icmp"} |->
                CASE i = "udp/53" -> "udp" [] i = "icmp" -> "icmp" [] OTHER -> "tcp"]

ASSUME GatewayConstants ==
    /\ Items \subseteq DOMAIN Protocol /\ Lans # {} /\ Workers # {}
    /\ "off" \notin Lans
    /\ {MaxRequests, MaxFaults} \subseteq Nat /\ MaxIds \in Nat \ {0}

VARIABLES
    setting,  \* platform_settings: the office network, with the ports
    running,  \* installed_modules: the VPN module runs
    token,    \* config.management_pat: of this account, of an earlier one, none
    gateway,  \* the internal gateway is a peer of the NetBird account
    routes,   \* the account's routes with one of the platform's two names
    networks, \* its networks called "office", with what is in them
    policies, \* its policies called "office access <n>"
    job,      \* each worker's sync
    settled,  \* history: the last sync succeeded, with no other beside it
    overlapped, \* history: two syncs have run at once
    asked, faults, lastId \* counters behind the bounds

account == <<token, gateway, routes, networks, policies>>
history == <<settled, overlapped>>
vars == <<setting, running, account, job, history, asked, faults, lastId>>

NoLan    == "off"
Settings == [lan : Lans, items : SUBSET Items] \union {[lan |-> NoLan, items |-> {}]}
Off      == [lan |-> NoLan, items |-> {}]
Idle     == [op |-> "none", pc |-> "idle", want |-> Off, seen |-> {}, net |-> 0,
             next |-> 0, alone |-> TRUE]
Working  == {w \in Workers : job[w].op # "none"}

\* One rule for tcp, one for udp, one for icmp; nothing listed allows everything.
Rule(p, items) == [protocol |-> p, items |-> {i \in items : Protocol[i] = p}]
Listed(p, items) == IF \E i \in items : Protocol[i] = p THEN <<Rule(p, items)>> ELSE <<>>
parseOfficePorts(items) ==
    IF items = {} THEN <<[protocol |-> "all", items |-> {}]>>
    ELSE Listed("tcp", items) \o Listed("udp", items) \o Listed("icmp", items)

\* What the devices on the VPN reach: a LAN by a protocol and port.
Everything   == Items \union {"any other"}
Opened(rule) == IF rule.protocol = "all" THEN Everything ELSE rule.items
Reached == (UNION {n.lans : n \in {m \in networks : m.routed}})
             \X (UNION {Opened(p.rule) : p \in policies})
Allowed(s) == ({s.lan} \ {NoLan}) \X (IF s.items = {} THEN Everything ELSE s.items)

TypeOK ==
    /\ setting \in Settings /\ running \in BOOLEAN /\ gateway \in BOOLEAN
    /\ token \in {"none", "stale", "valid"} /\ (gateway => token = "valid")
    /\ routes \subseteq [id : 1 .. MaxIds, right : BOOLEAN]
    /\ networks \subseteq [id : 1 .. MaxIds, routed : BOOLEAN, lans : SUBSET Lans]
    /\ \A p \in policies : /\ p.id \in 1 .. MaxIds /\ p.slot \in 1 .. 3
                           /\ p.rule.protocol \in {"all", "tcp", "udp", "icmp"}
                           /\ p.rule.items \subseteq Items
    /\ \A m, n \in networks : m.id = n.id => m = n
    /\ \A p, q \in policies : p.id = q.id => p = q
    /\ \A w \in Workers :
        /\ job[w].op \in {"none", "save", "start", "bootstrap"}
        /\ job[w].want \in Settings /\ job[w].alone \in BOOLEAN
    /\ settled \in BOOLEAN /\ overlapped \in BOOLEAN
    /\ asked \in 0 .. MaxRequests /\ faults \in 0 .. MaxFaults /\ lastId \in 0 .. MaxIds

\* An account of an earlier version may hold a route to an old address; an
\* installation that did not finish has no token.
Init ==
    /\ setting = Off /\ running = TRUE /\ token \in {"none", "valid"} /\ gateway = (token = "valid")
    /\ \E old \in SUBSET {[id |-> 1, right |-> FALSE]} : routes = old
    /\ networks = {} /\ policies = {}
    /\ job = [w \in Workers |-> Idle]
    /\ settled = FALSE /\ overlapped = FALSE
    /\ asked = 0 /\ faults = 0 /\ lastId = 1

----------------------------------------------------------------------------
(* What starts a sync.                                                     *)

Begin(w, op, pc) ==
    /\ job[w].op = "none" /\ asked < MaxRequests
    /\ asked' = asked + 1 /\ settled' = FALSE
    /\ overlapped' = (overlapped \/ Working # {})
    /\ job' = [v \in Workers |->
                 IF v = w THEN [Idle EXCEPT !.op = op, !.pc = pc, !.alone = Working = {}]
                 ELSE [job[v] EXCEPT !.alone = FALSE]]
    /\ UNCHANGED <<faults, lastId>>

\* The setting is validated, written, and then applied.
Save(w) ==
    /\ setting' \in Settings
    /\ Begin(w, "save", "load")
    /\ UNCHANGED <<running, account>>

\* The backend restarts, whatever it was at.
Restart ==
    /\ asked < MaxRequests /\ asked' = asked + 1
    /\ settled' = FALSE
    /\ \E w \in Workers :
        job' = [v \in Workers |->
                  IF v = w THEN [Idle EXCEPT !.op = "start", !.pc = "load"] ELSE Idle]
    /\ UNCHANGED <<setting, running, account, overlapped, faults, lastId>>

\* The VPN module is installed again, between two syncs: a fresh account, and
\* the module's configuration of before, the old token included.
Reinstall(w) ==
    /\ Working = {}
    /\ Begin(w, "bootstrap", "setup")
    /\ token' = (IF token = "none" THEN "none" ELSE "stale") /\ gateway' = FALSE
    /\ routes' = {} /\ networks' = {} /\ policies' = {}
    /\ running' = TRUE /\ UNCHANGED setting

\* An admin stops the module, its account kept, and starts it; no sync follows.
Disable ==
    /\ running /\ running' = FALSE
    /\ asked < MaxRequests /\ asked' = asked + 1
    /\ UNCHANGED <<setting, account, job, history, faults, lastId>>

Enable ==
    /\ ~running /\ running' = TRUE
    /\ UNCHANGED <<setting, account, job, history, asked, faults, lastId>>

----------------------------------------------------------------------------
(* One sync, a call at a time.                                             *)

Goto(w, pc) == job' = [job EXCEPT ![w].pc = pc]
See(w, pc, what) == job' = [job EXCEPT ![w].pc = pc, ![w].seen = what]
Quiet == UNCHANGED <<setting, running, history, asked, faults, lastId>>
NewId == lastId < MaxIds /\ lastId' = lastId + 1

\* Mutant: the first error ends the sync at start-up, too.
GiveUp_NoRetry(w) == job' = [job EXCEPT ![w] = Idle]

\* A sync that fails is over, unless it runs at start-up or after an install:
\* these try again (20 and 10 times, more often than anything fails here).
GiveUp(w) ==
    job' = [job EXCEPT ![w] =
              IF @.op = "save" THEN Idle
              ELSE [Idle EXCEPT !.op = job[w].op, !.pc = "load", !.alone = job[w].alone]]

CallFails(w) ==
    IF job[w].pc \in {"setup", "join"} THEN job' = [job EXCEPT ![w] = Idle] ELSE GiveUp(w)

Fault(w) ==
    /\ job[w].op # "none" /\ faults < MaxFaults /\ faults' = faults + 1
    /\ CallFails(w)
    /\ UNCHANGED <<setting, running, account, history, asked, lastId>>

\* The sync has a call to make, and the module has been stopped meanwhile.
Unreachable(w) ==
    /\ ~running /\ job[w].pc \notin {"idle", "load"}
    /\ ~(job[w].pc = "delete policies" /\ job[w].seen = {})
    /\ CallFails(w)
    /\ UNCHANGED account /\ Quiet

\* The object is gone: another sync was quicker.
Missing(w) == GiveUp(w) /\ UNCHANGED account

\* bootstrapNetbird: the account is made, once, and its token stored.
Setup(w) ==
    /\ running /\ job[w].pc = "setup"
    /\ token' = "valid" /\ Goto(w, "join")
    /\ UNCHANGED <<gateway, routes, networks, policies>> /\ Quiet

\* The gateway's container joins the account with a key of its own.
Join(w) ==
    /\ running /\ job[w].pc = "join"
    /\ gateway' = TRUE /\ Goto(w, "load")
    /\ UNCHANGED <<token, routes, networks, policies>> /\ Quiet

\* A client for the account; while the module is stopped, or without a token,
\* there is nothing to route.
netbirdClient == running /\ token # "none"

Load(w) ==
    /\ job[w].pc = "load"
    /\ job' = IF netbirdClient
              THEN [job EXCEPT ![w].pc = "list routes", ![w].want = setting]
              ELSE [job EXCEPT ![w] = Idle]
    /\ UNCHANGED account /\ Quiet

\* The gateway among the account's peers.
gatewayPeer == gateway

\* Without the gateway's peer, or with a token of the account before, each
\* attempt fails, to the last.
NoPeer(w) ==
    /\ running /\ job[w].pc = "list routes" /\ ~gatewayPeer
    /\ GiveUp(w) \/ job' = [job EXCEPT ![w] = Idle]
    /\ UNCHANGED account /\ Quiet

\* The first route as it should be is kept.
ListRoutes(w) ==
    /\ running /\ job[w].pc = "list routes" /\ gatewayPeer
    /\ LET right == {r \in routes : r.right} IN
       IF right = {} THEN See(w, "create route", routes)
       ELSE \E kept \in right : See(w, "delete routes", routes \ {kept})
    /\ UNCHANGED account /\ Quiet

DeleteRoute(w) ==
    /\ running /\ job[w].pc \in {"create route", "delete routes"}
    /\ \E r \in job[w].seen :
        IF r \in routes
        THEN /\ See(w, job[w].pc, job[w].seen \ {r}) /\ routes' = routes \ {r}
             /\ UNCHANGED <<token, gateway, networks, policies>>
        ELSE Missing(w)
    /\ Quiet

CreateRoute(w) ==
    /\ running /\ job[w].pc = "create route" /\ job[w].seen = {}
    /\ NewId /\ routes' = routes \union {[id |-> lastId', right |-> TRUE]}
    /\ Goto(w, "list networks")
    /\ UNCHANGED <<token, gateway, networks, policies, setting, running, history, asked, faults>>

\* The last network of that name in the list, if there is one (ids from 1).
ListNetworks(w) ==
    /\ running
    /\ \/ job[w].pc = "list networks"
       \/ job[w].pc = "delete routes" /\ job[w].seen = {}
    /\ \E id \in IF networks = {} THEN {0} ELSE {n.id : n \in networks} :
        job' = [job EXCEPT ![w].net = id,
                           ![w].pc = IF job[w].want.lan # NoLan
                                     THEN IF id = 0 THEN "create network" ELSE "router"
                                     ELSE IF id = 0 THEN "list leftovers"
                                     ELSE "delete network"]
    /\ UNCHANGED account /\ Quiet

Net(w) == {n \in networks : n.id = job[w].net}

DeleteNetwork(w) ==
    /\ running /\ job[w].pc = "delete network"
    /\ IF Net(w) # {}
       THEN /\ networks' = networks \ Net(w) /\ Goto(w, "list leftovers")
            /\ UNCHANGED <<token, gateway, routes, policies>>
       ELSE Missing(w)
    /\ Quiet

\* With the group of the LAN's addresses, which stays for good.
CreateNetwork(w) ==
    /\ running /\ job[w].pc = "create network"
    /\ NewId /\ networks' = networks \union {[id |-> lastId', routed |-> FALSE, lans |-> {}]}
    /\ job' = [job EXCEPT ![w].pc = "router", ![w].net = lastId']
    /\ UNCHANGED <<token, gateway, routes, policies, setting, running, history, asked, faults>>

\* One object of the network is made or removed, if the network is there.
Change(w, pc, new(_)) ==
    IF Net(w) # {}
    THEN /\ networks' = {IF n.id = job[w].net THEN new(n) ELSE n : n \in networks}
         /\ Goto(w, pc) /\ UNCHANGED <<token, gateway, routes, policies>>
    ELSE Missing(w)

CreateRouter(w) ==
    /\ running /\ job[w].pc = "router"
    /\ Change(w, "resources", LAMBDA n : [n EXCEPT !.routed = TRUE])
    /\ Quiet

\* Addresses other than the setting's go first.
DeleteResource(w) ==
    /\ running /\ job[w].pc = "resources"
    /\ \E n \in Net(w) : \E old \in n.lans \ {job[w].want.lan} :
        Change(w, "resources", LAMBDA m : [m EXCEPT !.lans = @ \ {old}])
    /\ Quiet

CreateResource(w) ==
    /\ running /\ job[w].pc = "resources"
    /\ \A n \in Net(w) : n.lans \subseteq {job[w].want.lan}
    /\ Change(w, "list policies", LAMBDA n : [n EXCEPT !.lans = {job[w].want.lan}])
    /\ Quiet

\* SetRulePolicies: of policies with one name the last in the list counts.
ListPolicies(w) ==
    /\ running /\ job[w].pc = "list policies"
    /\ \E seen \in SUBSET policies :
        /\ \A p \in policies : \E q \in seen : q.slot = p.slot
        /\ \A p, q \in seen : p.slot = q.slot => p = q
        /\ job' = [job EXCEPT ![w].pc = "set policies", ![w].seen = seen, ![w].next = 0]
    /\ UNCHANGED account /\ Quiet

\* The policy of a rule, of which Go counts the first as 0, is "office access 1".
Slot_FromZero(i) == i
Slot(i) == i + 1

\* The policy of the next rule is replaced in place, or made.
SetPolicy(w) ==
    LET i == job[w].next
        rules == parseOfficePorts(job[w].want.items)
        old == {p.id : p \in {q \in job[w].seen : q.slot = Slot(i)}}
        Named(id) == [id |-> id, slot |-> Slot(i), rule |-> rules[i + 1]]
        Onward == job' = [job EXCEPT ![w].next = i + 1]
    IN
    /\ running /\ job[w].pc = "set policies" /\ i < Len(rules)
    /\ IF old = {}
       THEN /\ NewId /\ policies' = policies \union {Named(lastId')} /\ Onward
            /\ UNCHANGED <<token, gateway, routes, networks>>
       ELSE /\ UNCHANGED lastId
            /\ IF \E p \in policies : p.id \in old
               THEN /\ policies' = {IF p.id \in old THEN Named(p.id) ELSE p : p \in policies}
                    /\ Onward /\ UNCHANGED <<token, gateway, routes, networks>>
               ELSE Missing(w)
    /\ UNCHANGED <<setting, running, history, asked, faults>>

Wanted(w) == IF job[w].want.lan = NoLan THEN {}
             ELSE {Slot(i) : i \in 0 .. Len(parseOfficePorts(job[w].want.items)) - 1}

\* Mutant: the policies of a longer, earlier list stay.
ListLeftovers_WhenOff(w) ==
    /\ running
    /\ \/ job[w].pc = "list leftovers"
       \/ job[w].pc = "set policies" /\ job[w].next = Len(parseOfficePorts(job[w].want.items))
    /\ See(w, "delete policies", {p.id : p \in {q \in policies : Wanted(w) = {}}})
    /\ UNCHANGED account /\ Quiet

\* DeletePoliciesWithPrefix.
ListLeftovers(w) ==
    /\ running
    /\ \/ job[w].pc = "list leftovers"
       \/ job[w].pc = "set policies" /\ job[w].next = Len(parseOfficePorts(job[w].want.items))
    /\ See(w, "delete policies", {p.id : p \in {q \in policies : q.slot \notin Wanted(w)}})
    /\ UNCHANGED account /\ Quiet

DeleteLeftover(w) ==
    /\ running /\ job[w].pc = "delete policies"
    /\ \E id \in job[w].seen :
        IF \E p \in policies : p.id = id
        THEN /\ policies' = {p \in policies : p.id # id}
             /\ See(w, "delete policies", job[w].seen \ {id})
             /\ UNCHANGED <<token, gateway, routes, networks>>
        ELSE Missing(w)
    /\ Quiet

Finish(w) ==
    /\ job[w].pc = "delete policies" /\ job[w].seen = {}
    /\ job' = [job EXCEPT ![w] = Idle]
    /\ settled' = job[w].alone
    /\ UNCHANGED <<setting, running, account, overlapped, asked, faults, lastId>>

Call(w) ==
    \/ Setup(w) \/ Join(w) \/ NoPeer(w) \/ ListRoutes(w) \/ DeleteRoute(w) \/ CreateRoute(w)
    \/ ListNetworks(w) \/ DeleteNetwork(w) \/ CreateNetwork(w)
    \/ CreateRouter(w) \/ DeleteResource(w) \/ CreateResource(w)
    \/ ListPolicies(w) \/ SetPolicy(w) \/ ListLeftovers(w) \/ DeleteLeftover(w)

Step(w) ==
    \/ Setup(w) \/ Join(w) \/ Load(w) \/ NoPeer(w) \/ ListRoutes(w) \/ DeleteRoute(w)
    \/ CreateRoute(w)
    \/ ListNetworks(w) \/ DeleteNetwork(w) \/ CreateNetwork(w)
    \/ CreateRouter(w) \/ DeleteResource(w) \/ CreateResource(w)
    \/ ListPolicies(w) \/ SetPolicy(w) \/ ListLeftovers(w) \/ DeleteLeftover(w) \/ Finish(w)
    \/ Unreachable(w)

Next ==
    \/ \E w \in Workers : Step(w) \/ Fault(w) \/ Save(w) \/ Reinstall(w)
    \/ Restart \/ Disable \/ Enable

\* A call returns: the HTTP client has no time limit, the server answers.
Spec == Init /\ [][Next]_vars /\ \A w \in Workers : WF_vars(Step(w))

----------------------------------------------------------------------------
(* Properties.                                                             *)

InLine ==
    /\ Reached = Allowed(setting)
    /\ \E r \in routes : r.right /\ routes = {r}

\* After a sync that succeeded the devices reach the office LAN of the setting on
\* exactly its ports, whatever failed half-way before, as long as no two syncs
\* have run at once (gateway.go: "exactly the ports the admin allowed").
OfficeFollows == settled /\ ~overlapped => InLine

\* The same of a sync that ran alone, whatever ran before (gateway.go: "Converges
\* rather than just creating, so it's safe to run any time").  Not so: two syncs
\* that both find no network make two, and later ones look after one of them.
OfficeConverges == settled => InLine

\* A start of the backend brings NetBird back in line with the setting, unless
\* the gateway has not joined, another sync ran beside, or the VPN module was
\* stopped at the start or while it was at it.
StartRepairs ==
    [](\A w \in Workers :
          job[w].op = "start" => <>(InLine \/ ~gateway \/ overlapped \/ ~running))

\* With a start behind it and no sync under way, a VPN that runs is in line
\* (gateway.go: "The at-start run is what repairs a route").  Not so: a start, or
\* a saved setting, that finds the module stopped does nothing and succeeds, and
\* enabling the module runs no sync.
StartRepairsForGood ==
    [](\A w \in Workers :
          job[w].op = "start" =>
              <>[](Working = {} /\ running => InLine \/ ~gateway \/ overlapped))
=============================================================================
