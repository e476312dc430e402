-------------------------- MODULE VpnGateway_proofs -------------------------
(***************************************************************************)
(* Proofs about VpnGateway, for any subnets, any of the entries a list of  *)
(* ports may have, and any workers and bounds: a sync that ran with no     *)
(* other beside it leaves what the office setting says, whatever calls     *)
(* failed and wherever the backend restarted before.                       *)
(***************************************************************************)
EXTENDS VpnGateway, TLAPS

----------------------------------------------------------------------------
(* The inductive invariant.                                                *)

Ops   == {"none", "save", "start", "bootstrap"}
Calls == {"idle", "setup", "join", "load", "list routes", "create route", "delete routes",
          "list networks", "create network", "delete network", "router", "resources",
          "list policies", "set policies", "list leftovers", "delete policies"}
Rules    == [protocol : {"all", "tcp", "udp", "icmp"}, items : SUBSET Items]
Routes   == [id : 1 .. MaxIds, right : BOOLEAN]
Networks == [id : 1 .. MaxIds, routed : BOOLEAN, lans : SUBSET Lans]
Policies == [id : 1 .. MaxIds, slot : 1 .. 3, rule : Rules]
Jobs == [op : Ops, pc : Calls, want : Settings,
         seen : SUBSET (Routes \union Policies \union Nat),
         net : Nat, next : Nat, alone : BOOLEAN]

\* Who is at a call has a sync to run; the gateway joins by the stored token; and
\* a network is made, or looked after, for a LAN.
WithLan == {"create network", "router", "resources", "list policies", "set policies"}
JobsInv ==
    /\ job \in [Workers -> Jobs]
    /\ \A w \in Workers : /\ job[w].pc = "idle" <=> job[w].op = "none"
                          /\ job[w].pc = "join" => token = "valid"
                          /\ job[w].pc \in WithLan => job[w].want.lan # NoLan

AccountInv ==
    /\ setting \in Settings /\ gateway \in BOOLEAN
    /\ token \in {"none", "stale", "valid"} /\ (gateway => token = "valid")

\* Objects of the account have ids of their own, given out one after another.
RoutesInv == routes \subseteq Routes
NetworksInv ==
    /\ networks \subseteq Networks
    /\ \A n \in networks : n.id <= lastId
    /\ \A m, n \in networks : m.id = n.id => m = n
PoliciesInv ==
    /\ policies \subseteq Policies
    /\ \A p \in policies : p.id <= lastId
    /\ \A p, q \in policies : p.id = q.id => p = q

BoundsInv ==
    /\ settled \in BOOLEAN /\ overlapped \in BOOLEAN
    /\ asked \in 0 .. MaxRequests /\ faults \in 0 .. MaxFaults /\ lastId \in 0 .. MaxIds

\* What a sync that runs by itself has brought in line when it stands at a call:
\* first the routes, then the network, then the policies.
Early == {"idle", "setup", "join", "load"}
AtRoutes == Early \union {"list routes", "create route", "delete routes"}

OneRoute == \E r \in routes : r.right /\ routes = {r}
OneNetwork(lan) == \E n \in networks : n.routed /\ n.lans = {lan} /\ networks = {n}
NetworkRight(s) == IF s.lan = NoLan THEN networks = {} ELSE OneNetwork(s.lan)

\* The routes seen are those that have to go.
RoutesDone(w) ==
    /\ job[w].pc = "create route" => routes = job[w].seen
    /\ job[w].pc = "delete routes" =>
          \E r \in routes : r.right /\ r \notin job[w].seen /\ routes = job[w].seen \union {r}
    /\ job[w].pc \notin AtRoutes => OneRoute

NetworkDone(w) ==
    /\ job[w].pc = "create network" => networks = {}
    /\ job[w].pc \in {"delete network", "router", "resources"} =>
          \E n \in networks : n.id = job[w].net /\ networks = {n}
    /\ job[w].pc = "resources" => \A n \in networks : n.routed
    /\ job[w].pc \in {"list policies", "set policies", "list leftovers", "delete policies"} =>
          NetworkRight(job[w].want)
    /\ job[w].pc \in {"delete network", "list leftovers"} => job[w].want.lan = NoLan

\* The k-th policy is that of the k-th rule.
Set(k, rules) == \E p \in policies : p.slot = k /\ p.rule = rules[k]

\* The first so many policies are those of the rules, and the others as listed;
\* in the end, all are that are not on the list of those to be removed.
PoliciesDone(w) ==
    LET rules == parseOfficePorts(job[w].want.items) IN
    /\ job[w].pc = "set policies" =>
          /\ job[w].next <= Len(rules) /\ job[w].seen \subseteq Policies
          /\ \A k \in 1 .. job[w].next : Set(k, rules)
          /\ \A p \in policies : p.slot > job[w].next => p \in job[w].seen
          /\ \A p \in job[w].seen : p.slot > job[w].next => p \in policies
    /\ job[w].pc = "delete policies" =>
          /\ \A k \in Wanted(w) : Set(k, rules)
          /\ \A p \in policies : p.id \in job[w].seen <=> p.slot \notin Wanted(w)

Done(w) ==
    /\ job[w].pc \notin Early => job[w].want = setting
    /\ RoutesDone(w) /\ NetworkDone(w) /\ PoliciesDone(w)

\* Without overlaps no name is given twice, so that by name means the one object.
NamesApart ==
    /\ \A m, n \in networks : m = n
    /\ \A p, q \in policies : p.slot = q.slot => p = q

SyncInv ==
    ~overlapped =>
        /\ NamesApart
        /\ \A v, w \in Workers : job[v].op # "none" /\ job[w].op # "none" => v = w
        /\ \A w \in Workers : Done(w)
        /\ settled => InLine /\ \A w \in Workers : job[w].op = "none"

GatewayInv ==
    /\ JobsInv /\ AccountInv /\ RoutesInv /\ NetworksInv /\ PoliciesInv
    /\ BoundsInv /\ SyncInv

----------------------------------------------------------------------------
(* The rules made of a list of ports.                                      *)

\* There is a rule for each protocol listed, at most three.
LEMMA RulesTyped ==
    ASSUME NEW items \in SUBSET Items
    PROVE  /\ parseOfficePorts(items) \in Seq(Rules)
           /\ Len(parseOfficePorts(items)) \in 1 .. 3
  <1>0. \A i \in items : Protocol[i] \in {"tcp", "udp", "icmp"}
    BY GatewayConstants DEF Protocol
  <1>1. CASE items = {}
    BY <1>1 DEF parseOfficePorts, Rules
  <1>2. CASE items # {}
    <2>1. \A p \in {"tcp", "udp", "icmp"} :
            /\ Listed(p, items) \in Seq(Rules) /\ Len(Listed(p, items)) \in 0 .. 1
            /\ (\E i \in items : Protocol[i] = p) => Len(Listed(p, items)) = 1
      <3> SUFFICES ASSUME NEW p \in {"tcp", "udp", "icmp"}
                   PROVE  /\ Listed(p, items) \in Seq(Rules) /\ Len(Listed(p, items)) \in 0 .. 1
                          /\ (\E i \in items : Protocol[i] = p) => Len(Listed(p, items)) = 1
        OBVIOUS
      <3>1. Rule(p, items) \in Rules
        BY DEF Rule, Rules
      <3>2. CASE \E i \in items : Protocol[i] = p
        BY <3>1, <3>2 DEF Listed
      <3>3. CASE ~\E i \in items : Protocol[i] = p
        BY <3>3 DEF Listed
      <3> QED
        BY <3>2, <3>3
    <2>2. PICK i \in items : TRUE
      BY <1>2
    <2>3. \E p \in {"tcp", "udp", "icmp"} : Len(Listed(p, items)) = 1
      BY <1>0, <2>1, <2>2
    <2>4. parseOfficePorts(items)
            = Listed("tcp", items) \o Listed("udp", items) \o Listed("icmp", items)
      BY <1>2 DEF parseOfficePorts
    <2>5. QED
      BY <2>1, <2>3, <2>4, SMTT(30)
  <1>3. QED
    BY <1>1, <1>2

\* A rule opens what is listed of its protocol, all of them together the list.
LEMMA RulesExact ==
    ASSUME NEW items \in SUBSET Items, NEW i \in Everything
    PROVE  (\E k \in 1 .. Len(parseOfficePorts(items)) :
               i \in Opened(parseOfficePorts(items)[k]))
             <=> (items = {} \/ i \in items)
  <1>0. \A j \in items : Protocol[j] \in {"tcp", "udp", "icmp"}
    BY GatewayConstants DEF Protocol
  <1>1. CASE items = {}
    <2>1. /\ Len(parseOfficePorts(items)) = 1
          /\ parseOfficePorts(items)[1] = [protocol |-> "all", items |-> {}]
      BY <1>1 DEF parseOfficePorts
    <2>2. Opened(parseOfficePorts(items)[1]) = Everything
      BY <2>1 DEF Opened
    <2>3. QED
      BY <1>1, <2>1, <2>2
  <1>2. CASE items # {}
    <2> DEFINE L(p) == Listed(p, items)
    <2>1. \A p \in {"tcp", "udp", "icmp"} :
            /\ L(p) \in Seq(Rules)
            /\ \/ Len(L(p)) = 0 /\ \A j \in items : Protocol[j] # p
               \/ Len(L(p)) = 1 /\ Opened(L(p)[1]) = {j \in items : Protocol[j] = p}
      <3> SUFFICES ASSUME NEW p \in {"tcp", "udp", "icmp"}
                   PROVE  /\ L(p) \in Seq(Rules)
                          /\ \/ Len(L(p)) = 0 /\ \A j \in items : Protocol[j] # p
                             \/ /\ Len(L(p)) = 1
                                /\ Opened(L(p)[1]) = {j \in items : Protocol[j] = p}
        OBVIOUS
      <3>1. Rule(p, items) \in Rules
        BY DEF Rule, Rules
      <3>2. Opened(Rule(p, items)) = {j \in items : Protocol[j] = p}
        BY DEF Rule, Opened
      <3>3. CASE \E j \in items : Protocol[j] = p
        BY <3>1, <3>2, <3>3 DEF Listed
      <3>4. CASE ~\E j \in items : Protocol[j] = p
        BY <3>4 DEF Listed
      <3> QED
        BY <3>3, <3>4
    <2>2. parseOfficePorts(items) = L("tcp") \o L("udp") \o L("icmp")
      BY <1>2 DEF parseOfficePorts
    <2> HIDE DEF L
    <2>3. ASSUME NEW k \in 1 .. Len(parseOfficePorts(items)),
                 i \in Opened(parseOfficePorts(items)[k])
          PROVE  i \in items
      <3>1. \E p \in {"tcp", "udp", "icmp"} :
               Len(L(p)) = 1 /\ parseOfficePorts(items)[k] = L(p)[1]
        BY <2>1, <2>2, SMTT(30)
      <3>2. PICK p \in {"tcp", "udp", "icmp"} : Len(L(p)) = 1 /\ i \in Opened(L(p)[1])
        BY <2>3, <3>1
      <3>3. QED
        BY <2>1, <3>2
    <2>4. ASSUME i \in items
          PROVE  \E k \in 1 .. Len(parseOfficePorts(items)) :
                    i \in Opened(parseOfficePorts(items)[k])
      <3>1. PICK p \in {"tcp", "udp", "icmp"} : Len(L(p)) = 1 /\ i \in Opened(L(p)[1])
        BY <1>0, <2>1, <2>4
      <3>2. \E k \in 1 .. Len(parseOfficePorts(items)) : parseOfficePorts(items)[k] = L(p)[1]
        <4>1. CASE p = "tcp"
          BY <2>1, <2>2, <3>1, <4>1
        <4>2. CASE p = "udp"
          BY <2>1, <2>2, <3>1, <4>2
        <4>3. CASE p = "icmp"
          BY <2>1, <2>2, <3>1, <4>3
        <4>4. QED
          BY <4>1, <4>2, <4>3
      <3>3. QED
        BY <3>1, <3>2
    <2>5. QED
      BY <1>2, <2>3, <2>4
  <1>3. QED
    BY <1>1, <1>2

----------------------------------------------------------------------------
(* What a step does to the sync it belongs to.                             *)

\* The constants, as the proofs use them.
LEMMA Bounds == Workers # {} /\ MaxIds \in Nat \ {0} /\ "off" \notin Lans
                  /\ MaxRequests \in Nat /\ MaxFaults \in Nat
  BY GatewayConstants

\* The other syncs stay where they are.
Turn(w) ==
    /\ job' \in [Workers -> Jobs]
    /\ \A v \in Workers \ {w} : job'[v] = job[v]
    /\ job'[w].pc = "idle" <=> job'[w].op = "none"
    /\ job'[w].pc \in WithLan => job'[w].want.lan # NoLan

\* The sync of w stands at a call with what it knows.
At(w, pc, seen, net, next) ==
    /\ Turn(w)
    /\ job'[w].op = job[w].op /\ job'[w].want = job[w].want
    /\ job'[w].pc = pc /\ job'[w].seen = seen /\ job'[w].net = net /\ job'[w].next = next

\* It is over, or begins again.
Over(w) == Turn(w) /\ job'[w].pc \in {"idle", "load"}

\* What a step of a sync writes into its program counter and its notes.
LEMMA JobMoves ==
    ASSUME JobsInv, NEW w \in Workers, job[w].op # "none"
    PROVE  /\ \A pc \in Calls \ {"idle"} : (pc \in WithLan => job[w].pc \in WithLan) =>
                /\ Goto(w, pc) => At(w, pc, job[w].seen, job[w].net, job[w].next)
                /\ \A S \in SUBSET (Routes \union Policies \union Nat) :
                      See(w, pc, S) => At(w, pc, S, job[w].net, job[w].next)
           /\ GiveUp(w) => Over(w)
           /\ job' = [job EXCEPT ![w] = Idle] => Over(w) /\ job'[w] = Idle
  <1>0. /\ job \in [Workers -> Jobs] /\ job[w] \in Jobs
        /\ (job[w].pc = "idle" <=> job[w].op = "none")
        /\ (job[w].pc \in WithLan => job[w].want.lan # NoLan)
    BY DEF JobsInv
  <1>1. Off \in Settings /\ Idle \in Jobs /\ Idle.op = "none" /\ Idle.pc = "idle"
        /\ "idle" \notin WithLan /\ "load" \notin WithLan
    BY DEF WithLan, Off, Idle, Settings, NoLan, Jobs, Ops, Calls
  <1>2. ASSUME NEW r \in Jobs, job' = [job EXCEPT ![w] = r], r.pc = "idle" <=> r.op = "none",
               r.pc \in WithLan => r.want.lan # NoLan
        PROVE  Turn(w) /\ job'[w] = r
    BY <1>0, <1>2 DEF Turn
  <1>3. ASSUME NEW pc \in Calls \ {"idle"}, pc \in WithLan => job[w].pc \in WithLan, Goto(w, pc)
        PROVE  At(w, pc, job[w].seen, job[w].net, job[w].next)
    <2> DEFINE r == [job[w] EXCEPT !.pc = pc]
    <2>1. job' = [job EXCEPT ![w] = r]
      BY <1>3, Zenon DEF Goto
    <2>2. /\ r \in Jobs /\ r.pc = pc /\ r.op = job[w].op /\ r.want = job[w].want
          /\ r.seen = job[w].seen /\ r.net = job[w].net /\ r.next = job[w].next
      BY <1>0 DEF Jobs
    <2> HIDE DEF r
    <2>3. QED
      BY <1>0, <1>2, <1>3, <2>1, <2>2 DEF At
  <1>4. ASSUME NEW pc \in Calls \ {"idle"},
               NEW S \in SUBSET (Routes \union Policies \union Nat),
               pc \in WithLan => job[w].pc \in WithLan, See(w, pc, S)
        PROVE  At(w, pc, S, job[w].net, job[w].next)
    <2> DEFINE r == [job[w] EXCEPT !.pc = pc, !.seen = S]
    <2>1. job' = [job EXCEPT ![w] = r]
      BY <1>4, Zenon DEF See
    <2>2. /\ r \in Jobs /\ r.pc = pc /\ r.op = job[w].op /\ r.want = job[w].want
          /\ r.seen = S /\ r.net = job[w].net /\ r.next = job[w].next
      BY <1>0 DEF Jobs
    <2> HIDE DEF r
    <2>3. QED
      BY <1>0, <1>2, <1>4, <2>1, <2>2 DEF At
  <1>5. ASSUME GiveUp(w) PROVE Over(w)
    <2> DEFINE r == [Idle EXCEPT !.op = job[w].op, !.pc = "load", !.alone = job[w].alone]
    <2>1. job' = [job EXCEPT ![w] = Idle] \/ job' = [job EXCEPT ![w] = r]
      BY <1>5 DEF GiveUp
    <2>2. r \in Jobs /\ r.pc = "load" /\ r.op # "none"
      BY <1>0, <1>1 DEF Idle, Jobs, Calls
    <2> HIDE DEF r
    <2>3. QED
      BY <1>1, <1>2, <2>1, <2>2 DEF Over
  <1>6. QED
    BY <1>1, <1>2, <1>3, <1>4, <1>5 DEF Over

\* A sync that has not begun, or is over, promises nothing.
LEMMA EarlyDone ==
    \A w : (job[w].pc \in Early => Done(w)) /\ (job'[w].pc \in Early => Done(w)')
  BY DEF Done, RoutesDone, NetworkDone, PoliciesDone, Early, AtRoutes, WithLan

\* The step of one sync keeps the invariant if what it changes is in order and,
\* when it runs by itself, what it promises at its new call is so.
LEMMA TurnKeeps ==
    ASSUME GatewayInv, NEW w \in Workers, job[w].op # "none", Turn(w),
           token' \in {"valid", token}, job'[w].pc = "join" => token' = "valid",
           AccountInv', RoutesInv', NetworksInv', PoliciesInv',
           setting' = setting, overlapped' = overlapped,
           \/ settled' = settled
           \/ settled' \in BOOLEAN /\ job'[w].op = "none" /\ (~overlapped => InLine'),
           asked' = asked, faults' \in 0 .. MaxFaults, lastId' \in 0 .. MaxIds,
           ~overlapped => NamesApart' /\ Done(w)'
    PROVE  GatewayInv'
  <1>1. JobsInv' /\ BoundsInv'
    BY DEF GatewayInv, JobsInv, BoundsInv, Turn
  <1>2. SyncInv'
    <2>1. SUFFICES ASSUME ~overlapped PROVE SyncInv'
      BY DEF SyncInv
    <2>2. /\ \A v \in Workers \ {w} :
               job[v].op = "none" /\ job[v].pc = "idle" /\ job'[v] = job[v]
          /\ settled = FALSE
      BY <2>1 DEF GatewayInv, SyncInv, JobsInv, Turn, BoundsInv
    <2>3. \A v \in Workers \ {w} : job'[v].op = "none" /\ job'[v].pc \in Early
      BY <2>2 DEF Early
    <2>4. \A v \in Workers : Done(v)'
      BY <2>1, <2>3, EarlyDone
    <2>5. NamesApart' /\ (settled' => InLine' /\ job'[w].op = "none")
      BY <2>1, <2>2
    <2>6. QED
      BY <2>3, <2>4, <2>5 DEF SyncInv
  <1>3. QED
    BY <1>1, <1>2 DEF GatewayInv

\* The setting and the gateway's place in the account, when a step leaves them.
LEMMA AccountKept ==
    ASSUME AccountInv, UNCHANGED <<setting, token, gateway>>
    PROVE  AccountInv'
  BY Zenon DEF AccountInv

\* A sync that is over, or begins again, has changed nothing by that.
LEMMA OverKeeps ==
    ASSUME GatewayInv, NEW w \in Workers, job[w].op # "none", Over(w), UNCHANGED account,
           setting' = setting, overlapped' = overlapped, settled' = settled,
           asked' = asked, faults' \in 0 .. MaxFaults, lastId' = lastId
    PROVE  GatewayInv'
  <1>1. Done(w)'
    BY EarlyDone DEF Over, Early
  <1>2. /\ RoutesInv' /\ NetworksInv' /\ PoliciesInv'
        /\ ~overlapped => NamesApart'
    BY DEF GatewayInv, RoutesInv, NetworksInv, PoliciesInv, SyncInv, NamesApart, account
  <1>3. AccountInv' /\ token' = token
    BY AccountKept, Zenon DEF account, GatewayInv
  <1>4. lastId' \in 0 .. MaxIds /\ Turn(w) /\ job'[w].pc # "join"
    BY DEF GatewayInv, BoundsInv, Over
  <1>5. QED
    BY <1>1, <1>2, <1>3, <1>4, TurnKeeps

----------------------------------------------------------------------------
(* One call after another.                                                 *)

\* A table a step leaves alone stays in order: ids are only given out.
LEMMA TablesKept ==
    ASSUME GatewayInv, lastId' \in 0 .. MaxIds, lastId <= lastId'
    PROVE  /\ routes' = routes => RoutesInv'
           /\ networks' = networks => NetworksInv'
           /\ policies' = policies => PoliciesInv'
  BY Bounds DEF GatewayInv, BoundsInv, RoutesInv, NetworksInv, PoliciesInv, Networks, Policies

\* No id is given out.
LEMMA SameId ==
    ASSUME BoundsInv, lastId' = lastId
    PROVE  lastId' \in 0 .. MaxIds /\ lastId <= lastId'
  BY Bounds DEF BoundsInv

\* A new id is larger than all before.
LEMMA NewIds ==
    ASSUME BoundsInv, NewId
    PROVE  lastId' \in 1 .. MaxIds /\ lastId' \in 0 .. MaxIds /\ lastId < lastId'
                /\ lastId <= lastId'
  BY Bounds DEF BoundsInv, NewId

\* Who steps has a sync to run; by itself it finds what it has brought in line.
LEMMA Stands ==
    ASSUME GatewayInv, NEW w \in Workers, job[w].pc # "idle"
    PROVE  /\ job[w].op # "none" /\ job[w] \in Jobs
           /\ ~overlapped => NamesApart /\ Done(w)
           /\ lastId \in 0 .. MaxIds /\ faults \in 0 .. MaxFaults
  BY DEF GatewayInv, JobsInv, SyncInv, BoundsInv

\* The call fails, and the sync with it.
LEMMA FaultKeeps ==
    ASSUME GatewayInv, NEW w \in Workers, Fault(w)
    PROVE  GatewayInv'
  <1>1. Over(w)
    BY JobMoves, Zenon DEF Fault, CallFails, GatewayInv
  <1>2. faults' \in 0 .. MaxFaults
    BY Bounds DEF Fault, GatewayInv, BoundsInv
  <1>3. QED
    BY <1>1, <1>2, OverKeeps DEF Fault, history

\* It fails because the module was stopped.
LEMMA UnreachableKeeps ==
    ASSUME GatewayInv, NEW w \in Workers, Unreachable(w)
    PROVE  GatewayInv'
  <1>1. job[w].op # "none"
    BY DEF Unreachable, GatewayInv, JobsInv
  <1>2. Over(w)
    BY <1>1, JobMoves, Zenon DEF Unreachable, CallFails, GatewayInv
  <1>3. faults' \in 0 .. MaxFaults
    BY DEF Unreachable, Quiet, GatewayInv, BoundsInv
  <1>4. QED
    BY <1>1, <1>2, <1>3, OverKeeps DEF Unreachable, Quiet, history

\* Before a sync begins there is only the account.
LEMMA StartKeeps ==
    ASSUME GatewayInv, NEW w \in Workers, Setup(w) \/ Join(w) \/ Load(w) \/ NoPeer(w)
    PROVE  GatewayInv'
  <1>0. JobsInv /\ setting \in Settings
    BY DEF GatewayInv, AccountInv
  <1>1. job[w].op # "none" /\ Quiet
    BY <1>0 DEF Setup, Join, Load, NoPeer, JobsInv
  <1>2. CASE Setup(w) \/ Join(w)
    <2>0. /\ Goto(w, "join") \/ Goto(w, "load")
          /\ token' = "valid" /\ gateway' \in {gateway, TRUE} /\ setting' = setting
          /\ UNCHANGED <<routes, networks, policies>>
      BY <1>0, <1>1, <1>2, Zenon DEF Setup, Join, JobsInv, Quiet
    <2>1. Turn(w) /\ job'[w].pc \in {"join", "load"}
      BY <1>0, <1>1, <2>0, JobMoves DEF At, Calls, WithLan
    <2>10. AccountInv'
      BY <2>0 DEF GatewayInv, AccountInv
    <2>2. Done(w)'
      BY <2>1, EarlyDone DEF Early
    <2>3. ~overlapped => NamesApart'
      BY <2>0 DEF GatewayInv, SyncInv, NamesApart
    <2>4. lastId' = lastId /\ lastId \in 0 .. MaxIds /\ faults \in 0 .. MaxFaults
      BY <1>1 DEF Quiet, GatewayInv, BoundsInv
    <2>5. RoutesInv' /\ NetworksInv' /\ PoliciesInv'
      BY <2>0, <2>4, TablesKept, Bounds
    <2>6. QED
      BY <1>1, <2>0, <2>1, <2>2, <2>3, <2>4, <2>5, <2>10, TurnKeeps DEF Quiet, history
  <1>3. CASE (Load(w) \/ NoPeer(w)) /\ Over(w)
    BY <1>1, <1>3, OverKeeps DEF Load, NoPeer, Quiet, history, GatewayInv, BoundsInv
  <1>4. CASE Load(w) /\ ~Over(w)
    <2> DEFINE r == [job[w] EXCEPT !.pc = "list routes", !.want = setting]
    <2>1. job' = [job EXCEPT ![w] = r]
      BY <1>0, <1>1, <1>4, JobMoves DEF Load
    <2>2. job[w] \in Jobs
      BY <1>0 DEF JobsInv
    <2>3. r \in Jobs /\ r.pc = "list routes" /\ r.want = setting /\ r.op = job[w].op
      BY <1>0, <2>2 DEF Jobs, Calls
    <2> HIDE DEF r
    <2>4. Turn(w) /\ job'[w].pc = "list routes" /\ job'[w].want = setting
      BY <1>0, <1>1, <2>1, <2>3 DEF Turn, JobsInv, WithLan
    <2>5. UNCHANGED account /\ lastId' = lastId
      BY <1>1, <1>4 DEF Load, Quiet
    <2>6. Done(w)'
      BY <1>1, <2>4
      DEF Quiet, Done, RoutesDone, NetworkDone, PoliciesDone, Early, AtRoutes, WithLan
    <2>7. ~overlapped => NamesApart'
      BY <2>5 DEF GatewayInv, SyncInv, NamesApart, account
    <2>8. RoutesInv' /\ NetworksInv' /\ PoliciesInv'
      BY <2>5, TablesKept, Bounds DEF account, GatewayInv, BoundsInv
    <2>9. AccountInv'
      BY <1>1, <2>5, AccountKept, Zenon DEF Quiet, account, GatewayInv
    <2>10. QED
      BY <1>1, <2>4, <2>5, <2>6, <2>7, <2>8, <2>9, TurnKeeps
      DEF Quiet, history, account, GatewayInv, BoundsInv
  <1>5. NoPeer(w) => Over(w)
    BY <1>0, <1>1, JobMoves DEF NoPeer
  <1>6. QED
    BY <1>2, <1>3, <1>4, <1>5

\* Of the routes, one as it should be stays, and those seen beside it go.
LEMMA RoutesKeep ==
    ASSUME GatewayInv, NEW w \in Workers, ListRoutes(w) \/ DeleteRoute(w) \/ CreateRoute(w)
    PROVE  GatewayInv'
  <1>0. /\ JobsInv /\ routes \subseteq Routes
        /\ lastId \in 0 .. MaxIds /\ faults \in 0 .. MaxFaults
    BY DEF GatewayInv, RoutesInv, BoundsInv
  <1>1. /\ job[w].pc \in {"list routes", "create route", "delete routes"}
        /\ setting' = setting /\ overlapped' = overlapped /\ settled' = settled
        /\ asked' = asked /\ faults' = faults
    BY DEF ListRoutes, DeleteRoute, CreateRoute, Quiet, history
  <1>2. job[w].op # "none" /\ job[w] \in Jobs /\ (~overlapped => NamesApart /\ Done(w))
    BY <1>1, Stands
  <1>3. ASSUME UNCHANGED <<token, gateway, networks, policies>>, RoutesInv',
               lastId' \in 0 .. MaxIds, lastId <= lastId',
               Turn(w), job'[w].pc \notin Early, ~overlapped => Done(w)'
        PROVE  GatewayInv'
    <2>1. NetworksInv' /\ PoliciesInv' /\ (~overlapped => NamesApart')
      BY <1>2, <1>3, TablesKept DEF NamesApart
    <2>2. AccountInv'
      BY <1>1, <1>3, AccountKept, Zenon DEF GatewayInv
    <2>3. QED
      BY <1>0, <1>1, <1>2, <1>3, <2>1, <2>2, TurnKeeps DEF Early
  <1>4. CASE ListRoutes(w)
    <2>1. /\ UNCHANGED account /\ lastId' = lastId
          /\ \/ See(w, "create route", routes)
             \/ \E kept \in routes : kept.right /\ See(w, "delete routes", routes \ {kept})
      BY <1>4 DEF ListRoutes, Quiet
    <2>0. /\ UNCHANGED <<token, gateway, networks, policies>>
          /\ RoutesInv' /\ lastId' \in 0 .. MaxIds /\ lastId <= lastId'
      <3>1. UNCHANGED account /\ lastId' = lastId
        BY <2>1
      <3>2. QED
        BY <1>0, <3>1, Bounds DEF account, RoutesInv
    <2>2. CASE See(w, "create route", routes)
      <3>1. At(w, "create route", routes, job[w].net, job[w].next)
        BY <1>0, <1>2, <2>2, JobMoves DEF Calls, WithLan
      <3>2. ~overlapped => Done(w)'
        BY <1>1, <1>2, <2>1, <3>1
        DEF At, account, Done, RoutesDone, NetworkDone, PoliciesDone, Early, AtRoutes, WithLan
      <3>3. Turn(w) /\ job'[w].pc \notin Early
        BY <3>1 DEF At, Early
      <3>4. QED
        BY <1>3, <2>0, <3>2, <3>3
    <2>3. CASE \E kept \in routes : kept.right /\ See(w, "delete routes", routes \ {kept})
      <3>0. PICK kept \in routes : kept.right /\ See(w, "delete routes", routes \ {kept})
        BY <2>3
      <3>1. At(w, "delete routes", routes \ {kept}, job[w].net, job[w].next)
        BY <1>0, <1>2, <3>0, JobMoves DEF Calls, WithLan
      <3>2. ~overlapped => Done(w)'
        BY <1>1, <1>2, <2>1, <3>0, <3>1
        DEF At, account, Done, RoutesDone, NetworkDone, PoliciesDone, Early, AtRoutes, WithLan
      <3>3. Turn(w) /\ job'[w].pc \notin Early
        BY <3>1 DEF At, Early
      <3>4. QED
        BY <1>3, <2>0, <3>2, <3>3
    <2>4. QED
      BY <2>1, <2>2, <2>3
  <1>5. CASE DeleteRoute(w)
    <2>1. PICK r \in job[w].seen :
             \/ /\ See(w, job[w].pc, job[w].seen \ {r})
                /\ routes' = routes \ {r} /\ r \in routes
                /\ UNCHANGED <<token, gateway, networks, policies>>
             \/ Missing(w)
      BY <1>5 DEF DeleteRoute
    <2>2. lastId' = lastId /\ job[w].pc \in {"create route", "delete routes"}
      BY <1>5 DEF DeleteRoute, Quiet
    <2>3. CASE Missing(w)
      BY <1>0, <1>1, <1>2, <2>2, <2>3, JobMoves, OverKeeps DEF Missing
    <2>4. CASE ~Missing(w)
      <3>1. At(w, job[w].pc, job[w].seen \ {r}, job[w].net, job[w].next)
        BY <1>0, <1>2, <2>1, <2>2, <2>4, JobMoves DEF Calls, WithLan, Jobs
      <3>2. ~overlapped => RoutesDone(w)'
        BY <1>2, <2>1, <2>2, <2>4, <3>1 DEF At, Done, RoutesDone, AtRoutes, Early
      <3>3. ~overlapped => Done(w)'
        BY <1>1, <1>2, <2>2, <3>1, <3>2
        DEF At, Done, NetworkDone, PoliciesDone, Early, WithLan
      <3>4. Turn(w) /\ job'[w].pc \notin Early
        BY <2>2, <3>1 DEF At, Early
      <3>5. RoutesInv' /\ lastId' \in 0 .. MaxIds /\ lastId <= lastId'
        <4>1. lastId' = lastId /\ routes' = routes \ {r}
          BY <2>1, <2>2, <2>4
        <4>2. QED
          BY <1>0, <4>1, Bounds DEF RoutesInv
      <3>6. QED
        BY <1>3, <2>1, <2>4, <3>3, <3>4, <3>5
    <2>5. QED
      BY <2>3, <2>4
  <1>6. CASE CreateRoute(w)
    <2>1. /\ job[w].pc = "create route" /\ job[w].seen = {}
          /\ lastId' = lastId + 1 /\ lastId < MaxIds
          /\ routes' = routes \union {[id |-> lastId', right |-> TRUE]}
          /\ Goto(w, "list networks") /\ UNCHANGED <<token, gateway, networks, policies>>
      BY <1>6 DEF CreateRoute, NewId
    <2>2. At(w, "list networks", job[w].seen, job[w].net, job[w].next)
      BY <1>0, <1>2, <2>1, JobMoves DEF Calls, WithLan
    <2>3. lastId' \in 1 .. MaxIds /\ lastId' \in 0 .. MaxIds /\ lastId <= lastId'
      BY <1>6, NewIds DEF CreateRoute, GatewayInv
    <2>4. ~overlapped => OneRoute'
      BY <1>2, <2>1 DEF Done, RoutesDone, OneRoute
    <2>5. ~overlapped => Done(w)'
      BY <1>1, <1>2, <2>1, <2>2, <2>4
      DEF At, Done, RoutesDone, NetworkDone, PoliciesDone, Early, AtRoutes, WithLan
    <2>6. Turn(w) /\ job'[w].pc \notin Early
      BY <2>2 DEF At, Early
    <2>7. RoutesInv'
      <3>1. routes' = routes \union {[id |-> lastId', right |-> TRUE]}
        BY <2>1
      <3>2. [id |-> lastId', right |-> TRUE] \in Routes
        BY <2>3, Zenon DEF Routes
      <3>3. QED
        BY <1>0, <3>1, <3>2, Zenon DEF RoutesInv
    <2>8. QED
      BY <1>3, <2>1, <2>3, <2>5, <2>6, <2>7
  <1>7. QED
    BY <1>4, <1>5, <1>6

----------------------------------------------------------------------------
(* The network.                                                            *)

Still == UNCHANGED <<setting, settled, overlapped, asked, faults>>

\* A step that touches the networks only keeps the invariant if they are in order.
LEMMA NetworksChange ==
    ASSUME GatewayInv, NEW w \in Workers, job[w].pc # "idle", Still,
           UNCHANGED <<token, gateway, routes, policies>>, NetworksInv',
           lastId' \in 0 .. MaxIds, lastId <= lastId', Turn(w), job'[w].pc \notin Early,
           ~overlapped => (\A m, n \in networks' : m = n) /\ Done(w)'
    PROVE  GatewayInv'
  <1>1. /\ job[w].op # "none" /\ (~overlapped => NamesApart)
        /\ faults' \in 0 .. MaxFaults
    BY Stands DEF Still
  <1>2. RoutesInv' /\ PoliciesInv' /\ (~overlapped => NamesApart')
    BY <1>1, TablesKept DEF NamesApart
  <1>3. AccountInv' /\ token' = token
    BY AccountKept, Zenon DEF GatewayInv, Still
  <1>4. setting' = setting /\ overlapped' = overlapped /\ settled' = settled /\ asked' = asked
    BY DEF Still
  <1>5. QED
    BY <1>1, <1>2, <1>3, <1>4, TurnKeeps DEF Early

\* Networks that are changed one by one, and keep their ids, stay in order.
LEMMA NetworksMapped ==
    ASSUME NetworksInv, lastId' = lastId, NEW f \in [networks -> Networks],
           \A n \in networks : f[n].id = n.id, networks' = {f[n] : n \in networks}
    PROVE  NetworksInv' /\ ((\A m, n \in networks : m = n) => \A m, n \in networks' : m = n)
  BY DEF NetworksInv

\* By itself a sync has one network, the one it looks after.
LEMMA OwnNetwork ==
    ASSUME NEW w \in Workers, Done(w), job[w].pc \in {"delete network", "router", "resources"}
    PROVE  \E n \in networks : n.id = job[w].net /\ networks = {n} /\ Net(w) = {n}
  BY DEF Done, NetworkDone, Net

\* The network is looked up by its name, with what is left to do for the setting.
LEMMA ListNetworksKeeps ==
    ASSUME GatewayInv, NEW w \in Workers, ListNetworks(w)
    PROVE  GatewayInv'
  <1>1. /\ job[w].pc = "list networks" \/ (job[w].pc = "delete routes" /\ job[w].seen = {})
        /\ Still /\ UNCHANGED account /\ lastId' = lastId
    BY DEF ListNetworks, Quiet, history, Still
  <1>2. /\ job[w].op # "none" /\ job[w] \in Jobs /\ (~overlapped => NamesApart /\ Done(w))
        /\ lastId \in 0 .. MaxIds
    BY <1>1, Stands
  <1>3. job \in [Workers -> Jobs] /\ networks \subseteq Networks
    BY DEF GatewayInv, JobsInv, NetworksInv
  <1> DEFINE pc(id) == IF job[w].want.lan # NoLan
                       THEN IF id = 0 THEN "create network" ELSE "router"
                       ELSE IF id = 0 THEN "list leftovers" ELSE "delete network"
  <1>4. PICK id \in IF networks = {} THEN {0} ELSE {n.id : n \in networks} :
           job' = [job EXCEPT ![w].net = id, ![w].pc = pc(id)]
    BY DEF ListNetworks
  <1>5. id \in Nat /\ (id = 0 <=> networks = {}) /\ (id # 0 => \E n \in networks : n.id = id)
    BY <1>3, Bounds DEF Networks
  <1>6. At(w, pc(id), job[w].seen, id, job[w].next)
    <2> DEFINE r == [job[w] EXCEPT !.net = id, !.pc = pc(id)]
    <2>1. job' = [job EXCEPT ![w] = r]
      BY <1>3, <1>4, Zenon
    <2>2. pc(id) \in Calls \ {"idle"}
      BY DEF Calls
    <2> HIDE DEF pc
    <2>3. /\ r \in Jobs /\ r.pc = pc(id) /\ r.op = job[w].op /\ r.want = job[w].want
          /\ r.seen = job[w].seen /\ r.net = id /\ r.next = job[w].next
      BY <1>2, <1>5, <2>2 DEF Jobs
    <2>4. pc(id) \in WithLan => job[w].want.lan # NoLan
      BY DEF pc, WithLan
    <2> HIDE DEF r
    <2>5. QED
      BY <1>2, <1>3, <2>1, <2>2, <2>3, <2>4 DEF At, Turn
  <1>7. pc(id) \in {"create network", "router", "list leftovers", "delete network"}
    OBVIOUS
  <1>8. ~overlapped => Done(w)'
    <2> SUFFICES ASSUME ~overlapped PROVE Done(w)'
      OBVIOUS
    <2>1. Done(w) /\ \A m, n \in networks : m = n
      BY <1>2 DEF NamesApart
    <2>2. OneRoute
      BY <1>1, <2>1 DEF Done, RoutesDone, OneRoute, AtRoutes, Early
    <2>3. job[w].want = setting
      BY <1>1, <2>1 DEF Done, Early
    <2>4. OneRoute' /\ job'[w].want = setting' /\ networks' = networks
      BY <1>1, <1>6, <2>2, <2>3 DEF At, account, OneRoute, Still
    <2>5. RoutesDone(w)' /\ PoliciesDone(w)'
      BY <1>6, <1>7, <2>4 DEF At, RoutesDone, PoliciesDone
    <2>6. NetworkDone(w)'
      <3>1. id # 0 => \E n \in networks : n.id = id /\ networks = {n}
        BY <1>5, <2>1
      <3>2. job'[w].want.lan = job[w].want.lan /\ job'[w].pc = pc(id) /\ job'[w].net = id
        BY <1>6 DEF At
      <3>3. QED
        BY <1>5, <2>4, <3>1, <3>2 DEF NetworkDone, NetworkRight, WithLan
    <2>7. QED
      BY <2>4, <2>5, <2>6 DEF Done
  <1>9. Turn(w) /\ job'[w].pc \notin Early
    BY <1>6, <1>7 DEF At, Early
  <1>10. NetworksInv' /\ lastId <= lastId' /\ lastId' \in 0 .. MaxIds
    <2>1. lastId <= lastId' /\ lastId' \in 0 .. MaxIds
      BY <1>1, SameId DEF GatewayInv
    <2>2. QED
      BY <1>1, <2>1, TablesKept DEF account
  <1>11. UNCHANGED <<token, gateway, routes, policies>> /\ networks' = networks
    BY <1>1 DEF account
  <1>12. QED
    BY <1>1, <1>2, <1>8, <1>9, <1>10, <1>11, NetworksChange DEF NamesApart

\* Without a LAN the network goes.
LEMMA DeleteNetworkKeeps ==
    ASSUME GatewayInv, NEW w \in Workers, DeleteNetwork(w)
    PROVE  GatewayInv'
  <1>1. job[w].pc = "delete network" /\ Still /\ lastId' = lastId
    BY DEF DeleteNetwork, Quiet, history, Still
  <1>2. /\ job[w].op # "none" /\ job[w] \in Jobs /\ (~overlapped => NamesApart /\ Done(w))
        /\ lastId \in 0 .. MaxIds /\ faults \in 0 .. MaxFaults /\ JobsInv
    BY <1>1, Stands DEF GatewayInv
  <1>3. CASE Missing(w)
    BY <1>1, <1>2, <1>3, JobMoves, OverKeeps DEF Missing, Still
  <1>4. CASE ~Missing(w)
    <2>1. /\ networks' = networks \ Net(w) /\ Goto(w, "list leftovers")
          /\ UNCHANGED <<token, gateway, routes, policies>>
      BY <1>4 DEF DeleteNetwork
    <2>2. At(w, "list leftovers", job[w].seen, job[w].net, job[w].next)
      BY <1>2, <2>1, JobMoves DEF Calls, WithLan
    <2>3. ~overlapped => Done(w)'
      <3>1. ~overlapped => networks' = {} /\ job[w].want.lan = NoLan /\ job[w].want = setting
                             /\ OneRoute
        BY <1>1, <1>2, <2>1, OwnNetwork
        DEF Done, RoutesDone, NetworkDone, AtRoutes, Early
      <3>2. job'[w].want = job[w].want /\ job'[w].pc = "list leftovers" /\ setting' = setting
        BY <1>1, <2>2 DEF At, Still
      <3>3. ~overlapped => OneRoute'
        BY <2>1, <3>1 DEF OneRoute
      <3>4. QED
        BY <3>1, <3>2, <3>3
        DEF Done, RoutesDone, NetworkDone, NetworkRight, PoliciesDone, AtRoutes, Early, WithLan
    <2>4. NetworksInv' /\ (~overlapped => \A m, n \in networks' : m = n)
      BY <1>1, <1>2, <2>1 DEF GatewayInv, NetworksInv, NamesApart
    <2>5. Turn(w) /\ job'[w].pc \notin Early
      BY <2>2 DEF At, Early
    <2>6. lastId' \in 0 .. MaxIds /\ lastId <= lastId'
      BY <1>1, SameId DEF GatewayInv
    <2>7. QED
      BY <1>1, <2>1, <2>3, <2>4, <2>5, <2>6, NetworksChange
  <1>5. QED
    BY <1>3, <1>4

\* A network is made only where none was seen.
LEMMA CreateNetworkKeeps ==
    ASSUME GatewayInv, NEW w \in Workers, CreateNetwork(w)
    PROVE  GatewayInv'
  <1> DEFINE new == [id |-> lastId', routed |-> FALSE, lans |-> {}]
  <1>1. /\ job[w].pc = "create network" /\ Still /\ NewId
        /\ networks' = networks \union {new} /\ UNCHANGED <<token, gateway, routes, policies>>
        /\ job' = [job EXCEPT ![w].pc = "router", ![w].net = lastId']
    BY DEF CreateNetwork, history, Still
  <1>2. /\ job[w].op # "none" /\ job[w] \in Jobs /\ (~overlapped => NamesApart /\ Done(w))
        /\ BoundsInv /\ NetworksInv /\ job \in [Workers -> Jobs] /\ job[w].want.lan # NoLan
    BY <1>1, Stands DEF GatewayInv, JobsInv, WithLan
  <1>3. /\ lastId' \in 1 .. MaxIds /\ lastId' \in 0 .. MaxIds
        /\ lastId < lastId' /\ lastId <= lastId'
    BY <1>1, <1>2, NewIds
  <1>4. new \in Networks /\ new.id = lastId'
    BY <1>3, Zenon DEF Networks
  <1> HIDE DEF new
  <1>5. NetworksInv'
    <2>1. networks' \subseteq Networks
      BY <1>1, <1>2, <1>4, Zenon DEF NetworksInv
    <2>2. lastId \in Nat /\ \A n \in networks : n.id \in Nat
      BY <1>2, Bounds DEF BoundsInv, NetworksInv, Networks
    <2>3. \A n \in networks : n.id < lastId'
      BY <1>2, <1>3, <2>2 DEF NetworksInv
    <2>4. networks' = networks \union {new} /\ new.id = lastId'
      BY <1>1, <1>4
    <2>5. \A n \in networks' : n.id <= lastId'
      BY <1>3, <2>2, <2>3, <2>4
    <2>6. \A m, n \in networks' : m.id = n.id => m = n
      BY <1>2, <1>3, <2>2, <2>3, <2>4 DEF NetworksInv
    <2>7. QED
      BY <2>1, <2>5, <2>6 DEF NetworksInv
  <1>6. /\ Turn(w) /\ job'[w].pc = "router" /\ job'[w].net = lastId'
        /\ job'[w].want = job[w].want
    <2> DEFINE r == [job[w] EXCEPT !.pc = "router", !.net = lastId']
    <2>1. job' = [job EXCEPT ![w] = r]
      BY <1>1, Zenon
    <2>2. lastId' \in Nat
      BY <1>3, Bounds
    <2>3. /\ r \in Jobs /\ r.pc = "router" /\ r.op = job[w].op
          /\ r.net = lastId' /\ r.want = job[w].want
      BY <1>2, <2>2 DEF Jobs, Calls
    <2> HIDE DEF r
    <2>4. QED
      BY <1>2, <2>1, <2>3 DEF Turn
  <1>7. ~overlapped => (\A m, n \in networks' : m = n) /\ Done(w)'
    <2> SUFFICES ASSUME ~overlapped PROVE (\A m, n \in networks' : m = n) /\ Done(w)'
      OBVIOUS
    <2>1. networks = {} /\ OneRoute /\ job[w].want = setting /\ job[w].want.lan # NoLan
      BY <1>1, <1>2 DEF Done, RoutesDone, NetworkDone, AtRoutes, Early, WithLan
    <2>2. networks' = {new}
      BY <1>1, <2>1
    <2>3. OneRoute' /\ job'[w].want = setting' /\ job'[w].want.lan # NoLan
      BY <1>1, <1>6, <2>1 DEF OneRoute, Still
    <2>4. QED
      BY <1>4, <1>6, <2>2, <2>3
      DEF Done, RoutesDone, NetworkDone, PoliciesDone, AtRoutes, Early, WithLan
  <1>8. job[w].pc # "idle" /\ job'[w].pc \notin Early
    BY <1>1, <1>6 DEF Early
  <1>9. QED
    BY <1>1, <1>3, <1>5, <1>6, <1>7, <1>8, NetworksChange

\* The network gets its router, or another address; by itself, there is no other.
LEMMA OwnNetworkChanges ==
    ASSUME GatewayInv, NEW w \in Workers, NEW f \in [networks -> Networks],
           \A n \in networks : f[n].id = n.id,
           Still, lastId' = lastId, UNCHANGED <<token, gateway, routes, policies>>,
           networks' = {IF n.id = job[w].net THEN f[n] ELSE n : n \in networks},
           job[w].pc \in {"router", "resources"},
           NEW pc \in {"resources", "list policies"},
           At(w, pc, job[w].seen, job[w].net, job[w].next),
           \A n \in networks : job[w].pc = "router" \/ n.routed => f[n].routed,
           pc = "list policies" => \A n \in networks : f[n].lans = {job[w].want.lan}
    PROVE  GatewayInv'
  <1>1. /\ (~overlapped => NamesApart /\ Done(w)) /\ NetworksInv
        /\ job[w].want.lan # NoLan
    BY Stands DEF GatewayInv, JobsInv, WithLan
  <1> DEFINE g == [n \in networks |-> IF n.id = job[w].net THEN f[n] ELSE n]
  <1>2. g \in [networks -> Networks] /\ \A n \in networks : g[n].id = n.id
    BY <1>1 DEF NetworksInv
  <1>3. networks' = {g[n] : n \in networks}
    OBVIOUS
  <1>4. NetworksInv' /\ (~overlapped => \A m, n \in networks' : m = n)
    <2> HIDE DEF g
    <2>1. QED
      BY <1>1, <1>2, <1>3, NetworksMapped DEF NamesApart
  <1>5. ~overlapped => Done(w)'
    <2> SUFFICES ASSUME ~overlapped PROVE Done(w)'
      OBVIOUS
    <2>1. PICK n \in networks : n.id = job[w].net /\ networks = {n}
      BY <1>1, OwnNetwork
    <2>2. networks' = {f[n]} /\ f[n].id = job[w].net
      BY <2>1
    <2>3. OneRoute /\ job[w].want = setting /\ job[w].want.lan # NoLan
          /\ (job[w].pc = "resources" => n.routed)
      BY <1>1 DEF Done, RoutesDone, NetworkDone, AtRoutes, Early, WithLan
    <2>4. OneRoute' /\ job'[w].want = setting' /\ job'[w].want = job[w].want
          /\ job'[w].pc = pc /\ job'[w].net = job[w].net
      BY <2>3 DEF OneRoute, Still, At
    <2>5. f[n].routed /\ (pc = "list policies" => f[n].lans = {job[w].want.lan})
      BY <2>1, <2>3
    <2>6. pc = "list policies" => NetworkRight(job[w].want)'
      BY <2>2, <2>3, <2>4, <2>5 DEF NetworkRight, OneNetwork
    <2>7. QED
      BY <2>2, <2>3, <2>4, <2>5, <2>6
      DEF Done, RoutesDone, NetworkDone, PoliciesDone, AtRoutes, Early, WithLan
  <1>6. Turn(w) /\ job'[w].pc \notin Early /\ job[w].pc # "idle"
    BY DEF At, Early
  <1>7. lastId' \in 0 .. MaxIds /\ lastId <= lastId'
    BY SameId DEF GatewayInv
  <1>8. QED
    BY <1>4, <1>5, <1>6, <1>7, NetworksChange

\* The three calls that change the network looked after.
LEMMA OwnNetworkKeeps ==
    ASSUME GatewayInv, NEW w \in Workers,
           CreateRouter(w) \/ DeleteResource(w) \/ CreateResource(w)
    PROVE  GatewayInv'
  <1>1. job[w].pc \in {"router", "resources"} /\ Still /\ lastId' = lastId
    BY DEF CreateRouter, DeleteResource, CreateResource, Quiet, history, Still
  <1>2. /\ job[w].op # "none" /\ job[w] \in Jobs /\ faults \in 0 .. MaxFaults
        /\ JobsInv /\ networks \subseteq Networks
        /\ (~overlapped => Done(w))
        /\ job[w].want.lan \in Lans
    <2>1. job[w].want \in Settings /\ job[w].want.lan # NoLan
      BY <1>1, Stands DEF GatewayInv, JobsInv, Jobs, WithLan
    <2>2. job[w].want.lan \in Lans
      BY <2>1 DEF Settings
    <2>3. QED
      BY <1>1, <2>2, Stands DEF GatewayInv, NetworksInv
  <1>3. CASE Missing(w)
    BY <1>1, <1>2, <1>3, JobMoves, OverKeeps DEF Missing, Still
  <1>4. CASE CreateRouter(w) /\ ~Missing(w)
    <2> DEFINE f == [n \in networks |-> [n EXCEPT !.routed = TRUE]]
    <2>1. /\ networks' = {IF n.id = job[w].net THEN f[n] ELSE n : n \in networks}
          /\ Goto(w, "resources") /\ UNCHANGED <<token, gateway, routes, policies>>
          /\ job[w].pc = "router"
      BY <1>4, Zenon DEF CreateRouter, Change
    <2>2. f \in [networks -> Networks] /\ \A n \in networks : f[n].id = n.id /\ f[n].routed
      BY <1>2 DEF Networks
    <2> HIDE DEF f
    <2>3. At(w, "resources", job[w].seen, job[w].net, job[w].next)
      BY <1>2, <2>1, JobMoves DEF Calls, WithLan
    <2>4. QED
      BY <1>1, <2>1, <2>2, <2>3, OwnNetworkChanges
  <1>5. CASE DeleteResource(w) /\ ~Missing(w)
    <2>0. PICK old :
             /\ networks' = {IF n.id = job[w].net THEN [n EXCEPT !.lans = @ \ {old}] ELSE n :
                                n \in networks}
             /\ Goto(w, "resources") /\ UNCHANGED <<token, gateway, routes, policies>>
      BY <1>5, Zenon DEF DeleteResource, Change
    <2> DEFINE f == [n \in networks |-> [n EXCEPT !.lans = @ \ {old}]]
    <2>1. /\ networks' = {IF n.id = job[w].net THEN f[n] ELSE n : n \in networks}
          /\ Goto(w, "resources") /\ UNCHANGED <<token, gateway, routes, policies>>
          /\ job[w].pc = "resources"
      BY <1>5, <2>0, Zenon DEF DeleteResource
    <2>2. /\ f \in [networks -> Networks]
          /\ \A n \in networks : f[n].id = n.id /\ (n.routed => f[n].routed)
      BY <1>2 DEF Networks
    <2> HIDE DEF f
    <2>3. At(w, "resources", job[w].seen, job[w].net, job[w].next)
      BY <1>2, <2>1, JobMoves DEF Calls, WithLan
    <2>4. QED
      BY <1>1, <2>1, <2>2, <2>3, OwnNetworkChanges
  <1>6. CASE CreateResource(w) /\ ~Missing(w)
    <2> DEFINE f == [n \in networks |-> [n EXCEPT !.lans = {job[w].want.lan}]]
    <2>1. /\ networks' = {IF n.id = job[w].net THEN f[n] ELSE n : n \in networks}
          /\ Goto(w, "list policies") /\ UNCHANGED <<token, gateway, routes, policies>>
          /\ job[w].pc = "resources"
      BY <1>6, Zenon DEF CreateResource, Change
    <2>2. /\ f \in [networks -> Networks]
          /\ \A n \in networks : /\ f[n].id = n.id /\ (n.routed => f[n].routed)
                                 /\ f[n].lans = {job[w].want.lan}
      BY <1>2 DEF Networks
    <2> HIDE DEF f
    <2>3. At(w, "list policies", job[w].seen, job[w].net, job[w].next)
      BY <1>2, <2>1, JobMoves DEF Calls, WithLan
    <2>4. QED
      BY <1>1, <2>1, <2>2, <2>3, OwnNetworkChanges
  <1>7. QED
    BY <1>3, <1>4, <1>5, <1>6

----------------------------------------------------------------------------
(* The policies.                                                           *)

\* A step that touches the policies only keeps the invariant if they are in order.
LEMMA PoliciesChange ==
    ASSUME GatewayInv, NEW w \in Workers, job[w].pc # "idle", Still,
           UNCHANGED <<token, gateway, routes, networks>>, PoliciesInv',
           lastId' \in 0 .. MaxIds, lastId <= lastId', Turn(w), job'[w].pc \notin Early,
           ~overlapped => (\A p, q \in policies' : p.slot = q.slot => p = q) /\ Done(w)'
    PROVE  GatewayInv'
  <1>1. /\ job[w].op # "none" /\ (~overlapped => NamesApart)
        /\ faults' \in 0 .. MaxFaults
    BY Stands DEF Still
  <1>2. RoutesInv' /\ NetworksInv' /\ (~overlapped => NamesApart')
    BY <1>1, TablesKept DEF NamesApart
  <1>3. AccountInv' /\ token' = token
    BY AccountKept, Zenon DEF GatewayInv, Still
  <1>4. setting' = setting /\ overlapped' = overlapped /\ settled' = settled /\ asked' = asked
    BY DEF Still
  <1>5. QED
    BY <1>1, <1>2, <1>3, <1>4, TurnKeeps DEF Early

\* From the first list of policies on, the routes and the network are in line.
LEMMA LaterCalls ==
    ASSUME NEW w \in Workers, Done(w),
           job[w].pc \in {"list policies", "set policies", "list leftovers", "delete policies"},
           job'[w].pc \in {"set policies", "delete policies"}, job'[w].want = job[w].want,
           setting' = setting, UNCHANGED <<routes, networks>>, PoliciesDone(w)'
    PROVE  Done(w)'
  <1>1. OneRoute /\ NetworkRight(job[w].want) /\ job[w].want = setting
    BY DEF Done, RoutesDone, NetworkDone, AtRoutes, Early
  <1>2. OneRoute' /\ NetworkRight(job[w].want)' /\ job'[w].want = setting'
    BY <1>1 DEF OneRoute, NetworkRight, OneNetwork
  <1>3. QED
    BY <1>2 DEF Done, RoutesDone, NetworkDone, AtRoutes, Early

\* The policies found by their names are all there are, if names are given once.
LEMMA ListPoliciesKeeps ==
    ASSUME GatewayInv, NEW w \in Workers, ListPolicies(w)
    PROVE  GatewayInv'
  <1>1. job[w].pc = "list policies" /\ Still /\ UNCHANGED account /\ lastId' = lastId
    BY DEF ListPolicies, Quiet, history, Still
  <1>2. /\ job[w].op # "none" /\ job[w] \in Jobs /\ (~overlapped => NamesApart /\ Done(w))
        /\ job \in [Workers -> Jobs] /\ policies \subseteq Policies
        /\ job[w].want.lan # NoLan
    BY <1>1, Stands DEF GatewayInv, JobsInv, PoliciesInv, WithLan
  <1>3. PICK seen \in SUBSET policies :
          /\ \A p \in policies : \E q \in seen : q.slot = p.slot
          /\ job' = [job EXCEPT ![w].pc = "set policies", ![w].seen = seen, ![w].next = 0]
    BY Zenon DEF ListPolicies
  <1>4. At(w, "set policies", seen, job[w].net, 0)
    <2> DEFINE r == [job[w] EXCEPT !.pc = "set policies", !.seen = seen, !.next = 0]
    <2>1. job' = [job EXCEPT ![w] = r]
      BY <1>3, Zenon
    <2>2. /\ r \in Jobs /\ r.pc = "set policies" /\ r.op = job[w].op /\ r.want = job[w].want
          /\ r.seen = seen /\ r.net = job[w].net /\ r.next = 0
      BY <1>2 DEF Jobs, Calls
    <2> HIDE DEF r
    <2>3. QED
      BY <1>2, <2>1, <2>2 DEF At, Turn
  <1>5. ~overlapped => Done(w)'
    <2> SUFFICES ASSUME ~overlapped PROVE Done(w)'
      OBVIOUS
    <2>1. seen = policies /\ policies' = policies
      <3>1. NamesApart
        BY <1>2
      <3>2. policies \subseteq seen
        BY <1>3, <3>1 DEF NamesApart
      <3>3. QED
        BY <1>1, <1>3, <3>2 DEF account
    <2>2. job[w].want.items \in SUBSET Items
      BY <1>2 DEF Jobs, Settings
    <2>3. 0 <= Len(parseOfficePorts(job[w].want.items))
      BY <2>2, RulesTyped
    <2>4. /\ job'[w].pc = "set policies" /\ job'[w].want = job[w].want
          /\ job'[w].seen = policies' /\ job'[w].next = 0 /\ policies' \subseteq Policies
      BY <1>2, <1>4, <2>1 DEF At
    <2>5. PoliciesDone(w)'
      <3>1. \A k \in 1 .. 0 : FALSE
        OBVIOUS
      <3>2. QED
        BY <2>3, <2>4, <3>1 DEF PoliciesDone, Set
    <2>6. QED
      BY <1>1, <1>2, <2>4, <2>5, LaterCalls DEF account, Still
  <1>6. lastId' \in 0 .. MaxIds /\ lastId <= lastId'
    BY <1>1, SameId DEF GatewayInv
  <1>7. UNCHANGED <<token, gateway, routes, networks>> /\ policies' = policies
    BY <1>1 DEF account
  <1>8. PoliciesInv'
    BY <1>6, <1>7, TablesKept
  <1>9. Turn(w) /\ job'[w].pc \notin Early
    BY <1>4 DEF At, Early
  <1>10. QED
    BY <1>1, <1>2, <1>5, <1>6, <1>7, <1>8, <1>9, PoliciesChange DEF NamesApart

\* Policies that are changed one by one, and keep their ids, stay in order.
LEMMA PoliciesMapped ==
    ASSUME PoliciesInv, lastId' = lastId, NEW f \in [policies -> Policies],
           \A p \in policies : f[p].id = p.id, policies' = {f[p] : p \in policies}
    PROVE  PoliciesInv'
  BY DEF PoliciesInv

\* The policy of the next rule is the one of that name, or a new one.
LEMMA SetPolicyKeeps ==
    ASSUME GatewayInv, NEW w \in Workers, SetPolicy(w)
    PROVE  GatewayInv'
  <1> DEFINE i == job[w].next
             rules == parseOfficePorts(job[w].want.items)
             seen == job[w].seen
             old == {p.id : p \in {q \in seen : q.slot = Slot(i)}}
             Named(id) == [id |-> id, slot |-> Slot(i), rule |-> rules[i + 1]]
  <1>1. /\ job[w].pc = "set policies" /\ i < Len(rules) /\ Still
        /\ \/ /\ old = {} /\ NewId /\ policies' = policies \union {Named(lastId')}
              /\ job' = [job EXCEPT ![w].next = i + 1]
              /\ UNCHANGED <<token, gateway, routes, networks>>
           \/ /\ lastId' = lastId /\ \E p \in policies : p.id \in old
              /\ policies' = {IF p.id \in old THEN Named(p.id) ELSE p : p \in policies}
              /\ job' = [job EXCEPT ![w].next = i + 1]
              /\ UNCHANGED <<token, gateway, routes, networks>>
           \/ Missing(w) /\ lastId' = lastId
    BY Zenon DEF SetPolicy, Still, history
  <1>2. /\ job[w].op # "none" /\ job[w] \in Jobs /\ (~overlapped => NamesApart /\ Done(w))
        /\ job \in [Workers -> Jobs] /\ PoliciesInv /\ BoundsInv /\ JobsInv
        /\ job[w].want.lan # NoLan /\ faults \in 0 .. MaxFaults
    BY <1>1, Stands DEF GatewayInv, JobsInv, WithLan
  <1>3. /\ i \in Nat /\ rules \in Seq(Rules) /\ Len(rules) \in 1 .. 3
        /\ Slot(i) = i + 1 /\ Slot(i) \in 1 .. 3 /\ rules[i + 1] \in Rules
        /\ i + 1 <= Len(rules)
    <2>0. i < Len(rules)
      BY <1>1
    <2>1. i \in Nat /\ job[w].want.items \in SUBSET Items
      BY <1>2 DEF Jobs, Settings
    <2>2. rules \in Seq(Rules) /\ Len(rules) \in 1 .. 3
      BY <2>1, RulesTyped
    <2>3. i + 1 \in 1 .. Len(rules)
      BY <2>0, <2>1, <2>2
    <2>4. rules[i + 1] \in Rules
      BY <2>2, <2>3
    <2>5. Slot(i) = i + 1
      BY DEF Slot
    <2>6. Slot(i) \in 1 .. 3
      <3>1. \A l \in 1 .. 3 : \A k \in 1 .. l : k \in 1 .. 3
        OBVIOUS
      <3>2. i + 1 \in 1 .. 3
        BY <2>2, <2>3, <3>1, Zenon
      <3>3. QED
        BY <2>5, <3>2, Zenon
    <2>7. i + 1 <= Len(rules)
      BY <2>1, <2>2, <2>3
    <2>8. QED
      BY <2>1, <2>2, <2>4, <2>5, <2>6, <2>7
  <1>4. \A id \in 1 .. MaxIds : Named(id) \in Policies
    BY <1>3 DEF Policies
  <1> HIDE DEF i, rules, seen
  <1>5. CASE Missing(w) /\ lastId' = lastId
    BY <1>1, <1>2, <1>5, JobMoves, OverKeeps DEF Missing, Still
  <1>6. ASSUME job' = [job EXCEPT ![w].next = i + 1]
        PROVE  At(w, "set policies", seen, job[w].net, i + 1)
    <2> DEFINE r == [job[w] EXCEPT !.next = i + 1]
    <2>1. job' = [job EXCEPT ![w] = r]
      BY <1>6, Zenon
    <2>2. /\ r \in Jobs /\ r.pc = "set policies" /\ r.op = job[w].op /\ r.want = job[w].want
          /\ r.seen = seen /\ r.net = job[w].net /\ r.next = i + 1
      <3>1. job[w] \in Jobs /\ job[w].pc = "set policies"
        BY <1>1, <1>2
      <3>2. i + 1 \in Nat
        BY <1>3
      <3>3. QED
        BY <3>1, <3>2 DEF Jobs, seen
    <2> HIDE DEF r
    <2>3. QED
      BY <1>2, <2>1, <2>2 DEF At, Turn
  <1>7. ASSUME ~overlapped
        PROVE  /\ seen \subseteq Policies
               /\ \A k \in 1 .. i : Set(k, rules)
               /\ \A p \in policies : p.slot > i => p \in seen
               /\ \A p \in seen : p.slot > i => p \in policies
               /\ \A p, q \in policies : p.slot = q.slot => p = q
    BY <1>1, <1>2, <1>7 DEF Done, PoliciesDone, NamesApart, i, rules, seen
  <1>8. \A p \in policies : p.id \in 1 .. MaxIds /\ p.slot \in 1 .. 3
    BY <1>2 DEF PoliciesInv, Policies
  \* What is left to show of a step that sets the policy.
  <1>9. ASSUME At(w, "set policies", seen, job[w].net, i + 1),
               UNCHANGED <<token, gateway, routes, networks>>, PoliciesInv',
               lastId' \in 0 .. MaxIds, lastId <= lastId',
               ~overlapped =>
                  /\ \A p, q \in policies' : p.slot = q.slot => p = q
                  /\ \A k \in 1 .. i + 1 : \E p \in policies' : p.slot = k /\ p.rule = rules[k]
                  /\ \A p \in policies' : p.slot > i + 1 => p \in seen
                  /\ \A p \in seen : p.slot > i + 1 => p \in policies'
        PROVE  GatewayInv'
    <2>1. Turn(w) /\ job'[w].pc \notin Early
      BY <1>9 DEF At, Early
    <2>2. /\ job'[w].pc = "set policies" /\ job'[w].want = job[w].want
          /\ job'[w].seen = seen /\ job'[w].next = i + 1
      BY <1>9 DEF At
    <2>3. i + 1 <= Len(rules) /\ (~overlapped => seen \subseteq Policies)
      BY <1>3, <1>7
    <2>4. ASSUME ~overlapped PROVE PoliciesDone(w)'
      <3>1. /\ \A k \in 1 .. i + 1 : \E p \in policies' : p.slot = k /\ p.rule = rules[k]
            /\ \A p \in policies' : p.slot > i + 1 => p \in seen
            /\ \A p \in seen : p.slot > i + 1 => p \in policies'
        BY <1>9, <2>4
      <3>2. QED
        BY <2>2, <2>3, <2>4, <3>1 DEF PoliciesDone, Set, rules
    <2>5. ~overlapped => Done(w)'
      BY <1>1, <1>2, <1>9, <2>2, <2>4, LaterCalls DEF Still
    <2>6. QED
      BY <1>1, <1>9, <2>1, <2>5, PoliciesChange
  <1>10. ASSUME old = {}, NewId, policies' = policies \union {Named(lastId')},
                job' = [job EXCEPT ![w].next = i + 1],
                UNCHANGED <<token, gateway, routes, networks>>
         PROVE  GatewayInv'
    <2>1. /\ lastId' \in 1 .. MaxIds /\ lastId' \in 0 .. MaxIds
          /\ lastId < lastId' /\ lastId <= lastId'
      BY <1>2, <1>10, NewIds
    <2> DEFINE new == Named(lastId')
    <2>2. new \in Policies /\ new.id = lastId' /\ new.slot = i + 1 /\ new.rule = rules[i + 1]
      BY <1>3, <1>4, <2>1
    <2>3. policies' = policies \union {new}
      BY <1>10
    <2>4. ASSUME ~overlapped, NEW p \in policies PROVE p.slot # i + 1
      <3>1. \A q \in seen : q.slot # i + 1
        BY <1>3, <1>10
      <3>2. p.slot > i => p \in seen
        BY <1>7, <2>4
      <3>3. QED
        BY <1>3, <3>1, <3>2
    <2> HIDE DEF new
    <2>5. PoliciesInv'
      <3>1. lastId \in Nat /\ lastId' \in Nat
        BY <1>2, <2>1, Bounds DEF BoundsInv
      <3>2. \A p \in policies : p.id < lastId' /\ p.id \in Nat
        BY <1>2, <1>8, <2>1, <3>1 DEF PoliciesInv
      <3>3. QED
        BY <1>2, <2>1, <2>2, <2>3, <3>1, <3>2 DEF PoliciesInv
    <2>6. ASSUME ~overlapped
          PROVE  /\ \A p, q \in policies' : p.slot = q.slot => p = q
                 /\ \A k \in 1 .. i + 1 : \E p \in policies' : p.slot = k /\ p.rule = rules[k]
                 /\ \A p \in policies' : p.slot > i + 1 => p \in seen
                 /\ \A p \in seen : p.slot > i + 1 => p \in policies'
      <3>1. \A p, q \in policies' : p.slot = q.slot => p = q
        BY <1>7, <2>2, <2>3, <2>4, <2>6
      <3>2. \A k \in 1 .. i + 1 : \E p \in policies' : p.slot = k /\ p.rule = rules[k]
        BY <1>3, <1>7, <2>2, <2>3, <2>6 DEF Set
      <3>3. \A p \in policies' : p.slot > i + 1 => p \in seen
        BY <1>3, <1>7, <1>8, <2>2, <2>3, <2>6
      <3>4. \A p \in seen : p.slot > i + 1 => p \in policies'
        <4>1. \A p \in seen : p.slot \in Nat
          BY <1>7, <2>6 DEF Policies
        <4>2. QED
          BY <1>3, <1>7, <2>3, <2>6, <4>1
      <3>5. QED
        BY <3>1, <3>2, <3>3, <3>4
    <2>7. QED
      BY <1>6, <1>9, <1>10, <2>1, <2>5, <2>6
  <1>11. ASSUME lastId' = lastId, NEW p0 \in policies, p0.id \in old,
                policies' = {IF p.id \in old THEN Named(p.id) ELSE p : p \in policies},
                job' = [job EXCEPT ![w].next = i + 1],
                UNCHANGED <<token, gateway, routes, networks>>
         PROVE  GatewayInv'
    <2> DEFINE g == [p \in policies |-> IF p.id \in old THEN Named(p.id) ELSE p]
    <2>1. g \in [policies -> Policies] /\ \A p \in policies : g[p].id = p.id
      BY <1>2, <1>4, <1>8 DEF PoliciesInv
    <2>2. policies' = {g[p] : p \in policies}
      BY <1>11
    <2>3. PoliciesInv'
      <3> HIDE DEF g
      <3>1. QED
        BY <1>2, <1>11, <2>1, <2>2, PoliciesMapped
    <2>4. lastId' \in 0 .. MaxIds /\ lastId <= lastId'
      BY <1>2, <1>11, SameId
    <2>5. ASSUME ~overlapped
          PROVE  /\ \A p, q \in policies' : p.slot = q.slot => p = q
                 /\ \A k \in 1 .. i + 1 : \E p \in policies' : p.slot = k /\ p.rule = rules[k]
                 /\ \A p \in policies' : p.slot > i + 1 => p \in seen
                 /\ \A p \in seen : p.slot > i + 1 => p \in policies'
      <3>0. \A p \in seen : p.slot \in 1 .. 3
        BY <1>7, <2>5 DEF Policies
      <3>1. ASSUME NEW p \in policies PROVE p.id \in old <=> p.slot = i + 1
        <4>1. ASSUME p.slot = i + 1 PROVE p.id \in old
          <5>1. p \in seen
            BY <1>3, <1>7, <2>5, <4>1
          <5>2. QED
            BY <1>3, <4>1, <5>1
        <4>2. ASSUME p.id \in old PROVE p.slot = i + 1
          <5>1. PICK q \in seen : q.slot = i + 1 /\ q.id = p.id
            BY <1>3, <4>2
          <5>2. q \in policies
            BY <1>3, <1>7, <2>5, <5>1
          <5>3. QED
            BY <1>2, <5>1, <5>2 DEF PoliciesInv
        <4>3. QED
          BY <4>1, <4>2
      <3>2. \A p \in policies :
               IF p.slot = i + 1 THEN g[p].slot = i + 1 /\ g[p].rule = rules[i + 1]
                                 ELSE g[p] = p
        BY <1>3, <3>1
      <3> HIDE DEF g, old
      <3>3. \A p, q \in policies' : p.slot = q.slot => p = q
        BY <1>7, <2>2, <2>5, <3>2
      <3>4. ASSUME NEW k \in 1 .. i + 1
            PROVE  \E p \in policies' : p.slot = k /\ p.rule = rules[k]
        <4>1. CASE k = i + 1
          <5>1. p0.slot = i + 1
            BY <1>11, <3>1
          <5>2. QED
            BY <1>11, <2>2, <3>2, <4>1, <5>1
        <4>2. CASE k # i + 1
          <5>1. k \in 1 .. i
            BY <1>3, <4>2
          <5>2. PICK p \in policies : p.slot = k /\ p.rule = rules[k]
            BY <1>7, <2>5, <5>1 DEF Set
          <5>3. g[p] = p
            BY <3>2, <4>2, <5>2
          <5>4. QED
            BY <2>2, <5>2, <5>3
        <4>3. QED
          BY <4>1, <4>2
      <3>5. \A p \in policies' : p.slot > i + 1 => p \in seen
        BY <1>3, <1>7, <1>8, <2>2, <2>5, <3>2
      <3>6. \A p \in seen : p.slot > i + 1 => p \in policies'
        BY <1>3, <1>7, <2>2, <2>5, <3>0, <3>2
      <3>7. QED
        BY <3>3, <3>4, <3>5, <3>6
    <2>6. QED
      BY <1>6, <1>9, <1>11, <2>3, <2>4, <2>5
  <1>12. QED
    BY <1>1, <1>5, <1>10, <1>11

\* Counted from 0 or from 1, they are as many.
LEMMA Slots ==
    ASSUME NEW n \in 1 .. 3
    PROVE  {i + 1 : i \in 0 .. n - 1} = 1 .. n
  <1>1. \A k \in 1 .. n : k - 1 \in 0 .. n - 1 /\ k = (k - 1) + 1
    OBVIOUS
  <1>2. \A i \in 0 .. n - 1 : i + 1 \in 1 .. n
    OBVIOUS
  <1>3. QED
    BY <1>1, <1>2

\* What goes in the end is what no rule asks for.
LEMMA LeftoversKeep ==
    ASSUME GatewayInv, NEW w \in Workers, ListLeftovers(w) \/ DeleteLeftover(w)
    PROVE  GatewayInv'
  <1>1. /\ job[w].pc \in {"set policies", "list leftovers", "delete policies"}
        /\ Still /\ lastId' = lastId
    BY DEF ListLeftovers, DeleteLeftover, Quiet, history, Still
  <1>2. /\ job[w].op # "none" /\ job[w] \in Jobs /\ (~overlapped => NamesApart /\ Done(w))
        /\ PoliciesInv /\ JobsInv /\ faults \in 0 .. MaxFaults
    BY <1>1, Stands DEF GatewayInv
  <1>3. lastId' \in 0 .. MaxIds /\ lastId <= lastId'
    BY <1>1, SameId DEF GatewayInv
  <1> DEFINE rules == parseOfficePorts(job[w].want.items)
             old == {p.id : p \in {q \in policies : q.slot \notin Wanted(w)}}
  <1>4. CASE ListLeftovers(w)
    <2>1. See(w, "delete policies", old) /\ UNCHANGED account
      BY <1>4 DEF ListLeftovers
    <2>2. \A p \in policies : p.id \in Nat
      BY <1>2, Bounds DEF PoliciesInv, Policies
    <2>3. At(w, "delete policies", old, job[w].net, job[w].next)
      BY <1>2, <2>1, <2>2, JobMoves DEF Calls, WithLan
    <2>4. /\ job'[w].pc = "delete policies" /\ job'[w].want = job[w].want /\ job'[w].seen = old
          /\ Turn(w) /\ job'[w].pc \notin Early
      BY <2>3 DEF At, Early
    <2>5. UNCHANGED <<token, gateway, routes, networks>> /\ policies' = policies
      BY <2>1 DEF account
    <2>6. \A p \in policies : p.id \in old <=> p.slot \notin Wanted(w)
      BY <1>2 DEF PoliciesInv
    <2>7. ASSUME ~overlapped PROVE \A k \in Wanted(w) : Set(k, rules)
      <3>1. CASE job[w].want.lan = NoLan
        BY <3>1 DEF Wanted
      <3>2. CASE job[w].want.lan # NoLan
        <4>1. job[w].pc = "set policies" /\ job[w].next = Len(rules)
          BY <1>1, <1>2, <1>4, <2>7, <3>2 DEF ListLeftovers, Done, NetworkDone
        <4>2. \A k \in 1 .. Len(rules) : Set(k, rules)
          BY <1>2, <2>7, <4>1 DEF Done, PoliciesDone
        <4>3. Len(rules) \in 1 .. 3
          BY <1>2, RulesTyped DEF Jobs, Settings
        <4>4. Wanted(w) = {i + 1 : i \in 0 .. Len(rules) - 1}
          BY <3>2 DEF Wanted, Slot
        <4> HIDE DEF rules
        <4>5. QED
          BY <4>2, <4>3, <4>4, Slots
      <3>3. QED
        BY <3>1, <3>2
    <2> HIDE DEF old
    <2>8. ASSUME ~overlapped PROVE PoliciesDone(w)'
      <3>1. Wanted(w)' = Wanted(w) /\ rules' = rules
        BY <2>4 DEF Wanted
      <3>2. \A k \in Wanted(w)' : Set(k, rules)'
        BY <2>5, <2>7, <2>8, <3>1 DEF Set
      <3>3. \A p \in policies' : p.id \in job'[w].seen <=> p.slot \notin Wanted(w)'
        BY <2>4, <2>5, <2>6, <3>1
      <3>4. QED
        BY <2>4, <3>2, <3>3 DEF PoliciesDone
    <2>9. ASSUME ~overlapped PROVE Done(w)'
      BY <1>1, <1>2, <2>4, <2>5, <2>8, <2>9, LaterCalls DEF Still
    <2>10. PoliciesInv' /\ (~overlapped => \A p, q \in policies' : p.slot = q.slot => p = q)
      BY <1>2, <1>3, <2>5, TablesKept DEF NamesApart
    <2>11. QED
      BY <1>1, <1>3, <2>4, <2>5, <2>9, <2>10, PoliciesChange
  <1>5. CASE DeleteLeftover(w)
    <2>1. PICK id \in job[w].seen :
             \/ /\ policies' = {p \in policies : p.id # id}
                /\ See(w, "delete policies", job[w].seen \ {id})
                /\ UNCHANGED <<token, gateway, routes, networks>>
             \/ Missing(w)
      BY <1>5, Zenon DEF DeleteLeftover
    <2>2. job[w].pc = "delete policies"
      BY <1>5 DEF DeleteLeftover
    <2>3. CASE Missing(w)
      BY <1>1, <1>2, <2>3, JobMoves, OverKeeps DEF Missing, Still
    <2>4. CASE ~Missing(w)
      <3>1. At(w, "delete policies", job[w].seen \ {id}, job[w].net, job[w].next)
        BY <1>2, <2>1, <2>4, JobMoves DEF Calls, WithLan, Jobs
      <3>2. /\ job'[w].pc = "delete policies" /\ job'[w].want = job[w].want
            /\ job'[w].seen = job[w].seen \ {id} /\ Turn(w) /\ job'[w].pc \notin Early
        BY <3>1 DEF At, Early
      <3>3. UNCHANGED <<token, gateway, routes, networks>>
            /\ policies' = {p \in policies : p.id # id}
        BY <2>1, <2>4
      <3>4. ASSUME ~overlapped PROVE PoliciesDone(w)'
        <4>1. /\ \A k \in Wanted(w) : Set(k, rules)
              /\ \A p \in policies : p.id \in job[w].seen <=> p.slot \notin Wanted(w)
          BY <1>2, <2>2, <3>4 DEF Done, PoliciesDone
        <4>2. /\ \A k \in Wanted(w) : \E p \in policies' : p.slot = k /\ p.rule = rules[k]
              /\ \A p \in policies' : p.id \in job'[w].seen <=> p.slot \notin Wanted(w)
          <5>1. \A p \in policies : p.slot \in Wanted(w) => p.id # id
            BY <2>1, <4>1
          <5>2. \A k \in Wanted(w) : \E p \in policies' : p.slot = k /\ p.rule = rules[k]
            BY <3>3, <4>1, <5>1 DEF Set
          <5>3. \A p \in policies' : p.id \in job'[w].seen <=> p.slot \notin Wanted(w)
            BY <3>2, <3>3, <4>1
          <5>4. QED
            BY <5>2, <5>3
        <4>3. Wanted(w)' = Wanted(w)
          BY <3>2 DEF Wanted
        <4>4. job'[w].pc # "set policies" /\ rules' = rules
          BY <3>2
        <4>5. \A k \in Wanted(w)' : Set(k, rules)'
          BY <4>2, <4>3, <4>4 DEF Set
        <4>6. \A p \in policies' : p.id \in job'[w].seen <=> p.slot \notin Wanted(w)'
          BY <4>2, <4>3
        <4>7. QED
          BY <4>4, <4>5, <4>6 DEF PoliciesDone
      <3>5. ASSUME ~overlapped PROVE Done(w)'
        BY <1>1, <1>2, <3>2, <3>3, <3>4, <3>5, LaterCalls DEF Still
      <3>6. PoliciesInv' /\ (~overlapped => \A p, q \in policies' : p.slot = q.slot => p = q)
        BY <1>1, <1>2, <3>3 DEF PoliciesInv, NamesApart
      <3>7. QED
        BY <1>1, <1>3, <3>2, <3>3, <3>5, <3>6, PoliciesChange
    <2>5. QED
      BY <2>3, <2>4
  <1>6. QED
    BY <1>4, <1>5

\* A sync that reaches its end by itself leaves what the setting says: the network
\* leads to the LAN and no other, and the policies open what its rules open.
LEMMA EndsInLine ==
    ASSUME GatewayInv, NEW w \in Workers, ~overlapped,
           job[w].pc = "delete policies", job[w].seen = {}
    PROVE  InLine
  <1>1. /\ Done(w) /\ NamesApart /\ setting \in Settings /\ "off" \notin Lans
        /\ networks \subseteq Networks /\ policies \subseteq Policies /\ job[w] \in Jobs
    BY Stands, Bounds DEF GatewayInv, AccountInv, NetworksInv, PoliciesInv
  <1>2. OneRoute /\ NetworkRight(setting) /\ job[w].want = setting
    BY <1>1 DEF Done, RoutesDone, NetworkDone, AtRoutes, Early
  <1> DEFINE rules == parseOfficePorts(setting.items)
  <1>3. /\ \A k \in Wanted(w) : Set(k, rules)
        /\ \A p \in policies : p.slot \in Wanted(w)
    BY <1>1, <1>2 DEF Done, PoliciesDone
  <1>4. Reached = Allowed(setting)
    <2> DEFINE Lead == UNION {n.lans : n \in {m \in networks : m.routed}}
               Open == UNION {Opened(p.rule) : p \in policies}
    <2>1. CASE setting.lan = NoLan
      <3>1. networks = {}
        BY <1>2, <2>1 DEF NetworkRight
      <3>2. Lead = {} /\ {setting.lan} \ {NoLan} = {}
        BY <2>1, <3>1
      <3>3. \A S, T : S = {} => S \X T = {}
        OBVIOUS
      <3>4. QED
        BY <3>2, <3>3 DEF Reached, Allowed
    <2>2. CASE setting.lan # NoLan
      <3>1. PICK n \in networks : n.routed /\ n.lans = {setting.lan} /\ networks = {n}
        BY <1>2, <2>2 DEF NetworkRight, OneNetwork
      <3>2. Lead = {setting.lan} /\ {setting.lan} \ {NoLan} = {setting.lan}
        BY <2>2, <3>1
      <3>3. setting.items \in SUBSET Items
        <4>1. setting \in Settings
          BY <1>1
        <4>2. \A s \in Settings : s.items \in SUBSET Items
          <5>1. \A s \in [lan : Lans, items : SUBSET Items] : s.items \in SUBSET Items
            OBVIOUS
          <5>2. [lan |-> NoLan, items |-> {}].items \in SUBSET Items
            OBVIOUS
          <5>3. QED
            BY <5>1, <5>2, Zenon DEF Settings
        <4>3. QED
          BY <4>1, <4>2, Zenon
      <3>4. Len(rules) \in 1 .. 3
        BY <3>3, RulesTyped
      <3>5. \A k : k \in Wanted(w) <=> k \in 1 .. Len(rules)
        <4>1. Wanted(w) = {i + 1 : i \in 0 .. Len(rules) - 1}
          BY <1>2, <2>2 DEF Wanted, Slot
        <4> HIDE DEF rules
        <4>2. QED
          BY <3>4, <4>1, Slots
      <3>6. \A p \in policies : p.slot \in 1 .. Len(rules) /\ p.rule = rules[p.slot]
        <4>1. ASSUME NEW p \in policies
              PROVE  p.slot \in 1 .. Len(rules) /\ p.rule = rules[p.slot]
          <5>1. PICK q \in policies : q.slot = p.slot /\ q.rule = rules[p.slot]
            BY <1>3 DEF Set
          <5>2. q = p
            BY <1>1, <5>1 DEF NamesApart
          <5>3. QED
            BY <1>3, <3>5, <5>1, <5>2
        <4>2. QED
          BY <4>1
      <3>7. \A k \in 1 .. Len(rules) : \E p \in policies : p.rule = rules[k]
        BY <1>3, <3>5 DEF Set
      <3>8. \A i : i \in Open <=> \E k \in 1 .. Len(rules) : i \in Opened(rules[k])
        <4> HIDE DEF rules
        <4>1. QED
          <5>1. ASSUME NEW i \in Open PROVE \E k \in 1 .. Len(rules) : i \in Opened(rules[k])
            <6>1. PICK p \in policies : i \in Opened(p.rule)
              OBVIOUS
            <6>2. p.slot \in 1 .. Len(rules) /\ i \in Opened(rules[p.slot])
              BY <3>6, <6>1
            <6>3. QED
              BY <6>2
          <5>2. ASSUME NEW k \in 1 .. Len(rules), NEW i \in Opened(rules[k]) PROVE i \in Open
            <6>1. PICK p \in policies : p.rule = rules[k]
              BY <3>7
            <6>2. QED
              BY <6>1
          <5>3. QED
            BY <5>1, <5>2
      <3>9. \A p \in policies : Opened(p.rule) \subseteq Everything
        BY <1>1 DEF Opened, Policies, Rules, Everything
      <3>10. \A i : i \in Open <=> /\ i \in Everything
                                   /\ setting.items = {} \/ i \in setting.items
        <4>1. \A i : i \in Open => i \in Everything
          BY <3>9
        <4>2. \A i \in Everything : i \in Open <=> (setting.items = {} \/ i \in setting.items)
          <5> HIDE DEF Open
          <5>1. \A i \in Everything : (\E k \in 1 .. Len(rules) : i \in Opened(rules[k]))
                                        <=> (setting.items = {} \/ i \in setting.items)
            BY <3>3, RulesExact, Zenon
          <5> HIDE DEF rules
          <5>2. QED
            BY <3>8, <5>1
        <4>3. QED
          BY <4>1, <4>2
      <3>11. Open = IF setting.items = {} THEN Everything ELSE setting.items
        <4> HIDE DEF Open
        <4>1. \A i \in setting.items : i \in Everything
          BY <3>3 DEF Everything
        <4>2. QED
          BY <3>10, <4>1
      <3>12. QED
        BY <3>2, <3>11 DEF Reached, Allowed
    <2>3. QED
      BY <2>1, <2>2
  <1>5. QED
    BY <1>2, <1>4 DEF InLine, OneRoute

\* Only a sync without another beside it counts as settled.
LEMMA FinishKeeps ==
    ASSUME GatewayInv, NEW w \in Workers, Finish(w)
    PROVE  GatewayInv'
  <1>1. /\ job[w].pc = "delete policies" /\ job[w].seen = {}
        /\ job' = [job EXCEPT ![w] = Idle] /\ settled' = job[w].alone
        /\ UNCHANGED <<setting, running, account, overlapped, asked, faults, lastId>>
    BY DEF Finish
  <1>2. /\ job[w].op # "none" /\ job[w] \in Jobs /\ JobsInv
        /\ ~overlapped => NamesApart /\ InLine
        /\ faults \in 0 .. MaxFaults
    BY <1>1, Stands, EndsInLine DEF GatewayInv
  <1>3. Over(w) /\ job'[w] = Idle
    BY <1>1, <1>2, JobMoves
  <1>4. Done(w)' /\ Turn(w) /\ job'[w].op = "none" /\ job'[w].pc # "join"
    BY <1>3, EarlyDone DEF Over, Early, Idle
  <1>5. ~overlapped => InLine'
    BY <1>1, <1>2 DEF InLine, Reached, Allowed, account
  <1>6. settled' \in BOOLEAN
    BY <1>1, <1>2, Zenon DEF Jobs
  <1>7. AccountInv' /\ token' = token
    BY <1>1, AccountKept, Zenon DEF account, GatewayInv
  <1>8. lastId' \in 0 .. MaxIds /\ lastId <= lastId'
    BY <1>1, SameId DEF GatewayInv
  <1>9. RoutesInv' /\ NetworksInv' /\ PoliciesInv' /\ (~overlapped => NamesApart')
    BY <1>1, <1>2, <1>8, TablesKept DEF account, NamesApart
  <1>10. setting' = setting /\ overlapped' = overlapped /\ asked' = asked /\ faults' = faults
    BY <1>1
  <1>11. QED
    BY <1>2, <1>4, <1>5, <1>6, <1>7, <1>8, <1>9, <1>10, TurnKeeps

----------------------------------------------------------------------------
(* What starts a sync.                                                     *)

\* One more sync begins, and those under way are no longer alone.
Begun(w, op, pc) ==
    /\ job' \in [Workers -> Jobs]
    /\ job[w].op = "none" /\ job'[w].op = op /\ job'[w].pc = pc
    /\ \A v \in Workers \ {w} :
          /\ job'[v].op = job[v].op /\ job'[v].pc = job[v].pc
          /\ job'[v].want = job[v].want
    /\ settled' = FALSE /\ asked < MaxRequests /\ asked' = asked + 1
    /\ overlapped' = (overlapped \/ Working # {})
    /\ faults' = faults /\ lastId' = lastId

\* What Begin does to the other syncs is to mark them.
LEMMA Begins ==
    ASSUME JobsInv, NEW w \in Workers, NEW op \in Ops \ {"none"}, NEW pc \in {"load", "setup"},
           Begin(w, op, pc)
    PROVE  Begun(w, op, pc)
  <1> DEFINE r == [Idle EXCEPT !.op = op, !.pc = pc, !.alone = Working = {}]
  <1>1. Idle \in Jobs
    BY DEF Off, Idle, Settings, NoLan, Jobs, Ops, Calls
  <1>2. r \in Jobs /\ r.op = op /\ r.pc = pc
    <2>1. (Working = {}) \in BOOLEAN
      OBVIOUS
    <2> DEFINE b == Working = {}
    <2> HIDE DEF b
    <2>2. QED
      BY <1>1, <2>1, Zenon DEF Jobs, Calls, Ops, Idle
  <1> HIDE DEF r
  <1>3. job \in [Workers -> Jobs]
    BY DEF JobsInv
  <1>4. job' = [v \in Workers |-> IF v = w THEN r ELSE [job[v] EXCEPT !.alone = FALSE]]
    BY Zenon DEF Begin, r
  <1>5. \A j \in Jobs : LET n == [j EXCEPT !.alone = FALSE]
                        IN  n \in Jobs /\ n.op = j.op /\ n.pc = j.pc /\ n.want = j.want
    BY DEF Jobs
  <1>6. /\ job' \in [Workers -> Jobs] /\ job'[w].op = op /\ job'[w].pc = pc
        /\ \A v \in Workers \ {w} :
              /\ job'[v].op = job[v].op /\ job'[v].pc = job[v].pc
              /\ job'[v].want = job[v].want
    BY <1>2, <1>3, <1>4, <1>5
  <1>7. /\ job[w].op = "none" /\ settled' = FALSE /\ asked < MaxRequests /\ asked' = asked + 1
        /\ overlapped' = (overlapped \/ Working # {}) /\ faults' = faults /\ lastId' = lastId
    BY Zenon DEF Begin
  <1>8. QED
    BY <1>6, <1>7, Zenon DEF Begun

\* Nobody is under way: a sync that begins runs by itself, until the next begins.
LEMMA BeginKeeps ==
    ASSUME GatewayInv, NEW w \in Workers,
           NEW op \in Ops \ {"none"}, NEW pc \in {"load", "setup"},
           Begin(w, op, pc), AccountInv', RoutesInv', NetworksInv', PoliciesInv',
           ~overlapped => NamesApart',
           token' = token \/ Working = {}
    PROVE  GatewayInv'
  <1>1. JobsInv /\ BoundsInv
    BY DEF GatewayInv
  <1>0. Begun(w, op, pc)
    BY <1>1, Begins
  <1>2. /\ job' \in [Workers -> Jobs]
        /\ job[w].op = "none" /\ job'[w].op = op /\ job'[w].pc = pc
        /\ \A v \in Workers \ {w} : /\ job'[v].op = job[v].op /\ job'[v].pc = job[v].pc
                                    /\ job'[v].want = job[v].want
        /\ overlapped' = (overlapped \/ Working # {})
    BY <1>0, Zenon DEF Begun
  <1>3. /\ settled' = FALSE /\ asked < MaxRequests /\ asked' = asked + 1
        /\ faults' = faults /\ lastId' = lastId
    BY <1>0, Zenon DEF Begun
  <1>4. JobsInv'
    <2>1. ASSUME NEW v \in Workers
          PROVE  /\ job'[v].pc = "idle" <=> job'[v].op = "none"
                 /\ job'[v].pc = "join" => token' = "valid"
                 /\ job'[v].pc \in WithLan => job'[v].want.lan # NoLan
      <3>1. CASE v = w
        BY <1>2, <3>1 DEF WithLan, Ops
      <3>2. CASE v # w
        BY <1>1, <1>2, <3>2 DEF JobsInv, Working
      <3>3. QED
        BY <3>1, <3>2
    <2>2. QED
      BY <1>2, <2>1 DEF JobsInv
  <1>5. BoundsInv'
    <2>1. overlapped' \in BOOLEAN /\ settled' \in BOOLEAN
      BY <1>2, <1>3, Zenon
    <2>2. asked' \in 0 .. MaxRequests /\ faults' \in 0 .. MaxFaults /\ lastId' \in 0 .. MaxIds
      BY <1>1, <1>3, Bounds DEF BoundsInv
    <2>3. QED
      BY <2>1, <2>2 DEF BoundsInv
  <1>6. SyncInv'
    <2> SUFFICES ASSUME ~overlapped' PROVE SyncInv'
      BY DEF SyncInv
    <2>1. ~overlapped /\ Working = {}
      BY <1>2, Zenon
    <2>2. \A v \in Workers \ {w} : job'[v].op = "none" /\ job'[v].pc = "idle"
      BY <1>1, <1>2, <2>1 DEF JobsInv, Working
    <2>3. \A v \in Workers : job'[v].pc \in Early
      BY <1>2, <2>2 DEF Early
    <2>4. \A v \in Workers : Done(v)'
      BY <2>3, EarlyDone
    <2>5. \A u, v \in Workers : job'[u].op # "none" /\ job'[v].op # "none" => u = v
      BY <2>2
    <2>6. QED
      BY <1>3, <2>1, <2>4, <2>5 DEF SyncInv
  <1>7. QED
    BY <1>4, <1>5, <1>6 DEF GatewayInv

\* A saved setting is another one for the next sync; the one under way overlaps.
LEMMA SaveKeeps ==
    ASSUME GatewayInv, NEW w \in Workers, Save(w)
    PROVE  GatewayInv'
  <1>1. setting' \in Settings /\ Begin(w, "save", "load") /\ UNCHANGED account
    BY DEF Save
  <1>2. AccountInv'
    BY <1>1, Zenon DEF account, GatewayInv, AccountInv
  <1>3. lastId' = lastId
    BY <1>1 DEF Begin
  <1>4. RoutesInv' /\ NetworksInv' /\ PoliciesInv'
    BY <1>1, <1>3, SameId, TablesKept DEF account, GatewayInv
  <1>5. ~overlapped => NamesApart'
    BY <1>1 DEF account, GatewayInv, SyncInv, NamesApart
  <1>6. QED
    BY <1>1, <1>2, <1>4, <1>5, BeginKeeps DEF account, Ops

\* A fresh account has none of the objects, and only the token of the last one.
LEMMA ReinstallKeeps ==
    ASSUME GatewayInv, NEW w \in Workers, Reinstall(w)
    PROVE  GatewayInv'
  <1>1. /\ Working = {} /\ Begin(w, "bootstrap", "setup")
        /\ token' = (IF token = "none" THEN "none" ELSE "stale") /\ gateway' = FALSE
        /\ routes' = {} /\ networks' = {} /\ policies' = {} /\ setting' = setting
    BY DEF Reinstall
  <1>2. AccountInv'
    BY <1>1 DEF GatewayInv, AccountInv
  <1>3. RoutesInv' /\ NetworksInv' /\ PoliciesInv' /\ NamesApart'
    BY <1>1 DEF RoutesInv, NetworksInv, PoliciesInv, NamesApart
  <1>4. QED
    BY <1>1, <1>2, <1>3, BeginKeeps DEF Ops

\* A restart ends every sync and begins one.
LEMMA RestartKeeps ==
    ASSUME GatewayInv, Restart
    PROVE  GatewayInv'
  <1> DEFINE r == [Idle EXCEPT !.op = "start", !.pc = "load"]
  <1>1. PICK w \in Workers : job' = [v \in Workers |-> IF v = w THEN r ELSE Idle]
    BY DEF Restart
  <1>2. /\ asked < MaxRequests /\ asked' = asked + 1 /\ settled' = FALSE
        /\ UNCHANGED <<setting, account, overlapped, faults, lastId>>
    BY DEF Restart
  <1>3. /\ Idle \in Jobs /\ Idle.op = "none" /\ Idle.pc = "idle"
        /\ r \in Jobs /\ r.op = "start" /\ r.pc = "load"
    BY DEF Off, Idle, Settings, NoLan, Jobs, Ops, Calls
  <1> HIDE DEF r
  <1>4. /\ job' \in [Workers -> Jobs] /\ job'[w] = r
        /\ \A v \in Workers \ {w} : job'[v] = Idle
    BY <1>1, <1>3
  <1>5. JobsInv'
    BY <1>3, <1>4 DEF JobsInv, WithLan
  <1>6. AccountInv'
    BY <1>2, AccountKept, Zenon DEF account, GatewayInv
  <1>7. RoutesInv' /\ NetworksInv' /\ PoliciesInv'
    BY <1>2, SameId, TablesKept DEF account, GatewayInv
  <1>8. BoundsInv'
    <2>1. settled' \in BOOLEAN /\ overlapped' \in BOOLEAN
      BY <1>2, Zenon DEF GatewayInv, BoundsInv
    <2>2. asked' = asked + 1 /\ asked < MaxRequests /\ faults' = faults /\ lastId' = lastId
      BY <1>2
    <2>3. asked' \in 0 .. MaxRequests /\ faults' \in 0 .. MaxFaults /\ lastId' \in 0 .. MaxIds
      BY <2>2, Bounds DEF GatewayInv, BoundsInv
    <2>4. QED
      BY <2>1, <2>3 DEF BoundsInv
  <1>9. SyncInv'
    <2>1. ~overlapped => NamesApart'
      BY <1>2 DEF account, GatewayInv, SyncInv, NamesApart
    <2>2. \A v \in Workers : job'[v].pc \in Early
      BY <1>3, <1>4 DEF Early
    <2>3. \A v \in Workers : Done(v)'
      BY <2>2, EarlyDone
    <2>4. \A u, v \in Workers : job'[u].op # "none" /\ job'[v].op # "none" => u = v
      BY <1>3, <1>4
    <2>5. overlapped' = overlapped /\ settled' = FALSE
      BY <1>2
    <2>6. QED
      BY <2>1, <2>3, <2>4, <2>5 DEF SyncInv
  <1>10. QED
    BY <1>5, <1>6, <1>7, <1>8, <1>9 DEF GatewayInv

----------------------------------------------------------------------------
(* The invariant.                                                          *)

\* An account of its own, perhaps with a route of an earlier version.
LEMMA Starts == Init => GatewayInv
  <1> SUFFICES ASSUME Init PROVE GatewayInv
    OBVIOUS
  <1>1. /\ setting = Off /\ token \in {"none", "valid"} /\ gateway = (token = "valid")
        /\ routes \subseteq {[id |-> 1, right |-> FALSE]}
        /\ networks = {} /\ policies = {} /\ job = [w \in Workers |-> Idle]
    BY DEF Init
  <1>2. settled = FALSE /\ overlapped = FALSE /\ asked = 0 /\ faults = 0 /\ lastId = 1
    BY DEF Init
  <1>3. Idle \in Jobs /\ Idle.op = "none" /\ Idle.pc = "idle" /\ Off \in Settings
    BY DEF Off, Idle, Settings, NoLan, Jobs, Ops, Calls
  <1>4. JobsInv
    BY <1>1, <1>3 DEF JobsInv, WithLan
  <1>5. AccountInv
    BY <1>1, <1>3, Zenon DEF AccountInv
  <1>6. RoutesInv
    <2>1. 1 \in 1 .. MaxIds
      BY Bounds
    <2>2. [id |-> 1, right |-> FALSE] \in Routes
      BY <2>1, Zenon DEF Routes
    <2>3. QED
      BY <1>1, <2>2, Zenon DEF RoutesInv
  <1>7. NetworksInv /\ PoliciesInv /\ NamesApart
    BY <1>1 DEF NetworksInv, PoliciesInv, NamesApart
  <1>8. BoundsInv
    <2>1. settled \in BOOLEAN /\ overlapped \in BOOLEAN
      BY <1>2, Zenon
    <2>2. asked \in 0 .. MaxRequests /\ faults \in 0 .. MaxFaults /\ lastId \in 0 .. MaxIds
      <3>1. asked = 0 /\ faults = 0 /\ lastId = 1
        BY <1>2
      <3>2. QED
        BY <3>1, Bounds
    <2>3. QED
      BY <2>1, <2>2 DEF BoundsInv
  <1>9. \A w \in Workers : Done(w) /\ job[w].op = "none"
    BY <1>1, <1>3, EarlyDone DEF Early
  <1>10. SyncInv
    BY <1>2, <1>7, <1>9 DEF SyncInv
  <1>11. QED
    BY <1>4, <1>5, <1>6, <1>7, <1>8, <1>10 DEF GatewayInv

\* Nothing happens, but that the module is stopped or started.
LEMMA AsideKeeps ==
    ASSUME GatewayInv, UNCHANGED <<setting, account, job, history, faults, lastId>>,
           asked' \in 0 .. MaxRequests
    PROVE  GatewayInv'
  <1>1. /\ setting' = setting /\ job' = job /\ settled' = settled /\ overlapped' = overlapped
        /\ UNCHANGED account /\ faults' = faults /\ lastId' = lastId
    BY DEF history
  <1>2. AccountInv'
    BY <1>1, AccountKept, Zenon DEF account, GatewayInv
  <1>3. RoutesInv' /\ NetworksInv' /\ PoliciesInv'
    BY <1>1, SameId, TablesKept DEF account, GatewayInv
  <1>4. JobsInv' /\ BoundsInv'
    BY <1>1 DEF account, GatewayInv, JobsInv, BoundsInv
  <1>5. SyncInv'
    <2>1. UNCHANGED <<setting, routes, networks, policies, job>>
      BY <1>1 DEF account
    <2>2. \A w : Done(w) => Done(w)'
      <3>1. OneRoute' = OneRoute
        BY <2>1 DEF OneRoute
      <3>2. \A w : NetworkRight(job[w].want)' = NetworkRight(job[w].want)
        BY <2>1, Zenon DEF NetworkRight, OneNetwork
      <3>3. \A w : RoutesDone(w)' = RoutesDone(w)
        BY <2>1, <3>1, Zenon DEF RoutesDone
      <3>4. \A w : NetworkDone(w)' = NetworkDone(w)
        BY <2>1, <3>2, Zenon DEF NetworkDone
      <3>5. \A w : PoliciesDone(w)' = PoliciesDone(w)
        <4>1. \A k, rules : Set(k, rules)' = Set(k, rules)
          BY <2>1, Zenon DEF Set
        <4>2. \A w : Wanted(w)' = Wanted(w)
          BY <2>1, Zenon DEF Wanted
        <4>3. QED
          BY <2>1, <4>1, <4>2, Zenon DEF PoliciesDone
      <3>6. QED
        BY <2>1, <3>3, <3>4, <3>5, Zenon DEF Done
    <2>3. NamesApart => NamesApart'
      BY <2>1 DEF NamesApart
    <2>4. InLine => InLine'
      BY <2>1, Zenon DEF InLine, Reached, Allowed
    <2>5. SyncInv
      BY DEF GatewayInv
    <2>6. QED
      BY <1>1, <2>2, <2>3, <2>4, <2>5, Zenon DEF SyncInv
  <1>6. QED
    BY <1>2, <1>3, <1>4, <1>5 DEF GatewayInv

\* An admin stops the module, or starts it.
LEMMA SwitchKeeps ==
    ASSUME GatewayInv, Disable \/ Enable
    PROVE  GatewayInv'
  <1>1. asked \in 0 .. MaxRequests /\ MaxRequests \in Nat
    BY GatewayConstants DEF GatewayInv, BoundsInv
  <1>2. /\ UNCHANGED <<setting, account, job, history, faults, lastId>>
        /\ asked' = asked \/ (asked < MaxRequests /\ asked' = asked + 1)
    BY Zenon DEF Disable, Enable
  <1>3. asked' \in 0 .. MaxRequests
    BY <1>1, <1>2
  <1>4. QED
    BY <1>2, <1>3, AsideKeeps

LEMMA StutterKeeps ==
    ASSUME GatewayInv, UNCHANGED vars
    PROVE  GatewayInv'
  <1>1. UNCHANGED <<setting, account, job, history, faults, lastId>> /\ asked' = asked
    BY Zenon DEF vars
  <1>2. asked' \in 0 .. MaxRequests
    BY <1>1 DEF GatewayInv, BoundsInv
  <1>3. QED
    BY <1>1, <1>2, AsideKeeps

\* Whether the module runs is a yes or a no.
RunningInv == running \in BOOLEAN

LEMMA Switched == Spec => []RunningInv
  <1>1. Init => RunningInv
    BY Zenon DEF Init, RunningInv
  <1>2. RunningInv /\ [Next]_vars => RunningInv'
    <2> SUFFICES ASSUME RunningInv, [Next]_vars PROVE RunningInv'
      OBVIOUS
    <2>1. ASSUME NEW w \in Workers, Step(w) \/ Fault(w) \/ Save(w)
          PROVE  running' = running
      BY <2>1, Zenon DEF Step, Fault, Save, Setup, Join, Load, NoPeer, ListRoutes, DeleteRoute,
         CreateRoute, ListNetworks, DeleteNetwork, CreateNetwork, CreateRouter, DeleteResource,
         CreateResource, ListPolicies, SetPolicy, ListLeftovers, DeleteLeftover, Finish,
         Unreachable, Quiet
    <2>2. (Restart \/ UNCHANGED vars) => running' = running
      BY Zenon DEF Restart, vars
    <2>3. ((\E w \in Workers : Reinstall(w)) \/ Enable) => running' = TRUE
      BY Zenon DEF Reinstall, Enable
    <2>4. Disable => running' = FALSE
      BY Zenon DEF Disable
    <2>5. QED
      BY <2>1, <2>2, <2>3, <2>4, Zenon DEF Next, RunningInv
  <1>3. QED
    BY <1>1, <1>2, PTL DEF Spec

\* Every step keeps the invariant.
LEMMA StepKeeps == GatewayInv /\ [Next]_vars => GatewayInv'
  <1> SUFFICES ASSUME GatewayInv, [Next]_vars PROVE GatewayInv'
    OBVIOUS
  <1>1. ASSUME NEW w \in Workers, Step(w) PROVE GatewayInv'
    BY <1>1, StartKeeps, RoutesKeep, ListNetworksKeeps, DeleteNetworkKeeps, CreateNetworkKeeps,
       OwnNetworkKeeps, ListPoliciesKeeps, SetPolicyKeeps, LeftoversKeep, FinishKeeps,
       UnreachableKeeps, Zenon
    DEF Step
  <1>2. QED
    BY <1>1, FaultKeeps, SaveKeeps, ReinstallKeeps, RestartKeeps, SwitchKeeps, StutterKeeps, Zenon
    DEF Next

\* The invariant holds at all times.
LEMMA Invariance == Spec => []GatewayInv
  BY Starts, StepKeeps, PTL DEF Spec

----------------------------------------------------------------------------
(* The theorems.                                                           *)

\* Setting, account and syncs keep their types, whatever overlaps and fails: no two
\* objects share an id, a network leads only to subnets an admin entered, and the
\* gateway is in the account only while its token is.
THEOREM GatewayTypeCorrect == Spec => []TypeOK
  <1>1. GatewayInv /\ RunningInv => TypeOK
    <2> SUFFICES ASSUME GatewayInv, RunningInv PROVE TypeOK
      OBVIOUS
    <2>1. /\ setting \in Settings /\ gateway \in BOOLEAN
          /\ token \in {"none", "stale", "valid"} /\ (gateway => token = "valid")
      BY Zenon DEF GatewayInv, AccountInv
    <2>2. /\ routes \subseteq [id : 1 .. MaxIds, right : BOOLEAN]
          /\ networks \subseteq [id : 1 .. MaxIds, routed : BOOLEAN, lans : SUBSET Lans]
          /\ \A m, n \in networks : m.id = n.id => m = n
          /\ \A p, q \in policies : p.id = q.id => p = q
      BY Zenon DEF GatewayInv, RoutesInv, NetworksInv, PoliciesInv, Routes, Networks
    <2>3. \A p \in policies : /\ p.id \in 1 .. MaxIds /\ p.slot \in 1 .. 3
                              /\ p.rule.protocol \in {"all", "tcp", "udp", "icmp"}
                              /\ p.rule.items \subseteq Items
      BY DEF GatewayInv, PoliciesInv, Policies, Rules
    <2>4. \A w \in Workers :
            /\ job[w].op \in {"none", "save", "start", "bootstrap"}
            /\ job[w].want \in Settings /\ job[w].alone \in BOOLEAN
      BY Zenon DEF GatewayInv, JobsInv, Jobs, Ops
    <2>5. /\ settled \in BOOLEAN /\ overlapped \in BOOLEAN
          /\ asked \in 0 .. MaxRequests /\ faults \in 0 .. MaxFaults /\ lastId \in 0 .. MaxIds
      BY Zenon DEF GatewayInv, BoundsInv
    <2>6. QED
      BY <2>1, <2>2, <2>3, <2>4, <2>5, Zenon DEF TypeOK, RunningInv
  <1>2. QED
    BY Invariance, Switched, <1>1, PTL

\* After a sync that succeeded the devices on the VPN reach the office LAN of the
\* setting, by exactly its ports, and nothing else, and there is exactly one route,
\* whatever failed half-way and wherever the backend restarted before, as long as no
\* two syncs have run at once.
THEOREM OfficeIsFollowed == Spec => []OfficeFollows
  <1>1. GatewayInv => OfficeFollows
    BY DEF GatewayInv, SyncInv, OfficeFollows
  <1>2. QED
    BY Invariance, <1>1, PTL
=============================================================================
