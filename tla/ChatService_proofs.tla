------------------------ MODULE ChatService_proofs ------------------------
(***************************************************************************)
(* Proofs about ChatService, for any employees, tabs, requests and queue   *)
(* size.                                                                   *)
(***************************************************************************)
EXTENDS ChatService, SequenceTheorems, TLAPS

----------------------------------------------------------------------------
(* The inductive invariant, one part per component of the service.         *)

PCs == {"idle", "member", "store", "load", "update", "clear", "insert", "invite", "creator",
        "leave", "remaining", "drop", "route", "push", "upload", "record", "unlink",
        "unrecord"}
Ops == {"none", "send", "attach", "edit", "delete", "add", "remove"}
Jobs == [pc : PCs, op : Ops, user : Users, whom : Users, id : {0} \union Ids,
         to : SUBSET Users]

Serves  == {"off", "accept", "registered", "online", "open", "closing", "leaving",
            "leaving last", "offline"}
Writers == {"off", "wait", "check", "write", "done"}
Socks   == {"up", "silent", "closed"}
Conns   == [serve : Serves, writer : Writers, user : Users, valid : BOOLEAN, sock : Socks,
            queue : Seq(Events)]

Texts == {"sent", "edited", ""}

\* The tables and the storage.
StoreInv ==
    /\ group \in BOOLEAN
    /\ members \in SUBSET Users
    /\ lastId \in Ids
    /\ stored \in SUBSET (1 .. lastId) /\ attached \in SUBSET stored
    /\ deleted \in SUBSET Ids /\ objects \in SUBSET Ids /\ condemned \in SUBSET Ids
    /\ body \in [Ids -> Texts]
    /\ sender \in [Ids -> Users]
    /\ reach \in [Ids -> SUBSET Users]

\* A file that a message shows is in the storage, or the message is being
\* deleted; a group that is gone has taken its members and messages with it;
\* the members have been members since every message there is was stored.
GroupInv ==
    /\ attached \subseteq objects \union condemned
    /\ ~group => members = {} /\ stored = {}
    /\ \A i \in stored : members \subseteq reach[i]

\* An empty group is about to be dropped, or was abandoned as it became empty.
EmptyInv ==
    group /\ members = {} => abandoned \/ \E w \in Workers : job[w].pc \in {"remaining", "drop"}

\* The calls that are about the group, and those that delete a message.
GroupPCs == {"member", "creator", "leave", "insert", "invite", "remaining", "drop"}
DeletePCs == {"unlink", "unrecord", "clear"}

\* What a request has established by its next call.
JobOK(w) ==
    LET i == job[w].id IN
    /\ i <= lastId
    /\ job[w].pc \in GroupPCs => i = 0
    /\ job[w].pc \in {"upload", "record"} => i # 0
    /\ job[w].pc = "record" => i \in objects \union condemned
    /\ job[w].pc \in DeletePCs => i \in condemned
    /\ job[w].pc = "route" /\ i # 0 => i \in stored \/ ~group
    /\ job[w].pc = "push" /\ i # 0 => job[w].to \subseteq reach[i]

JobInv ==
    /\ job \in [Workers -> Jobs]
    /\ \A w \in Workers : JobOK(w)

\* Who may get events about which messages: those who have been members since
\* the message was stored.
Allowed == {p \in (1 .. lastId) \X Users : p[2] \in reach[p[1]]}

\* A connection's queue is within its bound and holds events allowed to its
\* employee; while the session is valid nothing in it is late, and the writer
\* writes nothing that is.
ConnOK(r, allowed) ==
    /\ Len(r.queue) <= QueueSize + 1
    /\ r.writer \in {"check", "write"} => Len(r.queue) >= 1
    /\ r.valid => \A i \in 1 .. Len(r.queue) : ~r.queue[i].late
    /\ r.writer = "write" => ~r.queue[1].late
    /\ \A i \in 1 .. Len(r.queue) :
          r.queue[i].id # 0 => <<r.queue[i].id, r.user>> \in allowed

ConnsOK(f, allowed) ==
    /\ f \in [Tabs -> Conns]
    /\ \A t \in Tabs : ConnOK(f[t], allowed)

\* The connections that answer for what is said about their employee.
Shown(t, u) ==
    /\ tab[t].user = u
    /\ tab[t].serve \in {"registered", "online", "open", "closing", "leaving last", "offline"}

SaidInv ==
    /\ said \in [Users -> {"nothing", "online", "offline"}]
    /\ \A u \in Users : said[u] = "online" => \E t \in Tabs : Shown(t, u)

ChatInv ==
    /\ calls \in 0 .. MaxCalls /\ abandoned \in BOOLEAN
    /\ StoreInv /\ GroupInv /\ EmptyInv /\ JobInv /\ ConnsOK(tab, Allowed) /\ SaidInv

----------------------------------------------------------------------------
(* The helpers.                                                            *)

\* The names of the steps that the actions use.
LEMMA Names ==
    /\ "idle" \in PCs /\ "member" \in PCs /\ "store" \in PCs /\ "load" \in PCs
    /\ "update" \in PCs /\ "clear" \in PCs /\ "insert" \in PCs /\ "invite" \in PCs
    /\ "creator" \in PCs /\ "leave" \in PCs /\ "remaining" \in PCs /\ "drop" \in PCs
    /\ "route" \in PCs /\ "push" \in PCs /\ "upload" \in PCs /\ "record" \in PCs
    /\ "unlink" \in PCs /\ "unrecord" \in PCs
    /\ {"none", "send", "attach", "edit", "delete", "add", "remove"} \subseteq Ops
  BY DEF PCs, Ops

\* The states that connections can be in.
LEMMA ConnNames ==
    /\ "off" \in Serves /\ "accept" \in Serves /\ "registered" \in Serves
    /\ "online" \in Serves /\ "open" \in Serves /\ "closing" \in Serves
    /\ "leaving" \in Serves /\ "leaving last" \in Serves /\ "offline" \in Serves
    /\ "off" \in Writers /\ "wait" \in Writers /\ "check" \in Writers
    /\ "write" \in Writers /\ "done" \in Writers
    /\ "up" \in Socks /\ "silent" \in Socks /\ "closed" \in Socks
  BY DEF Serves, Writers, Socks

\* An event put at the end of a queue leaves the others where they are.
LEMMA Appended ==
    ASSUME NEW q \in Seq(Events), NEW e \in Events
    PROVE  /\ Append(q, e) \in Seq(Events)
           /\ Len(q) \in Nat /\ Len(Append(q, e)) = Len(q) + 1
           /\ \A i \in 1 .. Len(q) : Append(q, e)[i] = q[i]
           /\ Append(q, e)[Len(q) + 1] = e
  BY AppendProperties, LenProperties

\* What a connection's record is made of.
LEMMA ConnSet ==
    ASSUME NEW r \in Conns
    PROVE  /\ r.serve \in Serves /\ r.writer \in Writers /\ r.user \in Users
           /\ r.valid \in BOOLEAN /\ r.sock \in Socks /\ r.queue \in Seq(Events)
           /\ \A s \in Serves : [r EXCEPT !.serve = s] \in Conns
           /\ \A w \in Writers : [r EXCEPT !.writer = w] \in Conns
           /\ \A v \in BOOLEAN : [r EXCEPT !.valid = v] \in Conns
           /\ \A s \in Socks : [r EXCEPT !.sock = s] \in Conns
           /\ \A q \in Seq(Events) : [r EXCEPT !.queue = q] \in Conns
  BY DEF Conns

\* A tab without a connection is in order.
LEMMA OffConn ==
    ASSUME NEW allowed
    PROVE  Off \in Conns /\ ConnOK(Off, allowed)
  <1>1. <<>> \in Seq(Events) /\ Len(<<>>) = 0
    BY EmptySeq
  <1>2. Off \in Conns
    BY <1>1, ConnNames, ChatConstants DEF Off, Conns
  <1>3. ConnOK(Off, allowed)
    BY <1>1, ChatConstants DEF Off, ConnOK
  <1> QED
    BY <1>2, <1>3

\* SendTo, for one connection: the event it adds fits, and is late only if the
\* session had ended before it was added.
LEMMA SentConn ==
    ASSUME NEW allowed, NEW r \in Conns, ConnOK(r, allowed), NEW id \in {0} \union Ids,
           id # 0 => <<id, r.user>> \in allowed,
           Len(r.queue) - (IF r.writer \in {"check", "write"} THEN 1 ELSE 0) < QueueSize
    PROVE  LET s == [r EXCEPT !.queue = Append(@, [id |-> id, late |-> ~r.valid])]
           IN  s \in Conns /\ ConnOK(s, allowed)
  <1> DEFINE e == [id |-> id, late |-> ~r.valid]
             s == [r EXCEPT !.queue = Append(@, e)]
  <1>1. e \in Events
    BY Zenon DEF Events
  <1>2. /\ s.queue = Append(r.queue, e) /\ s.writer = r.writer /\ s.valid = r.valid
        /\ r.queue \in Seq(Events) /\ s.user = r.user
    BY DEF Conns
  <1>3. s \in Conns
    BY <1>1, <1>2, Appended, ConnSet
  <1>4. e.late = ~r.valid /\ e.id = id
    OBVIOUS
  <1> HIDE DEF e, s
  <1>5. Len(s.queue) <= QueueSize + 1
    <2>1. QueueSize \in Nat
      BY ChatConstants
    <2>2. Len(r.queue) \in Nat /\ Len(s.queue) = Len(r.queue) + 1
      BY <1>1, <1>2, Appended
    <2>3. Len(r.queue) - 1 < QueueSize \/ Len(r.queue) - 0 < QueueSize
      BY Zenon
    <2> QED
      BY <2>1, <2>2, <2>3
  <1>6. s.writer \in {"check", "write"} => Len(s.queue) >= 1
    BY <1>1, <1>2, Appended
  <1>7. s.valid => \A i \in 1 .. Len(s.queue) : ~s.queue[i].late
    <2> SUFFICES ASSUME s.valid, NEW i \in 1 .. Len(s.queue) PROVE ~s.queue[i].late
      OBVIOUS
    <2>1. (i \in 1 .. Len(r.queue) /\ s.queue[i] = r.queue[i]) \/ s.queue[i] = e
      BY <1>1, <1>2, Appended
    <2>2. r.valid
      BY <1>2
    <2> QED
      BY <1>4, <2>1, <2>2, Zenon DEF ConnOK
  <1>8. s.writer = "write" => ~s.queue[1].late
    BY <1>1, <1>2, Appended DEF ConnOK
  <1>9. \A i \in 1 .. Len(s.queue) :
          s.queue[i].id # 0 => <<s.queue[i].id, s.user>> \in allowed
    <2> SUFFICES ASSUME NEW i \in 1 .. Len(s.queue), s.queue[i].id # 0
                 PROVE  <<s.queue[i].id, r.user>> \in allowed
      BY <1>2
    <2>1. (i \in 1 .. Len(r.queue) /\ s.queue[i] = r.queue[i]) \/ s.queue[i] = e
      BY <1>1, <1>2, Appended
    <2> QED
      BY <1>4, <2>1, Zenon DEF ConnOK
  <1>10. s \in Conns /\ ConnOK(s, allowed)
    BY <1>3, <1>5, <1>6, <1>7, <1>8, <1>9 DEF ConnOK
  <1> QED
    BY <1>10 DEF s, e

\* SendTo keeps every connection in order.
LEMMA SentConns ==
    ASSUME NEW allowed, ConnsOK(tab, allowed), NEW users, NEW id \in {0} \union Ids,
           \A u \in users : id # 0 => <<id, u>> \in allowed
    PROVE  ConnsOK(Sent(users, id), allowed)
  <1>1. ASSUME NEW t \in Tabs
        PROVE  Sent(users, id)[t] \in Conns /\ ConnOK(Sent(users, id)[t], allowed)
    <2>1. CASE Listening(t, users) /\ Queued(t) < QueueSize
      BY <2>1, SentConn DEF Sent, ConnsOK, Queued, Listening
    <2>2. CASE ~(Listening(t, users) /\ Queued(t) < QueueSize)
      BY <2>2, Zenon DEF Sent, ConnsOK
    <2> QED
      BY <2>1, <2>2
  <1> QED
    BY <1>1 DEF ConnsOK, Sent

\* What a reader or the world outside does to its connection's record.
LEMMA ConnTouched ==
    ASSUME NEW allowed, NEW r \in Conns, ConnOK(r, allowed)
    PROVE  /\ \A s \in Serves : LET c == [r EXCEPT !.serve = s]
                              IN  c \in Conns /\ ConnOK(c, allowed)
           /\ \A s \in Socks : LET c == [r EXCEPT !.sock = s]
                             IN  c \in Conns /\ ConnOK(c, allowed)
           /\ \A s \in Serves :
                 LET c == [r EXCEPT !.serve = s, !.writer = "wait"]
                  IN  c \in Conns /\ ConnOK(c, allowed)
           /\ LET c == [r EXCEPT !.valid = FALSE] IN c \in Conns /\ ConnOK(c, allowed)
  <1>1. ASSUME NEW s \in Serves
        PROVE  LET c == [r EXCEPT !.serve = s] IN c \in Conns /\ ConnOK(c, allowed)
    BY ConnSet DEF Conns, ConnOK
  <1>2. ASSUME NEW s \in Socks
        PROVE  LET c == [r EXCEPT !.sock = s] IN c \in Conns /\ ConnOK(c, allowed)
    BY ConnSet DEF Conns, ConnOK
  <1>3. ASSUME NEW s \in Serves
        PROVE  LET c == [r EXCEPT !.serve = s, !.writer = "wait"]
               IN  c \in Conns /\ ConnOK(c, allowed)
    BY ConnSet, ConnNames DEF Conns, ConnOK
  <1>4. LET c == [r EXCEPT !.valid = FALSE] IN c \in Conns /\ ConnOK(c, allowed)
    <2> DEFINE c == [r EXCEPT !.valid = FALSE]
    <2>1. c \in Conns
      BY ConnSet
    <2>2. c.queue = r.queue /\ c.writer = r.writer /\ c.user = r.user /\ c.valid = FALSE
      BY Zenon DEF Conns
    <2>3. ConnOK(c, allowed)
      BY <2>2 DEF ConnOK
    <2> QED
      BY <2>1, <2>3
  <1> QED
    BY <1>1, <1>2, <1>3, <1>4

\* What a writer does to it: the event it writes was checked, and the queue was
\* in order when it was.
LEMMA ConnWritten ==
    ASSUME NEW allowed, NEW r \in Conns, ConnOK(r, allowed)
    PROVE  /\ r.writer = "wait" /\ r.queue # <<>> =>
                LET c == [r EXCEPT !.writer = "check"] IN c \in Conns /\ ConnOK(c, allowed)
           /\ LET c == [r EXCEPT !.writer = "done"] IN c \in Conns /\ ConnOK(c, allowed)
           /\ r.writer = "check" /\ r.valid =>
                LET c == [r EXCEPT !.writer = "write"] IN c \in Conns /\ ConnOK(c, allowed)
           /\ r.writer = "write" =>
                LET c == [r EXCEPT !.writer = "wait", !.queue = Tail(@)]
                IN  c \in Conns /\ ConnOK(c, allowed)
           /\ LET c == [r EXCEPT !.sock = "closed", !.writer = "done", !.queue = <<>>]
              IN  c \in Conns /\ ConnOK(c, allowed)
  <1>0. r.queue \in Seq(Events) /\ Len(r.queue) \in Nat
    BY ConnSet, LenProperties
  <1>1. ASSUME r.writer = "wait", r.queue # <<>>
        PROVE  LET c == [r EXCEPT !.writer = "check"] IN c \in Conns /\ ConnOK(c, allowed)
    <2>1. Len(r.queue) >= 1
      BY <1>0, <1>1, EmptySeq
    <2> QED
      BY <1>1, <2>1, ConnSet, ConnNames DEF Conns, ConnOK
  <1>2. LET c == [r EXCEPT !.writer = "done"] IN c \in Conns /\ ConnOK(c, allowed)
    BY ConnSet, ConnNames DEF Conns, ConnOK
  <1>3. ASSUME r.writer = "check", r.valid
        PROVE  LET c == [r EXCEPT !.writer = "write"] IN c \in Conns /\ ConnOK(c, allowed)
    <2>1. ~r.queue[1].late
      BY <1>0, <1>3 DEF ConnOK
    <2> QED
      BY <1>3, <2>1, ConnSet, ConnNames DEF Conns, ConnOK
  <1>4. ASSUME r.writer = "write"
        PROVE  LET c == [r EXCEPT !.writer = "wait", !.queue = Tail(@)]
               IN  c \in Conns /\ ConnOK(c, allowed)
    <2> DEFINE c == [r EXCEPT !.writer = "wait", !.queue = Tail(@)]
    <2>1. r.queue # <<>>
      BY <1>0, <1>4, EmptySeq DEF ConnOK
    <2>2. /\ Tail(r.queue) \in Seq(Events) /\ Len(Tail(r.queue)) = Len(r.queue) - 1
          /\ \A i \in 1 .. Len(Tail(r.queue)) : Tail(r.queue)[i] = r.queue[i + 1]
      BY <1>0, <2>1, HeadTailProperties
    <2>3. c \in Conns /\ c.queue = Tail(r.queue) /\ c.writer = "wait"
          /\ c.valid = r.valid /\ c.user = r.user
      BY <2>2, ConnSet, ConnNames DEF Conns
    <2>4. ConnOK(c, allowed)
      <3> HIDE DEF c
      <3>1. QueueSize \in Nat
        BY ChatConstants
      <3>2. Len(c.queue) <= QueueSize + 1
        BY <1>0, <2>2, <2>3, <3>1 DEF ConnOK
      <3>3. ASSUME c.valid, NEW i \in 1 .. Len(c.queue) PROVE ~c.queue[i].late
        <4>1. i + 1 \in 1 .. Len(r.queue) /\ c.queue[i] = r.queue[i + 1]
          BY <1>0, <2>2, <2>3
        <4>2. r.valid
          BY <2>3, <3>3
        <4> QED
          BY <4>1, <4>2, Zenon DEF ConnOK
      <3>4. ASSUME NEW i \in 1 .. Len(c.queue), c.queue[i].id # 0
            PROVE  <<c.queue[i].id, c.user>> \in allowed
        <4>1. i + 1 \in 1 .. Len(r.queue) /\ c.queue[i] = r.queue[i + 1]
          BY <1>0, <2>2, <2>3
        <4> QED
          BY <2>3, <3>4, <4>1, Zenon DEF ConnOK
      <3> QED
        BY <2>3, <3>2, <3>3, <3>4 DEF ConnOK
    <2> QED
      BY <2>3, <2>4
  <1>5. LET c == [r EXCEPT !.sock = "closed", !.writer = "done", !.queue = <<>>]
        IN  c \in Conns /\ ConnOK(c, allowed)
    <2>1. <<>> \in Seq(Events) /\ Len(<<>>) = 0
      BY EmptySeq
    <2>2. QueueSize \in Nat
      BY ChatConstants
    <2> DEFINE c == [r EXCEPT !.sock = "closed", !.writer = "done", !.queue = <<>>]
    <2>3. c \in Conns /\ c.queue = <<>> /\ c.writer = "done"
      BY <2>1, ConnNames DEF Conns
    <2>4. ConnOK(c, allowed)
      <3> HIDE DEF c
      <3> QED
        BY <2>1, <2>2, <2>3 DEF ConnOK
    <2> QED
      BY <2>3, <2>4
  <1> QED
    BY <1>1, <1>2, <1>3, <1>4, <1>5

\* One connection's record replaced by another that is in order.
LEMMA ConnReplaced ==
    ASSUME NEW allowed, NEW f, ConnsOK(f, allowed), NEW t \in Tabs,
           NEW r \in Conns, ConnOK(r, allowed)
    PROVE  ConnsOK([f EXCEPT ![t] = r], allowed)
  BY DEF ConnsOK

----------------------------------------------------------------------------
(* The steps: connections.                                                 *)

\* Every step keeps every connection in order.
LEMMA ConnsStep ==
    ASSUME NEW allowed, ConnsOK(tab, allowed), JobInv, [Next]_vars,
           \A w \in Workers : job[w].pc = "push" /\ job[w].id # 0
                              => \A u \in job[w].to : <<job[w].id, u>> \in allowed
    PROVE  ConnsOK(tab', allowed)
  <1>0. \A t \in Tabs : tab[t] \in Conns /\ ConnOK(tab[t], allowed)
    BY DEF ConnsOK
  <1>1. ASSUME NEW t \in Tabs, Open(t) PROVE ConnsOK(tab', allowed)
    <2>1. PICK u \in Watchers :
            tab' = [tab EXCEPT ![t] = [Off EXCEPT !.serve = "accept", !.user = u,
                                                  !.valid = TRUE, !.sock = "up"]]
      BY <1>1, Zenon DEF Open
    <2> DEFINE c == [Off EXCEPT !.serve = "accept", !.user = u, !.valid = TRUE, !.sock = "up"]
    <2>2. c \in Conns
      BY OffConn, ConnNames, ChatConstants DEF Conns
    <2>3. ConnOK(c, allowed)
      BY EmptySeq, OffConn DEF Off, ConnOK
    <2> QED
      BY <2>1, <2>2, <2>3, ConnReplaced
  <1>2. ASSUME NEW t \in Tabs, ClientLeaves(t) PROVE ConnsOK(tab', allowed)
    <2>1. PICK s \in {"closed", "silent"} : tab' = [tab EXCEPT ![t].sock = s]
      BY <1>2, Zenon DEF ClientLeaves
    <2>2. s \in Socks
      BY ConnNames
    <2> QED
      BY <1>0, <2>1, <2>2, ConnTouched, ConnReplaced
  <1>3. ASSUME NEW t \in Tabs, Register(t) PROVE ConnsOK(tab', allowed)
    BY <1>0, <1>3, ConnTouched, ConnReplaced, ConnNames DEF Register
  <1>4. ASSUME NEW t \in Tabs, IsOnlyConn(t) PROVE ConnsOK(tab', allowed)
    <2>1. \/ tab' = [tab EXCEPT ![t].serve = "online"]
          \/ tab' = [tab EXCEPT ![t].serve = "open", ![t].writer = "wait"]
      BY <1>4, Zenon DEF IsOnlyConn
    <2>2. LET c == [tab[t] EXCEPT !.serve = "online"] IN c \in Conns /\ ConnOK(c, allowed)
      BY <1>0, ConnTouched, ConnNames
    <2>3. LET c == [tab[t] EXCEPT !.serve = "open", !.writer = "wait"]
          IN  c \in Conns /\ ConnOK(c, allowed)
      BY <1>0, ConnTouched, ConnNames
    <2>4. CASE tab' = [tab EXCEPT ![t].serve = "online"]
      BY <2>2, <2>4, ConnReplaced
    <2>5. CASE tab' = [tab EXCEPT ![t].serve = "open", ![t].writer = "wait"]
      BY <2>3, <2>5, ConnReplaced
    <2> QED
      BY <2>1, <2>4, <2>5
  <1>5. ASSUME NEW t \in Tabs, BroadcastOnline(t) PROVE ConnsOK(tab', allowed)
    <2>1. ConnsOK(Broadcast, allowed) /\ Broadcast[t] \in Conns /\ ConnOK(Broadcast[t], allowed)
      BY SentConns DEF Broadcast, ConnsOK
    <2>2. tab' = [Broadcast EXCEPT ![t].serve = "open", ![t].writer = "wait"]
      BY <1>5, Zenon DEF BroadcastOnline
    <2>3. LET c == [Broadcast[t] EXCEPT !.serve = "open", !.writer = "wait"]
          IN  c \in Conns /\ ConnOK(c, allowed)
      BY <2>1, ConnTouched, ConnNames
    <2> QED
      BY <2>1, <2>2, <2>3, ConnReplaced
  <1>6. ASSUME NEW t \in Tabs, ReadFails(t) PROVE ConnsOK(tab', allowed)
    BY <1>0, <1>6, ConnTouched, ConnReplaced, ConnNames DEF ReadFails
  <1>7. ASSUME NEW t \in Tabs, Unregister(t) PROVE ConnsOK(tab', allowed)
    BY <1>0, <1>7, ConnTouched, ConnReplaced, ConnNames DEF Unregister
  <1>8. ASSUME NEW t \in Tabs, AwaitWriter(t) PROVE ConnsOK(tab', allowed)
    BY <1>0, <1>8, ConnTouched, ConnReplaced, ConnNames, OffConn DEF AwaitWriter
  <1>9. ASSUME NEW t \in Tabs, BroadcastOffline(t) PROVE ConnsOK(tab', allowed)
    <2>1. ConnsOK(Broadcast, allowed)
      BY SentConns DEF Broadcast
    <2> QED
      BY <1>9, <2>1, ConnReplaced, OffConn DEF BroadcastOffline
  <1>10. ASSUME NEW t \in Tabs, NextEvent(t) PROVE ConnsOK(tab', allowed)
    <2>1. CASE tab[t].queue # <<>> /\ tab' = [tab EXCEPT ![t].writer = "check"]
      <3>1. tab[t].writer = "wait"
        BY <1>10, Zenon DEF NextEvent
      <3>2. LET c == [tab[t] EXCEPT !.writer = "check"] IN c \in Conns /\ ConnOK(c, allowed)
        BY <1>0, <2>1, <3>1, ConnWritten
      <3> QED
        BY <2>1, <3>2, ConnReplaced
    <2>2. CASE tab' = [tab EXCEPT ![t].writer = "done"]
      <3>1. LET c == [tab[t] EXCEPT !.writer = "done"] IN c \in Conns /\ ConnOK(c, allowed)
        BY <1>0, ConnWritten
      <3> QED
        BY <2>2, <3>1, ConnReplaced
    <2> QED
      BY <1>10, <2>1, <2>2, Zenon DEF NextEvent
  <1>11. ASSUME NEW t \in Tabs, Hangup(t) PROVE ConnsOK(tab', allowed)
    <2> DEFINE c == [tab[t] EXCEPT !.sock = "closed", !.writer = "done", !.queue = <<>>]
    <2>1. c \in Conns /\ ConnOK(c, allowed)
      BY <1>0, ConnWritten
    <2>2. tab' = [tab EXCEPT ![t] = c]
      BY <1>11, Zenon DEF Hangup
    <2> HIDE DEF c
    <2>3. ConnsOK([tab EXCEPT ![t] = c], allowed)
      BY <2>1, ConnReplaced
    <2> QED
      BY <2>2, <2>3
  <1>12. ASSUME NEW t \in Tabs, CheckSession(t) PROVE ConnsOK(tab', allowed)
    <2>1. CASE tab[t].valid /\ tab' = [tab EXCEPT ![t].writer = "write"]
      <3>1. tab[t].writer = "check"
        BY <1>12, Zenon DEF CheckSession
      <3>2. LET c == [tab[t] EXCEPT !.writer = "write"] IN c \in Conns /\ ConnOK(c, allowed)
        BY <1>0, <2>1, <3>1, ConnWritten
      <3> QED
        BY <2>1, <3>2, ConnReplaced
    <2> QED
      BY <1>11, <1>12, <2>1, Zenon DEF CheckSession
  <1>13. ASSUME NEW t \in Tabs, Write(t) PROVE ConnsOK(tab', allowed)
    <2>1. CASE tab' = [tab EXCEPT ![t].writer = "wait", ![t].queue = Tail(@)]
      <3>1. tab[t].writer = "write"
        BY <1>13, Zenon DEF Write
      <3>2. LET c == [tab[t] EXCEPT !.writer = "wait", !.queue = Tail(@)]
            IN  c \in Conns /\ ConnOK(c, allowed)
        BY <1>0, <3>1, ConnWritten
      <3> QED
        BY <2>1, <3>2, ConnReplaced
    <2> QED
      BY <1>11, <1>13, <2>1, Zenon DEF Write
  <1>14. ASSUME NEW t \in Tabs, Ping(t) PROVE ConnsOK(tab', allowed)
    BY <1>11, <1>14, Zenon DEF Ping
  <1>15. ASSUME NEW u \in Users, EndSession(u) PROVE ConnsOK(tab', allowed)
    <2>1. tab' = [t \in Tabs |-> IF tab[t].user = u THEN [tab[t] EXCEPT !.valid = FALSE]
                                 ELSE tab[t]]
      BY <1>15, Zenon DEF EndSession
    <2> QED
      BY <1>0, <2>1, ConnTouched DEF ConnsOK
  <1>16. ASSUME NEW w \in Workers, Invite(w) PROVE ConnsOK(tab', allowed)
    BY <1>16, SentConns, Zenon DEF Invite
  <1>17. ASSUME NEW w \in Workers, Push(w) PROVE ConnsOK(tab', allowed)
    <2>1. job[w].id \in {0} \union Ids
      BY DEF JobInv, Jobs
    <2>2. job[w].pc = "push" /\ tab' = Sent(job[w].to, job[w].id)
      BY <1>17, Zenon DEF Push
    <2> QED
      BY <2>1, <2>2, SentConns
  <1>18. ASSUME UNCHANGED tab PROVE ConnsOK(tab', allowed)
    BY <1>18
  <1>19. ASSUME NEW w \in Workers, Request(w) \/ Step(w) PROVE ConnsOK(tab', allowed)
    <2>1. Invite(w) \/ Push(w) \/ UNCHANGED tab
      BY <1>19, Zenon DEF Request, Step, CheckMember, StoreMessage, Upload, RecordFile,
         LoadMessage, UpdateText, UnlinkFile, UnrecordFile, ClearText, AddMember, CheckCreator,
         RemoveMember, CountRemaining, DropGroup, RouteEvent, Abandon
    <2> QED
      BY <1>16, <1>17, <1>18, <2>1
  <1>20. ASSUME UNCHANGED vars PROVE ConnsOK(tab', allowed)
    BY <1>18, <1>20 DEF vars
  <1> QED
    BY <1>1, <1>2, <1>3, <1>4, <1>5, <1>6, <1>7, <1>8, <1>9, <1>10, <1>12, <1>13, <1>14,
       <1>15, <1>19, <1>20, Zenon DEF Next, Reader, Writer

----------------------------------------------------------------------------
(* The steps: requests.                                                    *)

\* Connections and requests meet at the queues only.
LEMMA Apart ==
    ASSUME [Next]_vars
    PROVE  (\E w \in Workers : Request(w) \/ Step(w))
             \/ UNCHANGED <<group, members, stored, body, deleted, sender, lastId, reach,
                            abandoned, attached, objects, condemned, job>>
  <1> USE DEF groupVars, fileVars
  <1>1. ASSUME NEW t \in Tabs, Open(t) \/ ClientLeaves(t) \/ Reader(t) \/ Writer(t)
        PROVE  UNCHANGED <<groupVars, job>>
    BY <1>1, Zenon DEF Open, ClientLeaves, Reader, Register, IsOnlyConn, BroadcastOnline,
       ReadFails, Unregister, AwaitWriter, BroadcastOffline, Writer, NextEvent,
       CheckSession, Write, Ping
  <1>2. ASSUME NEW u \in Users, EndSession(u) PROVE UNCHANGED <<groupVars, job>>
    BY <1>2, Zenon DEF EndSession
  <1>3. ASSUME UNCHANGED vars PROVE UNCHANGED <<groupVars, job>>
    BY <1>3, Zenon DEF vars
  <1> QED
    BY <1>1, <1>2, <1>3, Zenon DEF Next

\* What a request is made of.
LEMMA JobSet ==
    ASSUME JobInv, NEW w \in Workers
    PROVE  /\ job[w].pc \in PCs /\ job[w].op \in Ops /\ job[w].user \in Users
           /\ job[w].whom \in Users /\ job[w].id \in {0} \union Ids
           /\ job[w].to \in SUBSET Users
           /\ Idle \in Jobs
  BY Names, ChatConstants DEF JobInv, Jobs, Idle

\* The bounds are numbers.
LEMMA Bounds == QueueSize \in Nat \ {0} /\ MaxMessages \in Nat \ {0} /\ MaxCalls \in Nat
  BY ChatConstants

\* The bound on what is counted is kept.
LEMMA CallsStep == calls \in 0 .. MaxCalls /\ [Next]_vars => calls' \in 0 .. MaxCalls
  <1>1. ASSUME [Next]_vars PROVE calls' = calls \/ (calls < MaxCalls /\ calls' = calls + 1)
    <2>1. ASSUME NEW w \in Workers, Request(w) \/ Step(w)
          PROVE  calls' = calls \/ (calls < MaxCalls /\ calls' = calls + 1)
      BY <2>1, Zenon DEF Request, Step, CheckMember, StoreMessage, Upload, RecordFile,
         LoadMessage, UpdateText, UnlinkFile, UnrecordFile, ClearText, AddMember, Invite,
         CheckCreator, RemoveMember, CountRemaining, DropGroup, RouteEvent, Push, Abandon
    <2>2. ASSUME NEW t \in Tabs, Open(t) \/ ClientLeaves(t) \/ Reader(t) \/ Writer(t)
          PROVE  calls' = calls \/ (calls < MaxCalls /\ calls' = calls + 1)
      BY <2>2, Zenon DEF Open, ClientLeaves, Reader, Register, IsOnlyConn, BroadcastOnline,
         ReadFails, Unregister, AwaitWriter, BroadcastOffline, Writer, NextEvent,
         CheckSession, Write, Ping
    <2>3. ASSUME NEW u \in Users, EndSession(u)
          PROVE  calls' = calls \/ (calls < MaxCalls /\ calls' = calls + 1)
      BY <2>3, Zenon DEF EndSession
    <2>4. ASSUME UNCHANGED vars PROVE calls' = calls
      BY <2>4, Zenon DEF vars
    <2> QED
      BY <1>1, <2>1, <2>2, <2>3, <2>4, Zenon DEF Next
  <1> QED
    BY <1>1, Bounds

\* Every request keeps the tables in their types.
LEMMA StoreStep ==
    ASSUME StoreInv, JobInv, NEW w \in Workers, Request(w) \/ Step(w)
    PROVE  StoreInv'
  <1> USE Bounds DEF StoreInv, groupVars, fileVars, Ids
  <1>0. /\ job[w].user \in Users /\ job[w].whom \in Users /\ job[w].id \in {0} \union Ids
        /\ job[w].pc \in {"upload", "record"} => job[w].id # 0
    BY JobSet DEF JobInv, JobOK
  <1>1. CASE Request(w)
    <2>1. UNCHANGED <<group, members, stored, body, deleted, sender, lastId, reach,
                      attached, objects, condemned>>
      BY <1>1, Zenon DEF Request
    <2> QED
      BY <2>1
  <1>2. CASE StoreMessage(w)
    <2>1. /\ UNCHANGED <<group, members, deleted, attached, objects, condemned>>
          /\ lastId' = lastId + 1 /\ lastId < MaxMessages
          /\ \/ UNCHANGED <<stored, body, sender, reach>>
             \/ /\ stored' = stored \union {lastId + 1}
                /\ \E x \in Texts : body' = [body EXCEPT ![lastId + 1] = x]
                /\ sender' = [sender EXCEPT ![lastId + 1] = job[w].user]
                /\ reach' = [reach EXCEPT ![lastId + 1] = members]
      BY <1>2, Zenon DEF StoreMessage, Texts
    <2>2. lastId' \in Ids /\ 1 .. lastId \subseteq 1 .. lastId' /\ lastId + 1 \in 1 .. lastId'
      BY <2>1
    <2>3. stored' \subseteq 1 .. lastId' /\ stored \subseteq stored'
      BY <2>1, <2>2
    <2>4. body' \in [Ids -> Texts]
      BY <2>1
    <2>5. sender' \in [Ids -> Users]
      BY <1>0, <2>1
    <2>6. reach' \in [Ids -> SUBSET Users]
      BY <2>1
    <2> QED
      BY <2>1, <2>2, <2>3, <2>4, <2>5, <2>6
  <1>3. CASE Upload(w)
    BY <1>0, <1>3 DEF Upload
  <1>4. CASE RecordFile(w)
    BY <1>0, <1>4 DEF RecordFile
  <1>5. CASE LoadMessage(w)
    BY <1>0, <1>5 DEF LoadMessage
  <1>6. CASE UnlinkFile(w)
    BY <1>6 DEF UnlinkFile
  <1>7. CASE UnrecordFile(w)
    BY <1>7 DEF UnrecordFile
  <1>8. CASE UpdateText(w)
    <2>1. /\ body' = body \/ \E x \in Texts : body' = [body EXCEPT ![job[w].id] = x]
          /\ UNCHANGED <<group, members, stored, deleted, sender, lastId, reach, attached,
                         objects, condemned>>
      BY <1>8, Zenon DEF UpdateText, Texts
    <2> QED
      BY <2>1
  <1>9. CASE ClearText(w)
    <2>1. /\ deleted' \in {deleted, deleted \union {job[w].id}}
          /\ job[w].id \in stored \/ UNCHANGED deleted
          /\ body' = body \/ \E x \in Texts : body' = [body EXCEPT ![job[w].id] = x]
          /\ UNCHANGED <<group, members, stored, sender, lastId, reach, attached, objects,
                         condemned>>
      BY <1>9, Zenon DEF ClearText, Texts
    <2>2. deleted' \in SUBSET Ids
      BY <2>1
    <2>3. body' \in [Ids -> Texts]
      BY <2>1
    <2> QED
      BY <2>1, <2>2, <2>3
  <1>10. CASE AddMember(w)
    BY <1>0, <1>10 DEF AddMember
  <1>11. CASE RemoveMember(w)
    BY <1>11 DEF RemoveMember
  <1>12. CASE DropGroup(w)
    BY <1>12 DEF DropGroup
  <1>13. CASE CheckMember(w) \/ Invite(w) \/ CheckCreator(w) \/ CountRemaining(w)
                \/ RouteEvent(w) \/ Push(w) \/ Abandon(w)
    <2>1. UNCHANGED <<group, members, stored, body, deleted, sender, lastId, reach,
                      attached, objects, condemned>>
      BY <1>13, Zenon DEF CheckMember, Invite, CheckCreator, CountRemaining, RouteEvent, Push,
         Abandon
    <2> QED
      BY <2>1
  <1> QED
    BY <1>1, <1>2, <1>3, <1>4, <1>5, <1>6, <1>7, <1>8, <1>9, <1>10, <1>11, <1>12, <1>13
       DEF Step

\* What other requests rely on only grows, until the group is gone.
Grows ==
    /\ lastId <= lastId'
    /\ condemned \subseteq condemned'
    /\ objects \union condemned \subseteq objects' \union condemned'
    /\ ~group => ~group'
    /\ stored \subseteq stored' \/ ~group'
    /\ \A i \in 1 .. lastId : reach[i] \subseteq reach'[i]

\* Every request lets it grow.
LEMMA GrowStep ==
    ASSUME StoreInv, JobInv, NEW w \in Workers, Request(w) \/ Step(w)
    PROVE  Grows
  <1>0. /\ lastId \in Nat /\ stored \subseteq 1 .. lastId
        /\ lastId + 1 <= MaxMessages => reach \in [Ids -> SUBSET Users] /\ lastId + 1 \in Ids
    BY Bounds DEF StoreInv, Ids
  <1>1. CASE UNCHANGED <<group, stored, lastId, reach, objects, condemned>>
    BY <1>0, <1>1 DEF Grows
  <1>2. CASE StoreMessage(w)
    <2>1. /\ UNCHANGED <<group, objects, condemned>>
          /\ lastId' = lastId + 1 /\ lastId < MaxMessages
          /\ stored \subseteq stored'
          /\ reach' = reach \/ reach' = [reach EXCEPT ![lastId + 1] = members]
      BY <1>2, Zenon DEF StoreMessage, fileVars
    <2>2. \A i \in 1 .. lastId : reach[i] \subseteq reach'[i]
      <3> SUFFICES ASSUME NEW i \in 1 .. lastId PROVE reach[i] \subseteq reach'[i]
        OBVIOUS
      <3>1. i # lastId + 1
        BY <1>0
      <3>2. i \in Ids /\ DOMAIN reach = Ids
        BY Bounds DEF StoreInv, Ids
      <3> QED
        BY <1>0, <2>1, <3>1, <3>2, Bounds
    <2> QED
      BY <1>0, <2>1, <2>2 DEF Grows
  <1>3. CASE Upload(w)
    <2>1. /\ UNCHANGED <<group, stored, lastId, reach, condemned>>
          /\ objects \subseteq objects'
      BY <1>3, Zenon DEF Upload
    <2> QED
      BY <1>0, <2>1 DEF Grows
  <1>4. CASE LoadMessage(w)
    <2>1. /\ UNCHANGED <<group, stored, lastId, reach, objects>>
          /\ condemned \subseteq condemned'
      BY <1>4, Zenon DEF LoadMessage
    <2> QED
      BY <1>0, <2>1 DEF Grows
  <1>5. CASE UnlinkFile(w)
    <2>1. /\ UNCHANGED <<group, stored, lastId, reach, condemned>>
          /\ objects \ {job[w].id} \subseteq objects' /\ job[w].pc = "unlink"
      BY <1>5, Zenon DEF UnlinkFile
    <2>2. job[w].id \in condemned
      BY <2>1 DEF JobInv, JobOK, DeletePCs
    <2> QED
      BY <1>0, <2>1, <2>2 DEF Grows
  <1>6. CASE AddMember(w)
    <2>1. /\ UNCHANGED <<group, stored, lastId, objects, condemned>>
          /\ \A i \in Ids : reach[i] \subseteq reach'[i]
      BY <1>6, Zenon DEF AddMember, fileVars
    <2>2. 1 .. lastId \subseteq Ids
      BY Bounds DEF Ids, StoreInv
    <2> QED
      BY <1>0, <2>1, <2>2 DEF Grows
  <1>7. CASE DropGroup(w)
    <2>1. ~group' /\ UNCHANGED <<lastId, reach, objects, condemned>>
      BY <1>7, Zenon DEF DropGroup
    <2> QED
      BY <1>0, <2>1 DEF Grows
  <1>8. CASE Request(w) \/ RecordFile(w) \/ UnrecordFile(w) \/ UpdateText(w) \/ ClearText(w)
               \/ RemoveMember(w) \/ CheckMember(w) \/ Invite(w) \/ CheckCreator(w)
               \/ CountRemaining(w) \/ RouteEvent(w) \/ Push(w) \/ Abandon(w)
    <2>1. UNCHANGED <<group, stored, lastId, reach, objects, condemned>>
      BY <1>8, Zenon DEF Request, RecordFile, UnrecordFile, UpdateText, ClearText,
         RemoveMember, CheckMember, Invite, CheckCreator, CountRemaining, RouteEvent, Push,
         Abandon, groupVars, fileVars
    <2> QED
      BY <1>1, <2>1
  <1> QED
    BY <1>2, <1>3, <1>4, <1>5, <1>6, <1>7, <1>8 DEF Step

\* Every request keeps the group whole.
LEMMA GroupStep ==
    ASSUME StoreInv, GroupInv, JobInv, NEW w \in Workers, Request(w) \/ Step(w)
    PROVE  GroupInv'
  <1> USE Bounds DEF StoreInv, GroupInv, groupVars, fileVars, Ids
  <1>0. /\ job[w].whom \in Users
        /\ job[w].pc = "record" => job[w].id \in objects \union condemned
        /\ job[w].pc \in DeletePCs => job[w].id \in condemned
    BY JobSet DEF JobInv, JobOK
  <1>1. CASE Request(w)
    BY <1>1 DEF Request
  <1>2. CASE StoreMessage(w)
    BY <1>2 DEF StoreMessage
  <1>3. CASE Upload(w)
    BY <1>3 DEF Upload
  <1>4. CASE RecordFile(w)
    BY <1>0, <1>4 DEF RecordFile
  <1>5. CASE LoadMessage(w)
    BY <1>5 DEF LoadMessage
  <1>6. CASE UnlinkFile(w)
    BY <1>0, <1>6 DEF UnlinkFile, DeletePCs
  <1>7. CASE UnrecordFile(w)
    BY <1>7 DEF UnrecordFile
  <1>8. CASE AddMember(w)
    BY <1>0, <1>8 DEF AddMember
  <1>9. CASE RemoveMember(w)
    BY <1>9 DEF RemoveMember
  <1>10. CASE DropGroup(w)
    BY <1>10 DEF DropGroup
  <1>11. CASE UpdateText(w) \/ ClearText(w) \/ CheckMember(w) \/ Invite(w) \/ CheckCreator(w)
                \/ CountRemaining(w) \/ RouteEvent(w) \/ Push(w) \/ Abandon(w)
    <2>1. UNCHANGED <<group, members, stored, reach, attached, objects, condemned>>
      BY <1>11, Zenon DEF UpdateText, ClearText, CheckMember, Invite, CheckCreator,
         CountRemaining, RouteEvent, Push, Abandon
    <2> QED
      BY <2>1
  <1> QED
    BY <1>1, <1>2, <1>3, <1>4, <1>5, <1>6, <1>7, <1>8, <1>9, <1>10, <1>11 DEF Step

\* What a step has to establish for the request it leaves behind as r.
Grounded(r) ==
    /\ r.id <= lastId'
    /\ r.pc \in GroupPCs => r.id = 0
    /\ r.pc \in {"upload", "record"} => r.id # 0
    /\ r.pc = "record" => r.id \in objects' \union condemned'
    /\ r.pc \in DeletePCs => r.id \in condemned'
    /\ r.pc = "route" /\ r.id # 0 => r.id \in stored' \/ ~group'
    /\ r.pc = "push" /\ r.id # 0 => r.to \subseteq reach'[r.id]

\* The other requests keep what they have established.
LEMMA OthersKept ==
    ASSUME StoreInv, StoreInv', JobInv, Grows, NEW w \in Workers, NEW r \in Jobs, Grounded(r),
           job' = [job EXCEPT ![w] = r]
    PROVE  JobInv'
  <1>1. job' \in [Workers -> Jobs]
    BY DEF JobInv
  <1>2. JobOK(w)'
    <2>1. job'[w] = r
      BY DEF JobInv
    <2> QED
      BY <2>1 DEF JobOK, Grounded
  <1>3. ASSUME NEW x \in Workers, x # w PROVE JobOK(x)'
    <2>1. job'[x] = job[x] /\ JobOK(x)
      BY <1>3 DEF JobInv
    <2>2. job[x].id \in {0} \union Ids /\ lastId \in Nat /\ lastId' \in Nat
      BY JobSet, Bounds DEF StoreInv, Ids
    <2>3. job[x].id # 0 => job[x].id \in 1 .. lastId
      BY <2>1, <2>2, Bounds DEF JobOK, Ids
    <2>4. job[x].id # 0 => reach[job[x].id] \subseteq reach'[job[x].id]
      BY <2>3 DEF Grows
    <2> QED
      BY <2>1, <2>2, <2>3, <2>4 DEF JobOK, Grows
  <1> QED
    BY <1>1, <1>2, <1>3 DEF JobInv

\* A request that moves on without having to establish anything, or ends.
LEMMA JobMoves ==
    ASSUME JobInv, StoreInv', NEW w \in Workers
    PROVE  /\ Idle \in Jobs /\ Grounded(Idle)
           /\ \A p \in PCs : [job[w] EXCEPT !.pc = p] \in Jobs
           /\ \A p \in PCs : LET r == [job[w] EXCEPT !.pc = p]
                             IN  r.pc = p /\ r.id = job[w].id /\ r.to = job[w].to
  <1>1. lastId' \in Nat
    BY Bounds DEF StoreInv, Ids
  <1>2. Idle \in Jobs /\ Idle.id = 0 /\ Idle.pc = "idle"
    BY JobSet, Zenon DEF Idle
  <1>3. Grounded(Idle)
    BY <1>1, <1>2 DEF Grounded, GroupPCs, DeletePCs
  <1>4. job[w] \in Jobs
    BY DEF JobInv
  <1> QED
    BY <1>2, <1>3, <1>4 DEF Jobs

\* A request that moves on with what the next call needs.
LEMMA Moved ==
    ASSUME StoreInv, StoreInv', JobInv, Grows, NEW w \in Workers, NEW p \in PCs, Goto(w, p),
           p \in GroupPCs => job[w].id = 0,
           p \in {"upload", "record"} => job[w].id # 0,
           p = "record" => job[w].id \in objects' \union condemned',
           p \in DeletePCs => job[w].id \in condemned',
           p = "route" /\ job[w].id # 0 => job[w].id \in stored' \/ ~group',
           p = "push" => job[w].id = 0
    PROVE  JobInv'
  <1> DEFINE r == [job[w] EXCEPT !.pc = p]
  <1>1. r \in Jobs /\ r.pc = p /\ r.id = job[w].id
    BY JobMoves
  <1>2. job' = [job EXCEPT ![w] = r]
    BY DEF Goto
  <1>3. r.id <= lastId'
    <2>1. lastId \in Nat /\ lastId' \in Nat /\ lastId <= lastId' /\ job[w].id \in {0} \union Ids
      BY Bounds, JobSet DEF StoreInv, Ids, Grows
    <2>2. job[w].id <= lastId
      BY DEF JobInv, JobOK
    <2> QED
      BY <1>1, <2>1, <2>2, Bounds DEF Ids
  <1> HIDE DEF r
  <1>4. Grounded(r)
    BY <1>1, <1>3 DEF Grounded
  <1> QED
    BY <1>1, <1>2, <1>4, OthersKept

\* Every request keeps what requests have established.
LEMMA JobStep ==
    ASSUME StoreInv, StoreInv', GroupInv, JobInv, Grows, NEW w \in Workers,
           Request(w) \/ Step(w)
    PROVE  JobInv'
  <1>0. /\ lastId \in Nat /\ lastId' \in Nat /\ lastId <= lastId'
        /\ job[w].id \in Nat /\ job[w].id \in {0} \union Ids /\ job[w].id <= lastId
        /\ job[w] \in Jobs /\ JobOK(w)
    BY Bounds, JobSet DEF StoreInv, Ids, Grows, JobInv, JobOK
  <1>1. ASSUME Done(w) PROVE JobInv'
    BY <1>1, JobMoves, OthersKept DEF Done
  <1>4. CASE Request(w)
    <2>1. PICK r \in Jobs : /\ job' = [job EXCEPT ![w] = r]
                            /\ \/ r.pc = "member" /\ r.id = 0
                               \/ r.pc = "load" /\ r.id \in stored
      <3>1. ASSUME NEW u \in Users, NEW o \in {"send", "attach"}
            PROVE  LET r == [Idle EXCEPT !.pc = "member", !.op = o, !.user = u]
                   IN  r \in Jobs /\ r.pc = "member" /\ r.id = 0
        BY Names, ChatConstants DEF Idle, Jobs
      <3>3. ASSUME NEW u \in Users, NEW o \in {"add", "remove"}, NEW v \in Users
            PROVE  LET r == [Idle EXCEPT !.pc = "member", !.op = o, !.user = u, !.whom = v]
                   IN  r \in Jobs /\ r.pc = "member" /\ r.id = 0
        BY Names, ChatConstants DEF Idle, Jobs
      <3>5. PICK u \in Users :
              \/ \E o \in {"send", "attach"} :
                   job' = [job EXCEPT ![w] = [Idle EXCEPT !.pc = "member", !.op = o, !.user = u]]
              \/ \E o \in {"edit", "delete"}, i \in stored :
                   job' = [job EXCEPT ![w] = [Idle EXCEPT !.pc = "load", !.op = o, !.user = u,
                                                          !.id = i]]
              \/ \E o \in {"add", "remove"}, v \in Users :
                   job' = [job EXCEPT ![w] = [Idle EXCEPT !.pc = "member", !.op = o,
                                                          !.user = u, !.whom = v]]
        BY <1>4, Zenon DEF Request
      <3>6. CASE \E o \in {"send", "attach"} :
                   job' = [job EXCEPT ![w] = [Idle EXCEPT !.pc = "member", !.op = o, !.user = u]]
        BY <3>1, <3>6
      <3>7. CASE \E o \in {"edit", "delete"}, i \in stored :
                   job' = [job EXCEPT ![w] = [Idle EXCEPT !.pc = "load", !.op = o, !.user = u,
                                                          !.id = i]]
        <4>1. PICK o \in {"edit", "delete"}, i \in stored :
                   job' = [job EXCEPT ![w] = [Idle EXCEPT !.pc = "load", !.op = o, !.user = u,
                                                          !.id = i]]
          BY <3>7
        <4> DEFINE r == [Idle EXCEPT !.pc = "load", !.op = o, !.user = u, !.id = i]
        <4>2. r \in Jobs /\ r.pc = "load" /\ r.id = i
          <5>1. i \in Ids
            BY Bounds DEF StoreInv, Ids
          <5> QED
            BY <5>1, Names, ChatConstants DEF Idle, Jobs
        <4> HIDE DEF r
        <4> QED
          BY <4>1, <4>2 DEF r
      <3>8. CASE \E o \in {"add", "remove"}, v \in Users :
                   job' = [job EXCEPT ![w] = [Idle EXCEPT !.pc = "member", !.op = o,
                                                          !.user = u, !.whom = v]]
        <4>1. PICK o \in {"add", "remove"}, v \in Users :
                   job' = [job EXCEPT ![w] = [Idle EXCEPT !.pc = "member", !.op = o,
                                                          !.user = u, !.whom = v]]
          BY <3>8
        <4> QED
          BY <3>3, <4>1
      <3> QED
        BY <3>5, <3>6, <3>7, <3>8
    <2>2. r.id \in Nat /\ r.id <= lastId
      <3>1. stored \subseteq 1 .. lastId
        BY DEF StoreInv
      <3>2. r.id = 0 \/ r.id \in 1 .. lastId
        BY <2>1, <3>1, Zenon
      <3> QED
        BY <1>0, <3>2
    <2>3. Grounded(r)
      BY <1>0, <2>1, <2>2 DEF Grounded, GroupPCs, DeletePCs
    <2> QED
      BY <2>1, <2>3, OthersKept
  <1>5. CASE CheckMember(w)
    <2>1. \/ Done(w)
          \/ job[w].pc = "member" /\ \E p \in {"store", "insert", "leave", "creator"} : Goto(w, p)
      BY <1>5, Zenon DEF CheckMember
    <2> QED
      BY <1>0, <1>1, <2>1, Moved, Names DEF GroupPCs, DeletePCs, JobOK
  <1>6. CASE StoreMessage(w)
    <2>1. \/ Done(w)
          \/ \E p \in {"route", "upload"} :
                /\ job' = [job EXCEPT ![w].id = lastId + 1, ![w].pc = p]
                /\ lastId < MaxMessages /\ lastId' = lastId + 1 /\ lastId + 1 \in stored'
      BY <1>6, Zenon DEF StoreMessage
    <2>2. CASE Done(w)
      BY <1>1, <2>2
    <2>3. ASSUME NEW p \in {"route", "upload"},
                 job' = [job EXCEPT ![w].id = lastId + 1, ![w].pc = p],
                 lastId < MaxMessages, lastId' = lastId + 1, lastId + 1 \in stored'
          PROVE  JobInv'
      <3> DEFINE r == [job[w] EXCEPT !.id = lastId + 1, !.pc = p]
      <3>1. r \in Jobs /\ r.pc = p /\ r.id = lastId + 1
        <4>1. lastId + 1 \in Ids /\ p \in PCs
          BY <1>0, <2>3, Names, Bounds DEF Ids
        <4> QED
          BY <1>0, <4>1 DEF Jobs
      <3>2. Grounded(r)
        BY <1>0, <2>3, <3>1 DEF Grounded, GroupPCs, DeletePCs
      <3> QED
        BY <2>3, <3>1, <3>2, OthersKept
    <2> QED
      BY <2>1, <2>2, <2>3
  <1>7. CASE Upload(w)
    <2>1. \/ Done(w)
          \/ job[w].pc = "upload" /\ Goto(w, "record") /\ objects' = objects \union {job[w].id}
      BY <1>7, Zenon DEF Upload
    <2>2. job[w].pc = "upload" => job[w].id # 0
      BY <1>0 DEF JobOK
    <2> QED
      BY <1>1, <2>1, <2>2, Moved, Names DEF GroupPCs, DeletePCs
  <1>8. CASE RecordFile(w) \/ UpdateText(w) \/ ClearText(w)
    <2>1. Done(w) \/ (job[w].id \in stored' /\ Goto(w, "route"))
      <3>1. Done(w) \/ (job[w].id \in stored /\ Goto(w, "route"))
        BY <1>8, Zenon DEF RecordFile, UpdateText, ClearText
      <3>2. UNCHANGED stored
        BY <1>8, Zenon DEF RecordFile, UpdateText, ClearText
      <3> QED
        BY <3>1, <3>2
    <2> QED
      BY <1>1, <2>1, Moved, Names DEF GroupPCs, DeletePCs
  <1>9. CASE LoadMessage(w)
    <2>1. \/ Done(w)
          \/ Goto(w, "update")
          \/ job[w].id \in condemned' /\ Goto(w, "unlink")
          \/ job[w].id \in condemned' /\ Goto(w, "clear")
      <3>1. CASE Done(w)
        BY <3>1
      <3>2. CASE /\ Goto(w, CASE job[w].op = "edit" -> "update"
                              [] job[w].op = "delete" /\ job[w].id \in attached -> "unlink"
                              [] OTHER -> "clear")
                 /\ job[w].op # "edit" => job[w].id \in condemned'
        <4> DEFINE next == CASE job[w].op = "edit" -> "update"
                              [] job[w].op = "delete" /\ job[w].id \in attached -> "unlink"
                              [] OTHER -> "clear"
        <4>1. \/ next = "update"
              \/ job[w].op # "edit" /\ (next = "unlink" \/ next = "clear")
          BY Zenon
        <4>2. Goto(w, next)
          BY <3>2
        <4> HIDE DEF next
        <4> QED
          BY <3>2, <4>1, <4>2, Zenon
      <3> QED
        BY <1>9, <3>1, <3>2, Zenon DEF LoadMessage
    <2> QED
      BY <1>1, <2>1, Moved, Names DEF GroupPCs, DeletePCs
  <1>10. CASE UnlinkFile(w) \/ UnrecordFile(w)
    <2>1. \/ Done(w)
          \/ job[w].pc \in DeletePCs /\ (Goto(w, "unrecord") \/ Goto(w, "clear"))
      <3>1. CASE UnlinkFile(w)
        BY <3>1, Zenon DEF UnlinkFile, DeletePCs
      <3>2. CASE UnrecordFile(w)
        BY <3>2, Zenon DEF UnrecordFile, DeletePCs
      <3> QED
        BY <1>10, <3>1, <3>2
    <2>2. job[w].pc \in DeletePCs => job[w].id \in condemned'
      BY <1>0 DEF JobOK, Grows
    <2> QED
      BY <1>1, <2>1, <2>2, Moved, Names DEF GroupPCs, DeletePCs
  <1>13. CASE AddMember(w) \/ Invite(w) \/ CheckCreator(w) \/ RemoveMember(w) \/ DropGroup(w)
    <2>1. \/ Done(w)
          \/ /\ job[w].pc \in GroupPCs
             /\ \E p \in {"invite", "route", "leave", "remaining", "push"} : Goto(w, p)
      BY <1>13, Zenon DEF AddMember, Invite, CheckCreator, RemoveMember, DropGroup, GroupPCs
    <2>2. job[w].pc \in GroupPCs => job[w].id = 0
      BY <1>0 DEF JobOK
    <2> QED
      BY <1>1, <2>1, <2>2, Moved, Names DEF DeletePCs
  <1>14. CASE CountRemaining(w)
    <2>1. /\ job[w].pc = "remaining"
          /\ \E p \in {"drop", "push"} :
                job' = [job EXCEPT ![w].to = members \union {job[w].whom}, ![w].pc = p]
      BY <1>14, Zenon DEF CountRemaining
    <2>2. PICK p \in {"drop", "push"} :
                job' = [job EXCEPT ![w].to = members \union {job[w].whom}, ![w].pc = p]
      BY <2>1
    <2> DEFINE r == [job[w] EXCEPT !.to = members \union {job[w].whom}, !.pc = p]
    <2>3. r \in Jobs /\ r.pc = p /\ r.id = job[w].id
      BY <1>0, Names DEF Jobs, StoreInv
    <2>4. r.id = 0
      BY <1>0, <2>1, <2>3 DEF JobOK, GroupPCs
    <2>5. Grounded(r)
      BY <1>0, <2>3, <2>4 DEF Grounded, DeletePCs
    <2> QED
      BY <2>2, <2>3, <2>5, OthersKept
  <1>15. CASE RouteEvent(w)
    <2>1. /\ job[w].pc = "route" /\ UNCHANGED reach
          /\ job' = [job EXCEPT ![w].to = members, ![w].pc = "push"]
      BY <1>15, Zenon DEF RouteEvent, groupVars
    <2> DEFINE r == [job[w] EXCEPT !.to = members, !.pc = "push"]
    <2>2. r \in Jobs /\ r.pc = "push" /\ r.id = job[w].id /\ r.to = members
      BY <1>0, Names DEF Jobs, StoreInv
    <2>3. r.id # 0 => members \subseteq reach'[r.id]
      BY <1>0, <2>1, <2>2 DEF JobOK, GroupInv
    <2> HIDE DEF r
    <2>4. Grounded(r)
      BY <1>0, <2>2, <2>3 DEF Grounded, GroupPCs, DeletePCs
    <2> QED
      BY <2>1, <2>2, <2>4, OthersKept DEF r
  <1>16. CASE Push(w) \/ Abandon(w)
    BY <1>1, <1>16, Zenon DEF Push, Abandon
  <1> QED
    BY <1>4, <1>5, <1>6, <1>7, <1>8, <1>9, <1>10, <1>13, <1>14, <1>15, <1>16
       DEF Step

\* A step replaces the request it belongs to and no other.
LEMMA OneJob ==
    ASSUME JobInv, NEW w \in Workers, Request(w) \/ Step(w), NEW x \in Workers, x # w
    PROVE  job'[x] = job[x]
  <1>1. job \in [Workers -> Jobs]
    BY DEF JobInv
  <1>2. ASSUME NEW r, job' = [job EXCEPT ![w] = r] PROVE job'[x] = job[x]
    BY <1>1, <1>2
  <1>3. CASE Done(w) \/ \E p : Goto(w, p)
    BY <1>1, <1>3 DEF Done, Goto
  <1>4. CASE Request(w)
    BY <1>2, <1>4, Zenon DEF Request
  <1>5. CASE StoreMessage(w)
    <2>1. \/ Done(w)
          \/ job' = [job EXCEPT ![w].id = lastId + 1,
                                ![w].pc = IF job[w].op = "send" THEN "route" ELSE "upload"]
      BY <1>5 DEF StoreMessage
    <2>2. ASSUME NEW i, NEW p, job' = [job EXCEPT ![w].id = i, ![w].pc = p]
          PROVE  job'[x] = job[x]
      BY <1>1, <2>2
    <2> QED
      BY <1>3, <2>1, <2>2
  <1>7. CASE CountRemaining(w) \/ RouteEvent(w)
    <2>1. PICK s, p : job' = [job EXCEPT ![w].to = s, ![w].pc = p]
      BY <1>7, Zenon DEF CountRemaining, RouteEvent
    <2> QED
      BY <1>1, <2>1
  <1>6. CASE CheckMember(w) \/ Upload(w) \/ RecordFile(w) \/ LoadMessage(w) \/ UpdateText(w)
               \/ UnlinkFile(w) \/ UnrecordFile(w) \/ ClearText(w) \/ AddMember(w) \/ Invite(w)
               \/ CheckCreator(w) \/ RemoveMember(w) \/ DropGroup(w) \/ Push(w) \/ Abandon(w)
    <2>1. Done(w) \/ \E p : Goto(w, p)
      BY <1>6, Zenon DEF CheckMember, Upload, RecordFile, LoadMessage, UpdateText, UnlinkFile,
         UnrecordFile, ClearText, AddMember, Invite, CheckCreator, RemoveMember, DropGroup, Push,
         Abandon
    <2> QED
      BY <1>3, <2>1
  <1> QED
    BY <1>4, <1>5, <1>6, <1>7, Zenon DEF Step

\* Only an abandoned request marks a group as such, and only an empty one.
LEMMA AbandonedStep ==
    ASSUME abandoned \in BOOLEAN, NEW w \in Workers, Request(w) \/ Step(w)
    PROVE  /\ abandoned' \in BOOLEAN
           /\ abandoned => abandoned' \/ AddMember(w)
  <1>1. CASE Abandon(w)
    BY <1>1 DEF Abandon
  <1>2. CASE AddMember(w)
    BY <1>2 DEF AddMember
  <1>3. CASE ~Abandon(w) /\ ~AddMember(w)
    <2>1. abandoned' = abandoned
      BY <1>3, Zenon DEF Request, Step, CheckMember, StoreMessage, Upload, RecordFile,
         LoadMessage, UpdateText, UnlinkFile, UnrecordFile, ClearText, Invite, CheckCreator,
         RemoveMember, CountRemaining, DropGroup, RouteEvent, Push, groupVars
    <2> QED
      BY <2>1
  <1> QED
    BY <1>1, <1>2, <1>3

\* The request that leaves the group empty is on its way to drop it, and drops
\* it unless somebody has come back, or it is abandoned.
LEMMA EmptyStep ==
    ASSUME JobInv, EmptyInv, abandoned \in BOOLEAN, NEW w \in Workers, Request(w) \/ Step(w)
    PROVE  EmptyInv'
  <1> SUFFICES ASSUME group', members' = {}, ~abandoned'
               PROVE  \E x \in Workers : job'[x].pc \in {"remaining", "drop"}
    BY DEF EmptyInv
  <1>0. job \in [Workers -> Jobs] /\ job[w] \in Jobs
    BY DEF JobInv
  <1>1. ASSUME group, members = {}, ~AddMember(w), job[w].pc \notin {"remaining", "drop"}
        PROVE  \E x \in Workers : job'[x].pc \in {"remaining", "drop"}
    <2>1. ~abandoned
      BY <1>1, AbandonedStep
    <2> QED
      BY <1>1, <2>1, OneJob DEF EmptyInv
  <1>2. CASE RemoveMember(w)
    <2>1. CASE Goto(w, "remaining")
      BY <1>0, <2>1 DEF Goto, Jobs
    <2>2. CASE job[w].whom \notin members
      <3>1. members = members' /\ (group <=> group') /\ job[w].pc = "leave"
        <4>1. members' = members \ {job[w].whom} /\ job[w].pc = "leave" /\ group' = group
          BY <1>2, Zenon DEF RemoveMember
        <4> QED
          BY <2>2, <4>1
      <3>2. ~AddMember(w)
        BY <3>1 DEF AddMember
      <3> QED
        BY <1>1, <3>1, <3>2
    <2> QED
      BY <1>2, <2>1, <2>2, Zenon DEF RemoveMember
  <1>3. CASE CountRemaining(w)
    <2>1. members' = members /\ job[w].pc = "remaining"
          /\ job' = [job EXCEPT ![w].to = members \union {job[w].whom},
                                ![w].pc = IF members = {} THEN "drop" ELSE "push"]
      BY <1>3, Zenon DEF CountRemaining, groupVars
    <2>2. job'[w].pc = "drop"
      BY <1>0, <2>1 DEF Jobs
    <2> QED
      BY <2>2
  <1>4. CASE DropGroup(w)
    BY <1>4, Zenon DEF DropGroup
  <1>5. CASE AddMember(w)
    <2>1. ~group /\ group' = group
      BY <1>5, Zenon DEF AddMember
    <2> QED
      BY <2>1
  <1>6. CASE Request(w) \/ CheckMember(w) \/ StoreMessage(w) \/ Upload(w) \/ RecordFile(w)
               \/ LoadMessage(w) \/ UpdateText(w) \/ UnlinkFile(w) \/ UnrecordFile(w)
               \/ ClearText(w) \/ Invite(w) \/ CheckCreator(w) \/ RouteEvent(w) \/ Push(w)
    <2>1. /\ members' = members /\ group' = group
          /\ job[w].pc # "remaining" /\ job[w].pc # "drop"
      BY <1>6, Zenon DEF Request, CheckMember, StoreMessage, Upload, RecordFile, LoadMessage,
         UpdateText, UnlinkFile, UnrecordFile, ClearText, Invite, CheckCreator, RouteEvent,
         Push, groupVars
    <2>2. ~AddMember(w)
      BY <1>6, Zenon DEF Request, CheckMember, StoreMessage, Upload, RecordFile, LoadMessage,
         UpdateText, UnlinkFile, UnrecordFile, ClearText, Invite, CheckCreator, RouteEvent,
         Push, AddMember
    <2> QED
      BY <1>1, <2>1, <2>2
  <1>7. CASE Abandon(w)
    <2>1. /\ members' = members /\ group' = group /\ job[w].pc \notin {"remaining", "drop"}
      BY <1>7 DEF Abandon
    <2>2. CASE AddMember(w)
      BY <1>5, <2>2
    <2> QED
      BY <1>1, <2>1, <2>2
  <1> QED
    BY <1>2, <1>3, <1>4, <1>5, <1>6, <1>7, Zenon DEF Step

\* What is said about somebody is answered for by one of their connections.
LEMMA SaidStep ==
    ASSUME SaidInv, NEW allowed, ConnsOK(tab, allowed), [Next]_vars
    PROVE  SaidInv'
  <1>0. /\ tab \in [Tabs -> Conns]
        /\ said \in [Users -> {"nothing", "online", "offline"}]
    BY DEF SaidInv, ConnsOK
  <1>1. ASSUME UNCHANGED said, \A t \in Tabs, u \in Users : Shown(t, u) => Shown(t, u)'
        PROVE  SaidInv'
    BY <1>1 DEF SaidInv
  <1>2. ASSUME NEW f, NEW users, NEW id, f = Sent(users, id)
        PROVE  /\ f \in [Tabs -> {f[t] : t \in Tabs}]
               /\ \A t \in Tabs : f[t].user = tab[t].user /\ f[t].serve = tab[t].serve
    BY <1>0, <1>2 DEF Sent, Conns
  <1>3. ASSUME NEW w \in Workers, Request(w) \/ Step(w) PROVE SaidInv'
    <2>1. UNCHANGED said /\ (UNCHANGED tab \/ \E users, id : tab' = Sent(users, id))
      <3>1. CASE Invite(w)
        BY <3>1, Zenon DEF Invite
      <3>2. CASE Push(w)
        BY <3>2, Zenon DEF Push
      <3>3. CASE ~Invite(w) /\ ~Push(w)
        BY <1>3, <3>3, Zenon DEF Request, Step, CheckMember, StoreMessage, Upload, RecordFile,
           LoadMessage, UpdateText, UnlinkFile, UnrecordFile, ClearText, AddMember,
           CheckCreator, RemoveMember, CountRemaining, DropGroup, RouteEvent, Abandon
      <3> QED
        BY <3>1, <3>2, <3>3
    <2>2. CASE UNCHANGED tab
      BY <1>1, <2>1, <2>2 DEF Shown
    <2>3. CASE \E users, id : tab' = Sent(users, id)
      <3>1. PICK users, id : tab' = Sent(users, id)
        BY <2>3
      <3>2. \A t \in Tabs : tab'[t].user = tab[t].user /\ tab'[t].serve = tab[t].serve
        BY <1>2, <3>1
      <3> QED
        BY <1>1, <2>1, <3>2 DEF Shown
    <2> QED
      BY <2>1, <2>2, <2>3
  <1>4. ASSUME NEW u \in Users, EndSession(u) PROVE SaidInv'
    <2>1. /\ UNCHANGED said
          /\ tab' = [t \in Tabs |-> IF tab[t].user = u THEN [tab[t] EXCEPT !.valid = FALSE]
                                    ELSE tab[t]]
      BY <1>4, Zenon DEF EndSession
    <2>2. \A t \in Tabs : tab'[t].user = tab[t].user /\ tab'[t].serve = tab[t].serve
      BY <1>0, <2>1 DEF Conns
    <2> QED
      BY <1>1, <2>1, <2>2 DEF Shown
  <1>5. ASSUME NEW t \in Tabs, Writer(t) \/ ClientLeaves(t) PROVE SaidInv'
    <2>1. UNCHANGED said
      BY <1>5, Zenon DEF Writer, NextEvent, CheckSession, Write, Ping, ClientLeaves
    <2>2. \/ Hangup(t)
          \/ \E s : tab' = [tab EXCEPT ![t].writer = s]
          \/ \E s : tab' = [tab EXCEPT ![t].sock = s]
          \/ tab' = [tab EXCEPT ![t].writer = "wait", ![t].queue = Tail(@)]
      BY <1>5, Zenon DEF Writer, NextEvent, CheckSession, Write, Ping, ClientLeaves
    <2>3. \A x \in Tabs : tab'[x].user = tab[x].user /\ tab'[x].serve = tab[x].serve
      <3>1. CASE Hangup(t)
        BY <1>0, <3>1 DEF Conns, Hangup
      <3>2. CASE \E s : tab' = [tab EXCEPT ![t].writer = s]
        BY <1>0, <3>2 DEF Conns
      <3>3. CASE \E s : tab' = [tab EXCEPT ![t].sock = s]
        BY <1>0, <3>3 DEF Conns
      <3>4. CASE tab' = [tab EXCEPT ![t].writer = "wait", ![t].queue = Tail(@)]
        BY <1>0, <3>4 DEF Conns
      <3> QED
        BY <2>2, <3>1, <3>2, <3>3, <3>4
    <2> QED
      BY <1>1, <2>1, <2>3 DEF Shown
  <1>6. ASSUME NEW t \in Tabs, Open(t) PROVE SaidInv'
    <2>1. /\ UNCHANGED said /\ tab[t].serve = "off"
          /\ \E c : tab' = [tab EXCEPT ![t] = c]
      BY <1>6, Zenon DEF Open
    <2> QED
      BY <1>0, <1>1, <2>1 DEF Shown
  <1>7. ASSUME NEW t \in Tabs, Register(t) \/ IsOnlyConn(t) \/ ReadFails(t) PROVE SaidInv'
    <2>1. /\ UNCHANGED said
          /\ \E s \in {"registered", "online", "open", "closing"} :
                \/ tab' = [tab EXCEPT ![t].serve = s]
                \/ tab' = [tab EXCEPT ![t].serve = s, ![t].writer = "wait"]
      BY <1>7, Zenon DEF Register, IsOnlyConn, ReadFails
    <2>2. /\ tab'[t].user = tab[t].user
          /\ tab'[t].serve \in {"registered", "online", "open", "closing"}
          /\ \A x \in Tabs \ {t} : tab'[x] = tab[x]
      BY <1>0, <2>1 DEF Conns
    <2> QED
      BY <1>1, <2>1, <2>2 DEF Shown
  <1>8. ASSUME NEW t \in Tabs, BroadcastOnline(t) PROVE SaidInv'
    <2>1. /\ said' = [said EXCEPT ![tab[t].user] = "online"]
          /\ tab' = [Broadcast EXCEPT ![t].serve = "open", ![t].writer = "wait"]
          /\ tab[t].serve = "online"
      BY <1>8, Zenon DEF BroadcastOnline
    <2>2. /\ \A x \in Tabs : tab'[x].user = tab[x].user
          /\ \A x \in Tabs \ {t} : tab'[x].serve = tab[x].serve
          /\ tab'[t].serve = "open"
      <3>1. \A x \in Tabs : Broadcast[x] \in Conns /\ Broadcast[x].user = tab[x].user
                            /\ Broadcast[x].serve = tab[x].serve
        BY <1>0, <1>2, SentConns DEF Broadcast, ConnsOK
      <3>2. DOMAIN Broadcast = Tabs
        BY DEF Broadcast, Sent
      <3>3. /\ \A x \in Tabs \ {t} : tab'[x] = Broadcast[x]
            /\ tab'[t] = [Broadcast[t] EXCEPT !.serve = "open", !.writer = "wait"]
        BY <2>1, <3>2
      <3>4. tab'[t].user = Broadcast[t].user /\ tab'[t].serve = "open"
        BY <3>1, <3>3 DEF Conns
      <3> QED
        BY <3>1, <3>3, <3>4
    <2>3. \A x \in Tabs, u \in Users : Shown(x, u) => Shown(x, u)'
      BY <2>1, <2>2 DEF Shown
    <2>4. Shown(t, tab[t].user)'
      BY <2>2 DEF Shown
    <2>5. tab[t].user \in Users
      BY <1>0 DEF Conns
    <2>6. said' \in [Users -> {"nothing", "online", "offline"}]
      BY <1>0, <2>1
    <2>7. ASSUME NEW u \in Users, said'[u] = "online" PROVE \E x \in Tabs : Shown(x, u)'
      <3>1. u = tab[t].user \/ said[u] = "online"
        BY <1>0, <2>1, <2>7
      <3>2. CASE u = tab[t].user
        BY <2>2, <3>2 DEF Shown
      <3>3. CASE said[u] = "online"
        BY <2>3, <3>3 DEF SaidInv
      <3> QED
        BY <3>1, <3>2, <3>3
    <2> QED
      BY <2>6, <2>7 DEF SaidInv
  <1>9. ASSUME NEW t \in Tabs, Unregister(t) PROVE SaidInv'
    <2>1. /\ UNCHANGED said /\ tab[t].serve = "closing"
          /\ tab' = [tab EXCEPT ![t].serve = IF Others(t) = {} THEN "leaving last" ELSE "leaving"]
      BY <1>9, Zenon DEF Unregister
    <2>2. /\ tab'[t].user = tab[t].user
          /\ tab'[t].serve = IF Others(t) = {} THEN "leaving last" ELSE "leaving"
          /\ \A x \in Tabs \ {t} : tab'[x] = tab[x]
      BY <1>0, <2>1 DEF Conns
    <2>3. CASE Others(t) = {}
      BY <1>1, <2>1, <2>2, <2>3 DEF Shown
    <2>4. CASE Others(t) # {}
      <3>1. PICK o \in Tabs \ {t} : Registered(o) /\ tab[o].user = tab[t].user
        BY <2>4 DEF Others
      <3>2. Shown(o, tab[t].user)'
        BY <2>2, <3>1 DEF Shown, Registered
      <3>3. \A x \in Tabs \ {t}, u \in Users : Shown(x, u) => Shown(x, u)'
        BY <2>2 DEF Shown
      <3>4. \A u \in Users : Shown(t, u) => u = tab[t].user
        BY DEF Shown
      <3>5. ASSUME NEW u \in Users, said[u] = "online" PROVE \E x \in Tabs : Shown(x, u)'
        <4>1. PICK x \in Tabs : Shown(x, u)
          BY <3>5 DEF SaidInv
        <4>2. CASE x = t
          BY <2>2, <3>2, <3>4, <4>1, <4>2 DEF Shown
        <4>3. CASE x # t
          BY <3>3, <4>1, <4>3
        <4> QED
          BY <4>2, <4>3
      <3> QED
        BY <2>1, <3>5 DEF SaidInv
    <2> QED
      BY <2>3, <2>4
  <1>10. ASSUME NEW t \in Tabs, AwaitWriter(t) PROVE SaidInv'
    <2>1. /\ UNCHANGED said
          /\ \/ tab[t].serve = "leaving" /\ tab' = [tab EXCEPT ![t] = Off]
             \/ tab' = [tab EXCEPT ![t].serve = "offline"]
      BY <1>10, Zenon DEF AwaitWriter
    <2>2. /\ \A x \in Tabs \ {t} : tab'[x] = tab[x]
          /\ \/ tab[t].serve = "leaving"
             \/ tab'[t].user = tab[t].user /\ tab'[t].serve = "offline"
      BY <1>0, <2>1 DEF Conns
    <2> QED
      BY <1>1, <2>1, <2>2 DEF Shown
  <1>11. ASSUME NEW t \in Tabs, BroadcastOffline(t) PROVE SaidInv'
    <2>1. /\ said' = [said EXCEPT ![tab[t].user] = "offline"]
          /\ tab' = [Broadcast EXCEPT ![t] = Off]
      BY <1>11, Zenon DEF BroadcastOffline
    <2>2. \A x \in Tabs \ {t} : tab'[x].user = tab[x].user /\ tab'[x].serve = tab[x].serve
      BY <1>0, <2>1 DEF Broadcast, Sent, Conns
    <2>3. \A x \in Tabs \ {t}, u \in Users : Shown(x, u) => Shown(x, u)'
      BY <2>2 DEF Shown
    <2>4. \A u \in Users : Shown(t, u) => u = tab[t].user
      BY DEF Shown
    <2> QED
      BY <1>0, <2>1, <2>3, <2>4 DEF SaidInv
  <1>12. ASSUME UNCHANGED vars PROVE SaidInv'
    BY <1>1, <1>12 DEF vars, Shown
  <1> QED
    BY <1>3, <1>4, <1>5, <1>6, <1>7, <1>8, <1>9, <1>10, <1>11, <1>12 DEF Next, Reader

----------------------------------------------------------------------------
(* The theorems.                                                           *)

\* The inductive invariant holds in every reachable state.
LEMMA ChatInvariant == Spec => []ChatInv
  <1>1. Init => ChatInv
    <2> SUFFICES ASSUME Init PROVE ChatInv
      OBVIOUS
    <2>1. 1 \in Ids /\ Creator \in Users
      BY Bounds, ChatConstants DEF Ids
    <2>2. body \in [Ids -> Texts]
      BY Zenon DEF Init, Texts
    <2>3. /\ members = Users /\ stored = {1} /\ lastId = 1 /\ deleted = {} /\ condemned = {}
          /\ attached = {1} /\ objects = {1}
          /\ sender = [i \in Ids |-> Creator]
          /\ reach = [i \in Ids |-> IF i = 1 THEN Users ELSE {}]
          /\ job = [w \in Workers |-> Idle]
          /\ tab = [t \in Tabs |-> Off]
          /\ said = [u \in Users |-> "nothing"]
      BY Zenon DEF Init
    <2>4. group = TRUE
      BY Zenon DEF Init
    <2>5. StoreInv
      BY <2>1, <2>2, <2>3, <2>4, Bounds DEF StoreInv
    <2>6. GroupInv
      BY <2>1, <2>3, <2>4 DEF GroupInv
    <2>7. EmptyInv
      BY <2>1, <2>3 DEF EmptyInv
    <2>8. JobInv
      <3>1. Idle \in Jobs /\ Idle.id = 0 /\ Idle.pc = "idle"
        BY <2>1, Names DEF Idle, Jobs
      <3> QED
        BY <2>3, <3>1 DEF JobInv, JobOK, GroupPCs, DeletePCs
    <2>9. ConnsOK(tab, Allowed)
      BY <2>3, OffConn DEF ConnsOK
    <2>10. SaidInv
      BY <2>3 DEF SaidInv
    <2>11. calls \in 0 .. MaxCalls
      <3>1. calls = 0
        BY Zenon DEF Init
      <3> QED
        BY <3>1, Bounds
    <2>12. abandoned \in BOOLEAN
      BY Zenon DEF Init
    <2> QED
      BY <2>5, <2>6, <2>7, <2>8, <2>9, <2>10, <2>11, <2>12, Zenon
      DEF ChatInv
  <1>2. ChatInv /\ [Next]_vars => ChatInv'
    <2> SUFFICES ASSUME ChatInv, [Next]_vars PROVE ChatInv'
      OBVIOUS
    <2> USE DEF ChatInv
    <2>0. calls' \in 0 .. MaxCalls
      BY CallsStep
    <2>1. SaidInv'
      BY SaidStep
    <2>2. ConnsOK(tab', Allowed)
      <3>1. ASSUME NEW w \in Workers, job[w].pc = "push", job[w].id # 0, NEW u \in job[w].to
            PROVE  <<job[w].id, u>> \in Allowed
        <4>1. /\ job[w].id \in {0} \union Ids /\ job[w].id <= lastId
              /\ u \in Users /\ u \in reach[job[w].id]
          BY <3>1, JobSet DEF JobInv, JobOK
        <4>2. job[w].id \in 1 .. lastId
          BY <3>1, <4>1, Bounds DEF Ids, StoreInv
        <4> QED
          BY <4>1, <4>2 DEF Allowed
      <3> QED
        BY <3>1, ConnsStep
    <2>3. CASE UNCHANGED <<group, members, stored, body, deleted, sender, lastId, reach,
                            abandoned, attached, objects, condemned, job>>
      <3>1. StoreInv' /\ GroupInv' /\ EmptyInv'
        BY <2>3 DEF StoreInv, GroupInv, EmptyInv
      <3>2. JobInv'
        BY <2>3 DEF JobInv, JobOK
      <3>3. Allowed' = Allowed
        BY <2>3 DEF Allowed
      <3>4. ConnsOK(tab', Allowed')
        BY <2>2, <3>3
      <3>5. abandoned' \in BOOLEAN
        BY <2>3, Zenon
      <3> QED
        BY <2>0, <2>1, <3>1, <3>2, <3>4, <3>5, Zenon DEF ConnsOK
    <2>4. CASE \E w \in Workers : Request(w) \/ Step(w)
      <3>1. PICK w \in Workers : Request(w) \/ Step(w)
        BY <2>4
      <3>2. StoreInv' /\ Grows
        BY <3>1, StoreStep, GrowStep
      <3>3. GroupInv' /\ EmptyInv' /\ JobInv' /\ abandoned' \in BOOLEAN
        BY <3>1, <3>2, GroupStep, EmptyStep, JobStep, AbandonedStep
      <3>4. Allowed \subseteq Allowed'
        <4>1. lastId \in Nat /\ lastId' \in Nat
          BY <3>2, Bounds DEF StoreInv, Ids
        <4> QED
          BY <3>2, <4>1 DEF Allowed, Grows
      <3>5. ConnsOK(tab', Allowed')
        BY <2>2, <3>4 DEF ConnsOK, ConnOK
      <3> QED
        BY <2>0, <2>1, <3>2, <3>3, <3>5 DEF ConnsOK
    <2> QED
      BY <2>3, <2>4, Apart
  <1> QED
    BY <1>1, <1>2, PTL DEF Spec

\* Every variable has its type in every reachable state: the sets of ids stay
\* within the ids given out, a file's row never outlives its message, and no
\* queue holds more than its bound.
THEOREM ChatTypeCorrect == Spec => []TypeOK
  <1>1. ChatInv => TypeOK
    <2> SUFFICES ASSUME ChatInv PROVE TypeOK
      OBVIOUS
    <2>1. StoreInv /\ JobInv /\ ConnsOK(tab, Allowed) /\ SaidInv /\ calls \in 0 .. MaxCalls
      BY DEF ChatInv
    <2>0. abandoned \in BOOLEAN
      BY Zenon DEF ChatInv
    <2>2. \A w \in Workers : job[w] \in Jobs
      BY <2>1 DEF JobInv
    <2>3. ASSUME NEW t \in Tabs
          PROVE  /\ tab[t].serve \in Serves /\ tab[t].writer \in Writers
                 /\ tab[t].user \in Users /\ tab[t].valid \in BOOLEAN
                 /\ tab[t].sock \in Socks
                 /\ Len(tab[t].queue) <= QueueSize + 1
                 /\ \A i \in DOMAIN tab[t].queue : tab[t].queue[i] \in Events
      <3>1. tab[t] \in Conns /\ ConnOK(tab[t], Allowed)
        BY <2>1 DEF ConnsOK
      <3>2. \A i \in DOMAIN tab[t].queue : tab[t].queue[i] \in Events
        BY <3>1, ConnSet, ElementOfSeq, LenProperties
      <3> QED
        BY <3>1, <3>2, ConnSet DEF ConnOK
    <2> QED
      BY <2>0, <2>1, <2>2, <2>3, Zenon
         DEF TypeOK, StoreInv, SaidInv, Jobs, PCs, Ops, Serves, Writers, Socks, Texts
  <1> QED
    BY <1>1, ChatInvariant, PTL

\* No connection shows what was said after its session ended: stillValid per
\* event is enough, because a session that is valid when the writer asks was
\* valid when the event was queued.
THEOREM NothingShownAfterSession == Spec => []NothingAfterSessionEnds
  <1>1. ChatInv => NothingAfterSessionEnds
    <2> SUFFICES ASSUME ChatInv, NEW t \in Tabs, tab[t].writer = "write"
                 PROVE  ~Head(tab[t].queue).late
      BY DEF NothingAfterSessionEnds
    <2>1. ~tab[t].queue[1].late
      BY DEF ChatInv, ConnsOK, ConnOK
    <2>2. Head(tab[t].queue) = tab[t].queue[1]
      <3>1. tab[t].queue \in Seq(Events) /\ Len(tab[t].queue) >= 1
        BY ConnSet DEF ChatInv, ConnsOK, ConnOK
      <3> QED
        BY <3>1
    <2> QED
      BY <2>1, <2>2
  <1> QED
    BY <1>1, ChatInvariant, PTL

\* In whatever order the tabs of an employee come and go, the last thing said
\* about one who has none left is not that they are online.
THEOREM GoneAreShownGone == Spec => []GoneIsShownGone
  <1>1. ChatInv => GoneIsShownGone
    BY DEF ChatInv, SaidInv, Shown, GoneIsShownGone
  <1> QED
    BY <1>1, ChatInvariant, PTL

\* Members that come and go between groupMembers and SendTo never make a
\* message reach somebody who has not been a member since it was stored.
THEOREM EventsReachMembers == Spec => []PushesReachMembers
  <1>1. ChatInv => PushesReachMembers
    <2> SUFFICES ASSUME ChatInv, NEW t \in Tabs, NEW i \in DOMAIN tab[t].queue,
                        tab[t].queue[i].id # 0
                 PROVE  tab[t].user \in reach[tab[t].queue[i].id]
      BY DEF PushesReachMembers
    <2>1. i \in 1 .. Len(tab[t].queue)
      BY ConnSet, LenProperties DEF ChatInv, ConnsOK
    <2>2. <<tab[t].queue[i].id, tab[t].user>> \in Allowed
      BY <2>1 DEF ChatInv, ConnsOK, ConnOK
    <2> QED
      BY <2>2 DEF Allowed
  <1> QED
    BY <1>1, ChatInvariant, PTL

\* An empty group never outlives the requests that emptied it, unless one of
\* them was abandoned as it did, and the file of a message that is not being
\* deleted can be downloaded by whom it is shown.
THEOREM GroupsAreWhole == Spec => []GroupIsWhole
  <1>1. ChatInv => GroupIsWhole
    <2> SUFFICES ASSUME ChatInv PROVE GroupIsWhole
      OBVIOUS
    <2>1. (\A w \in Workers : job[w].pc = "idle") /\ group => members # {} \/ abandoned
      BY DEF ChatInv, EmptyInv
    <2>2. ASSUME NEW u \in Users, NEW i \in ShownWithFile(u) \ condemned PROVE Downloads(u, i)
      BY DEF ChatInv, GroupInv, ShownWithFile, History, Downloads
    <2> QED
      BY <2>1, <2>2 DEF GroupIsWhole
  <1> QED
    BY <1>1, ChatInvariant, PTL

----------------------------------------------------------------------------
(* Deleted messages, of employees who make one request at a time.          *)

OneEach ==
    \A v, w \in Workers :
        job[v].pc # "idle" /\ job[w].pc # "idle" /\ job[v].user = job[w].user => v = w

\* The calls that change a message or its file, each with what it relies on: the
\* message is of whoever asks, not deleted where something is put into it, and
\* without a file where it is about to be deleted.
ChangePCs == {"upload", "record", "update"} \union DeletePCs
Changing(w) ==
    LET i == job[w].id IN
    /\ job[w].pc = "load" => job[w].op \in {"edit", "delete"}
    /\ job[w].pc \in ChangePCs => i \in 1 .. lastId /\ sender[i] = job[w].user
    /\ job[w].pc \in {"upload", "record", "update"} => i \notin deleted
    /\ job[w].pc = "clear" => i \notin attached

TextInv ==
    /\ deleted \subseteq 1 .. lastId
    /\ DeletedStaysEmpty
    /\ \A w \in Workers : Changing(w)

\* What one request does to its message is nothing to the others: those that are
\* about that message would be of the same employee.
LEMMA OthersChanging ==
    ASSUME ChatInv, TextInv, OneEach, NEW w \in Workers, NEW v \in Workers, v # w,
           job'[v] = job[v], job[w].pc # "idle", lastId' \in Nat, lastId <= lastId',
           \A i \in 1 .. lastId : sender'[i] = sender[i],
           deleted' \subseteq deleted \union {job[w].id},
           deleted' = deleted \/ job[w].pc \in ChangePCs,
           attached' \subseteq attached \union {job[w].id},
           attached' \subseteq attached \/ job[w].pc \in ChangePCs
    PROVE  Changing(v)'
  <1>1. Changing(v) /\ Changing(w) /\ lastId \in Nat
    BY Bounds DEF TextInv, ChatInv, StoreInv, Ids
  <1>2. ASSUME job[v].pc \in ChangePCs, job[w].pc \in ChangePCs PROVE job[v].id # job[w].id
    <2>1. job[v].pc # "idle"
      BY <1>2 DEF ChangePCs, DeletePCs
    <2>2. sender[job[v].id] = job[v].user /\ sender[job[w].id] = job[w].user
      BY <1>1, <1>2 DEF Changing
    <2> QED
      BY <2>1, <2>2 DEF OneEach
  <1>3. ASSUME job[v].pc \in ChangePCs
        PROVE  /\ job[v].id \notin deleted => job[v].id \notin deleted'
               /\ job[v].id \notin attached => job[v].id \notin attached'
    BY <1>2, <1>3
  <1>4. job[v].pc \in ChangePCs =>
            job[v].id \in 1 .. lastId' /\ sender'[job[v].id] = job[v].user
    BY <1>1 DEF Changing
  <1>5. job'[v].pc = "load" => job'[v].op \in {"edit", "delete"}
    BY <1>1 DEF Changing
  <1>6. job'[v].pc \in ChangePCs =>
            job'[v].id \in 1 .. lastId' /\ sender'[job'[v].id] = job'[v].user
    BY <1>4
  <1>7. job'[v].pc \in {"upload", "record", "update"} => job'[v].id \notin deleted'
    BY <1>1, <1>3 DEF Changing, ChangePCs
  <1>8. job'[v].pc = "clear" => job'[v].id \notin attached'
    BY <1>1, <1>3 DEF Changing, ChangePCs, DeletePCs
  <1> QED
    BY <1>5, <1>6, <1>7, <1>8 DEF Changing

\* A step of somebody's request.
LEMMA RequestTexts ==
    ASSUME ChatInv, ChatInv', TextInv, OneEach, NEW w \in Workers, Step(w)
    PROVE  TextInv'
  <1> DEFINE i == job[w].id
  <1>0. /\ lastId \in Nat /\ lastId' \in Nat /\ body \in [Ids -> Texts] /\ sender \in [Ids -> Users]
        /\ stored \subseteq 1 .. lastId /\ attached \subseteq stored /\ lastId \in Ids
        /\ job \in [Workers -> Jobs] /\ JobOK(w) /\ Changing(w)
        /\ deleted \subseteq 1 .. lastId /\ DeletedStaysEmpty /\ i \in {0} \union Ids
    BY Bounds, JobSet DEF TextInv, ChatInv, StoreInv, JobInv, Ids
  <1>1. job[w].pc # "idle"
    BY DEF Step, CheckMember, StoreMessage, Upload, RecordFile, LoadMessage, UpdateText,
       UnlinkFile, UnrecordFile, ClearText, AddMember, Invite, CheckCreator, RemoveMember,
       CountRemaining, DropGroup, RouteEvent, Push, Abandon
  <1>2. \A v \in Workers \ {w} : job'[v] = job[v]
    BY <1>0 DEF Step, CheckMember, StoreMessage, Upload, RecordFile, LoadMessage, UpdateText,
       UnlinkFile, UnrecordFile, ClearText, AddMember, Invite, CheckCreator, RemoveMember,
       CountRemaining, DropGroup, RouteEvent, Push, Abandon, Goto, Done
  <1>3. ASSUME NEW p, Goto(w, p)
        PROVE  /\ job'[w].pc = p /\ job'[w].op = job[w].op /\ job'[w].id = i
               /\ job'[w].user = job[w].user
    BY <1>0, <1>3 DEF Goto, Jobs
  <1>4. ASSUME Done(w) PROVE Changing(w)'
    BY <1>0, <1>4 DEF Done, Idle, Changing, ChangePCs, DeletePCs
  <1>5. ASSUME job'[w].pc \notin ChangePCs \union {"load"} PROVE Changing(w)'
    BY <1>5 DEF Changing, ChangePCs, DeletePCs
  <1>6. ASSUME lastId <= lastId', \A j \in 1 .. lastId : sender'[j] = sender[j],
               deleted' \subseteq deleted \union {i},
               deleted' = deleted \/ job[w].pc \in ChangePCs,
               attached' \subseteq attached \union {i},
               attached' \subseteq attached \/ job[w].pc \in ChangePCs,
               deleted' \subseteq 1 .. lastId', DeletedStaysEmpty', Changing(w)'
        PROVE  TextInv'
    <2>1. \A v \in Workers \ {w} : Changing(v)'
      BY <1>0, <1>1, <1>2, <1>6, OthersChanging
    <2> QED
      BY <1>6, <2>1 DEF TextInv
  <1>7. ASSUME UNCHANGED <<stored, body, deleted, attached, sender, lastId>>, Changing(w)'
        PROVE  TextInv'
    <2>1. DeletedStaysEmpty'
      BY <1>0, <1>7 DEF DeletedStaysEmpty
    <2> QED
      BY <1>0, <1>6, <1>7, <2>1
  <1>8. CASE StoreMessage(w)
    <2>1. /\ lastId' = lastId + 1 /\ UNCHANGED <<deleted, attached>>
          /\ \/ Done(w) /\ UNCHANGED <<stored, body, sender>>
             \/ /\ stored' = stored \union {lastId'}
                /\ body' = [body EXCEPT ![lastId'] = "sent"]
                /\ sender' = [sender EXCEPT ![lastId'] = job[w].user]
                /\ job' = [job EXCEPT ![w].id = lastId',
                                      ![w].pc = IF job[w].op = "send" THEN "route"
                                                ELSE "upload"]
      BY <1>8 DEF StoreMessage, fileVars
    <2>2. lastId' \in Ids /\ lastId' \notin deleted
      BY <1>0, <2>1 DEF ChatInv, StoreInv
    <2>3. Changing(w)'
      <3>1. CASE Done(w)
        BY <1>4, <3>1
      <3>2. CASE sender' = [sender EXCEPT ![lastId'] = job[w].user]
                 /\ job' = [job EXCEPT ![w].id = lastId',
                                       ![w].pc = IF job[w].op = "send" THEN "route"
                                                 ELSE "upload"]
        <4>1. job'[w].pc \in {"route", "upload"} /\ job'[w].id = lastId'
              /\ job'[w].user = job[w].user
          BY <1>0, <3>2 DEF Jobs
        <4>2. sender'[lastId'] = job[w].user /\ lastId' \in 1 .. lastId'
          BY <1>0, <2>1, <2>2, <3>2
        <4> QED
          BY <2>1, <2>2, <4>1, <4>2 DEF Changing
      <3> QED
        BY <2>1, <3>1, <3>2
    <2>4. DeletedStaysEmpty' /\ \A j \in 1 .. lastId : sender'[j] = sender[j]
      <3>1. CASE UNCHANGED <<stored, body, sender>>
        BY <1>0, <2>1, <3>1 DEF DeletedStaysEmpty
      <3>2. CASE /\ stored' = stored \union {lastId'}
                 /\ body' = [body EXCEPT ![lastId'] = "sent"]
                 /\ sender' = [sender EXCEPT ![lastId'] = job[w].user]
        <4>1. \A j \in 1 .. lastId : j # lastId' /\ body'[j] = body[j] /\ sender'[j] = sender[j]
          BY <1>0, <2>1, <2>2, <3>2 DEF Ids
        <4> QED
          BY <1>0, <2>1, <2>2, <3>2, <4>1 DEF DeletedStaysEmpty
      <3> QED
        BY <2>1, <3>1, <3>2
    <2>5. deleted' \subseteq 1 .. lastId' /\ lastId <= lastId'
      BY <1>0, <2>1
    <2> QED
      BY <1>6, <2>1, <2>3, <2>4, <2>5
  <1>9. CASE Upload(w)
    <2>1. Done(w) \/ Goto(w, "record")
      BY <1>9 DEF Upload
    <2>2. job[w].pc = "upload" /\ UNCHANGED <<stored, body, deleted, attached, sender, lastId>>
      BY <1>9 DEF Upload
    <2>3. ASSUME Goto(w, "record") PROVE Changing(w)'
      <3>1. job'[w].pc = "record" /\ job'[w].id = i /\ job'[w].user = job[w].user
        BY <1>0, <2>3 DEF Goto, Jobs
      <3> QED
        BY <1>0, <2>2, <3>1 DEF Changing, ChangePCs
    <2> QED
      BY <1>4, <1>7, <2>1, <2>2, <2>3
  <1>10. CASE RecordFile(w)
    <2>1. /\ job[w].pc = "record" /\ UNCHANGED <<stored, body, deleted, sender, lastId>>
          /\ attached' \subseteq attached \union {i}
      BY <1>10 DEF RecordFile
    <2>2. job'[w].pc \in {"route", "idle"}
      BY <1>0, <1>10 DEF RecordFile, Goto, Done, Idle, Jobs
    <2>3. i \notin deleted
      BY <1>0, <2>1 DEF Changing
    <2>4. DeletedStaysEmpty'
      BY <1>0, <2>1, <2>3 DEF DeletedStaysEmpty
    <2>5. Changing(w)'
      BY <1>5, <2>2 DEF ChangePCs, DeletePCs
    <2>6. job[w].pc \in ChangePCs
      BY <2>1 DEF ChangePCs
    <2> QED
      BY <1>0, <1>6, <2>1, <2>4, <2>5, <2>6
  <1>11. CASE LoadMessage(w)
    <2>1. job[w].pc = "load" /\ UNCHANGED <<stored, body, deleted, attached, sender, lastId>>
      BY <1>11 DEF LoadMessage
    <2>2. job[w].op \in {"edit", "delete"}
      BY <1>0, <2>1 DEF Changing
    <2>3. CASE Done(w)
      BY <1>4, <1>7, <2>1, <2>3
    <2>4. CASE ~Done(w)
      <3>1. i \in stored /\ sender[i] = job[w].user /\ i \notin deleted
        BY <1>11, <2>4 DEF LoadMessage
      <3>2. CASE job[w].op = "edit"
        <4>1. Goto(w, "update")
          BY <1>11, <2>4, <3>2 DEF LoadMessage
        <4>2. job'[w].pc = "update" /\ job'[w].id = i /\ job'[w].user = job[w].user
          BY <1>0, <4>1 DEF Goto, Jobs
        <4>3. Changing(w)'
          BY <1>0, <2>1, <3>1, <4>2 DEF Changing
        <4> QED
          BY <1>7, <2>1, <4>3
      <3>3. CASE job[w].op = "delete" /\ i \in attached
        <4>1. Goto(w, "unlink")
          BY <1>11, <2>4, <3>3 DEF LoadMessage
        <4>2. job'[w].pc = "unlink" /\ job'[w].id = i /\ job'[w].user = job[w].user
          BY <1>0, <4>1 DEF Goto, Jobs
        <4>3. Changing(w)'
          BY <1>0, <2>1, <3>1, <4>2 DEF Changing
        <4> QED
          BY <1>7, <2>1, <4>3
      <3>4. CASE job[w].op = "delete" /\ i \notin attached
        <4>1. Goto(w, "clear")
          BY <1>11, <2>4, <3>4 DEF LoadMessage
        <4>2. job'[w].pc = "clear" /\ job'[w].id = i /\ job'[w].user = job[w].user
          BY <1>0, <4>1 DEF Goto, Jobs
        <4>3. Changing(w)'
          BY <1>0, <2>1, <3>1, <3>4, <4>2 DEF Changing
        <4> QED
          BY <1>7, <2>1, <4>3
      <3> QED
        BY <2>2, <3>2, <3>3, <3>4
    <2> QED
      BY <2>3, <2>4
  <1>12. CASE UnlinkFile(w)
    <2>1. job[w].pc = "unlink" /\ UNCHANGED <<stored, body, deleted, attached, sender, lastId>>
      BY <1>12 DEF UnlinkFile
    <2>2. Done(w) \/ Goto(w, "unrecord")
      BY <1>12 DEF UnlinkFile
    <2>3. ASSUME Goto(w, "unrecord") PROVE Changing(w)'
      <3>1. job'[w].pc = "unrecord" /\ job'[w].id = i /\ job'[w].user = job[w].user
        BY <1>0, <2>3 DEF Goto, Jobs
      <3> QED
        BY <1>0, <2>1, <3>1 DEF Changing, ChangePCs, DeletePCs
    <2> QED
      BY <1>4, <1>7, <2>1, <2>2, <2>3
  <1>13. CASE UnrecordFile(w)
    <2>1. /\ job[w].pc = "unrecord" /\ UNCHANGED <<stored, body, deleted, sender, lastId>>
          /\ attached' = attached \ {i} /\ Goto(w, "clear")
      BY <1>13 DEF UnrecordFile
    <2>2. job'[w].pc = "clear" /\ job'[w].id = i /\ job'[w].user = job[w].user
      BY <1>0, <2>1 DEF Goto, Jobs
    <2>3. Changing(w)'
      BY <1>0, <2>1, <2>2 DEF Changing, ChangePCs, DeletePCs
    <2>4. DeletedStaysEmpty'
      BY <1>0, <2>1 DEF DeletedStaysEmpty
    <2> QED
      BY <1>0, <1>6, <2>1, <2>3, <2>4
  <1>14. CASE UpdateText(w)
    <2>1. /\ job[w].pc = "update" /\ UNCHANGED <<stored, deleted, attached, sender, lastId>>
          /\ body' = body \/ body' = [body EXCEPT ![i] = "edited"]
      BY <1>14 DEF UpdateText, fileVars
    <2>2. job'[w].pc \in {"route", "idle"}
      BY <1>0, <1>14 DEF UpdateText, Goto, Done, Idle, Jobs
    <2>3. i \notin deleted
      BY <1>0, <2>1 DEF Changing
    <2>4. \A j \in deleted : body'[j] = body[j]
      <3>1. \A j \in deleted : j \in Ids /\ j # i
        BY <1>0, <2>3, Bounds DEF Ids
      <3>2. CASE body' = [body EXCEPT ![i] = "edited"]
        BY <1>0, <3>1, <3>2
      <3> QED
        BY <2>1, <3>2
    <2>5. DeletedStaysEmpty'
      BY <2>1, <2>4, <1>0 DEF DeletedStaysEmpty
    <2>6. Changing(w)'
      BY <1>5, <2>2 DEF ChangePCs, DeletePCs
    <2> QED
      BY <1>0, <1>6, <2>1, <2>5, <2>6
  <1>15. CASE ClearText(w)
    <2>1. /\ job[w].pc = "clear" /\ UNCHANGED <<stored, attached, sender, lastId>>
          /\ \/ UNCHANGED <<body, deleted>>
             \/ body' = [body EXCEPT ![i] = ""] /\ deleted' = deleted \union {i}
      BY <1>15 DEF ClearText, fileVars
    <2>2. job'[w].pc \in {"route", "idle"}
      <3>1. Goto(w, "route") \/ Done(w)
        BY <1>15 DEF ClearText
      <3> QED
        BY <1>0, <3>1 DEF Goto, Done, Idle, Jobs
    <2>3. i \notin attached /\ i \in 1 .. lastId /\ job[w].pc \in ChangePCs
      BY <1>0, <2>1 DEF Changing, ChangePCs, DeletePCs
    <2>4. i \in Ids /\ \A j \in deleted : j \in Ids
      BY <1>0, <2>3, Bounds DEF Ids
    <2>5. DeletedStaysEmpty'
      <3>1. CASE UNCHANGED <<body, deleted>>
        BY <1>0, <2>1, <3>1 DEF DeletedStaysEmpty
      <3>2. CASE body' = [body EXCEPT ![i] = ""] /\ deleted' = deleted \union {i}
        <4>1. \A j \in stored \intersect (deleted \union {i}) :
                    body'[j] = "" /\ j \notin attached
          BY <1>0, <2>3, <2>4, <3>2 DEF DeletedStaysEmpty
        <4> QED
          BY <2>1, <3>2, <4>1 DEF DeletedStaysEmpty
      <3> QED
        BY <2>1, <3>1, <3>2
    <2>6. Changing(w)'
      BY <1>5, <2>2 DEF ChangePCs, DeletePCs
    <2>7. deleted' \subseteq deleted \union {i} /\ deleted' \subseteq 1 .. lastId'
      BY <1>0, <2>1, <2>3
    <2>8. lastId' = lastId /\ sender' = sender /\ attached' = attached
      BY <2>1
    <2>9. attached' \subseteq attached \union {i} /\ lastId <= lastId'
      BY <1>0, <2>8
    <2> QED
      BY <1>6, <2>3, <2>5, <2>6, <2>7, <2>8, <2>9
  <1>16. CASE DropGroup(w)
    <2>1. /\ stored' = {} /\ attached' = {} /\ UNCHANGED <<body, deleted, sender, lastId>>
          /\ Goto(w, "push")
      BY <1>16 DEF DropGroup
    <2>2. job'[w].pc = "push"
      BY <1>0, <2>1 DEF Goto, Jobs
    <2>3. Changing(w)'
      BY <1>5, <2>2 DEF ChangePCs, DeletePCs
    <2>4. DeletedStaysEmpty'
      BY <2>1 DEF DeletedStaysEmpty
    <2> QED
      BY <1>0, <1>6, <2>1, <2>3, <2>4
  <1>17. ASSUME CheckMember(w) \/ AddMember(w) \/ Invite(w) \/ CheckCreator(w) \/ RemoveMember(w)
                \/ CountRemaining(w) \/ RouteEvent(w) \/ Push(w) \/ Abandon(w)
         PROVE  TextInv'
    <2>1. UNCHANGED <<stored, body, deleted, attached, sender, lastId>>
      BY <1>17 DEF CheckMember, AddMember, Invite, CheckCreator, RemoveMember, CountRemaining,
         RouteEvent, Push, Abandon, groupVars, fileVars
    <2>2. CASE CheckMember(w)
      <3>1. Done(w) \/ Goto(w, "store") \/ Goto(w, "insert") \/ Goto(w, "leave")
            \/ Goto(w, "creator")
        BY <2>2 DEF CheckMember
      <3>2. job'[w].pc \in {"idle", "store", "insert", "leave", "creator"}
        BY <1>0, <3>1 DEF Goto, Done, Idle, Jobs
      <3> QED
        BY <1>5, <1>7, <2>1, <3>2 DEF ChangePCs, DeletePCs
    <2>3. CASE AddMember(w) \/ Invite(w) \/ CheckCreator(w) \/ RemoveMember(w)
      <3>1. job'[w].pc \in {"idle", "invite", "route", "leave", "remaining"}
        BY <1>0, <2>3 DEF AddMember, Invite, CheckCreator, RemoveMember, Goto, Done, Idle, Jobs
      <3> QED
        BY <1>5, <1>7, <2>1, <3>1 DEF ChangePCs, DeletePCs
    <2>4. CASE CountRemaining(w) \/ RouteEvent(w) \/ Push(w)
      <3>1. job'[w].pc \in {"idle", "drop", "push"}
        BY <1>0, <2>4 DEF CountRemaining, RouteEvent, Push, Done, Idle, Jobs
      <3> QED
        BY <1>5, <1>7, <2>1, <3>1 DEF ChangePCs, DeletePCs
    <2>5. CASE Abandon(w)
      BY <1>4, <1>7, <2>1, <2>5 DEF Abandon
    <2> QED
      BY <1>17, <2>2, <2>3, <2>4, <2>5
  <1> QED
    BY <1>8, <1>9, <1>10, <1>11, <1>12, <1>13, <1>14, <1>15, <1>16, <1>17, Zenon DEF Step

\* Whatever else happens, and what a new request does.
LEMMA TextStep ==
    ASSUME ChatInv, ChatInv', TextInv, OneEach, [Next]_vars
    PROVE  TextInv'
  <1>0. job \in [Workers -> Jobs]
    BY DEF ChatInv, JobInv
  <1>1. ASSUME UNCHANGED groupVars, \A w \in Workers : job'[w] = job[w] \/ Changing(w)'
        PROVE  TextInv'
    BY <1>1 DEF TextInv, Changing, DeletedStaysEmpty, groupVars, fileVars
  <1>2. ASSUME NEW w \in Workers, Request(w) PROVE TextInv'
    <2>1. \A v \in Workers \ {w} : job'[v] = job[v]
      BY <1>0, <1>2 DEF Request
    <2>2. /\ job'[w].pc \in {"member", "load"}
          /\ job'[w].pc = "load" => job'[w].op \in {"edit", "delete"}
      <3>1. PICK u \in Users :
               \/ \E o \in {"send", "attach"} :
                   job' = [job EXCEPT ![w] = [Idle EXCEPT !.pc = "member", !.op = o, !.user = u]]
               \/ \E o \in {"edit", "delete"}, i \in stored :
                   job' = [job EXCEPT ![w] = [Idle EXCEPT !.pc = "load", !.op = o, !.user = u,
                                                          !.id = i]]
               \/ \E o \in {"add", "remove"}, v \in Users :
                   job' = [job EXCEPT ![w] = [Idle EXCEPT !.pc = "member", !.op = o, !.user = u,
                                                          !.whom = v]]
        BY <1>2, Zenon DEF Request
      <3>2. CASE \E o : job' = [job EXCEPT ![w] = [Idle EXCEPT !.pc = "member", !.op = o,
                                                              !.user = u]]
        BY <1>0, <3>2 DEF Idle
      <3>3. CASE \E o \in {"edit", "delete"}, i \in stored :
                   job' = [job EXCEPT ![w] = [Idle EXCEPT !.pc = "load", !.op = o, !.user = u,
                                                          !.id = i]]
        BY <1>0, <3>3 DEF Idle
      <3>4. CASE \E o, v : job' = [job EXCEPT ![w] = [Idle EXCEPT !.pc = "member", !.op = o,
                                                                 !.user = u, !.whom = v]]
        BY <1>0, <3>4 DEF Idle
      <3> QED
        BY <3>1, <3>2, <3>3, <3>4, Zenon
    <2>3. Changing(w)'
      BY <2>2 DEF Changing, ChangePCs, DeletePCs
    <2> QED
      BY <1>1, <1>2, <2>1, <2>3 DEF Request
  <1>3. ASSUME NEW w \in Workers, Step(w) PROVE TextInv'
    BY <1>3, RequestTexts
  <1>4. ASSUME UNCHANGED groupVars, UNCHANGED job PROVE TextInv'
    BY <1>1, <1>4
  <1>5. ASSUME NEW t \in Tabs, Open(t) \/ ClientLeaves(t) \/ Reader(t) \/ Writer(t) PROVE TextInv'
    <2>1. UNCHANGED groupVars /\ UNCHANGED job
      BY <1>5 DEF Open, ClientLeaves, Reader, Register, IsOnlyConn, BroadcastOnline, ReadFails,
         Unregister, AwaitWriter, BroadcastOffline, Writer, NextEvent, CheckSession, Write, Ping
    <2> QED
      BY <1>4, <2>1
  <1>6. ASSUME NEW u \in Users, EndSession(u) PROVE TextInv'
    BY <1>4, <1>6 DEF EndSession
  <1>7. CASE UNCHANGED vars
    BY <1>4, <1>7 DEF vars
  <1> QED
    BY <1>2, <1>3, <1>5, <1>6, <1>7, Zenon DEF Next

\* As long as no employee makes two requests at a time, a deleted message stays
\* without text and without a file, whatever others do to the group meanwhile and
\* whichever of the storage's calls fail: only its sender can have an edit, an
\* upload or a second deletion of it under way. ChatDeleted.cfg shows what two
\* requests of one employee do to it.
THEOREM DeletedAreEmpty == Spec /\ []OneEach => []DeletedStaysEmpty
  <1>1. Init => TextInv
    <2> SUFFICES ASSUME Init PROVE TextInv
      OBVIOUS
    <2>1. deleted = {} /\ job = [w \in Workers |-> Idle] /\ Idle.pc = "idle"
      BY DEF Init, Idle
    <2> QED
      BY <2>1 DEF TextInv, Changing, ChangePCs, DeletePCs, DeletedStaysEmpty
  <1>2. ChatInv /\ ChatInv' /\ TextInv /\ OneEach /\ [Next]_vars => TextInv'
    BY TextStep
  <1>3. TextInv => DeletedStaysEmpty
    BY DEF TextInv
  <1> QED
    BY <1>1, <1>2, <1>3, ChatInvariant, PTL DEF Spec
============================================================================
