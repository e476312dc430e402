------------------------------ MODULE ChatService ------------------------------
(***************************************************************************)
(* The chat service around one private group: the requests that send, edit *)
(* and delete its messages and files and change its members, one query or  *)
(* call to the storage at a time, and the hub with the live connections of *)
(* the employees' tabs, each served by a reader and a writer that meet at  *)
(* a queue.                                                                *)
(*                                                                         *)
(* Of a message, the model keeps its id, its sender and whether its text   *)
(* is the one sent, an edited one or gone; of an event, the message it is  *)
(* about, 0 for presence and changes of the group. A session that ends     *)
(* takes with it every tab opened under it; its owner may log in again.    *)
(***************************************************************************)
EXTENDS Integers, Sequences, FiniteSets

CONSTANTS
    Users,        \* employees, all of them members of the group at first
    Creator,      \* the employee who made the group
    Watchers,     \* bound: the employees who have the chat open
    Tabs,         \* browser tabs that may hold a live connection
    Workers,      \* requests at a time
    QueueSize,    \* events a connection's queue holds (32)
    MaxMessages,  \* bound: messages ever sent, the first one included
    MaxCalls      \* bound: requests, connections opened and sessions ended, together

ASSUME ChatConstants ==
    /\ Creator \in Users
    /\ Watchers \subseteq Users
    /\ {QueueSize, MaxMessages} \subseteq Nat \ {0}
    /\ MaxCalls \in Nat

VARIABLES
    group,    \* chat_custom_groups: whether the group's row is there
    members,  \* chat_group_members
    stored,   \* the ids in chat_messages
    body,     \* chat_messages.content, by id
    deleted,  \* the ids with deleted_at set
    attached, \* the ids with a row in chat_attachments
    objects,  \* the ids with a file in the storage
    sender,   \* chat_messages.sender_username, by id
    lastId,   \* the sequence behind the ids
    job,      \* each request: its next query, and what it is about
    tab,      \* each tab's connection: reader, writer, socket, queue
    calls,    \* counts up to MaxCalls
    said,     \* history: the last presence broadcast about each employee
    reach,    \* history: who has been a member since a message was stored
    condemned,\* history: the ids whose sender has begun to delete them
    abandoned \* history: a removal that left the group empty ended before it dropped it

fileVars  == <<attached, objects, condemned>>
groupVars == <<group, members, stored, body, deleted, sender, lastId, reach, abandoned,
               fileVars>>
vars      == <<groupVars, job, tab, calls, said>>

Ids == 1 .. MaxMessages

Events == [id : {0} \union Ids, late : BOOLEAN]

Idle == [pc |-> "idle", op |-> "none", user |-> Creator, whom |-> Creator, id |-> 0, to |-> {}]
Off  == [serve |-> "off", writer |-> "off", user |-> Creator, valid |-> FALSE,
         sock |-> "closed", queue |-> <<>>]

TypeOK ==
    /\ group \in BOOLEAN
    /\ members \subseteq Users
    /\ stored \subseteq 1 .. lastId /\ deleted \subseteq Ids
    /\ attached \subseteq stored /\ objects \subseteq Ids /\ condemned \subseteq Ids
    /\ body \in [Ids -> {"sent", "edited", ""}]
    /\ sender \in [Ids -> Users]
    /\ lastId \in Ids
    /\ \A w \in Workers : job[w] \in
        [pc : {"idle", "member", "store", "load", "update", "clear", "insert", "invite",
               "creator", "leave", "remaining", "drop", "route", "push",
               "upload", "record", "unlink", "unrecord"},
         op : {"none", "send", "attach", "edit", "delete", "add", "remove"},
         user : Users, whom : Users, id : {0} \union Ids, to : SUBSET Users]
    /\ \A t \in Tabs :
        /\ tab[t].serve \in {"off", "accept", "registered", "online", "open", "closing",
                             "leaving", "leaving last", "offline"}
        /\ tab[t].writer \in {"off", "wait", "check", "write", "done"}
        /\ tab[t].user \in Users /\ tab[t].valid \in BOOLEAN
        /\ tab[t].sock \in {"up", "silent", "closed"}
        /\ Len(tab[t].queue) <= QueueSize + 1
        /\ \A i \in DOMAIN tab[t].queue : tab[t].queue[i] \in Events
    /\ calls \in 0 .. MaxCalls
    /\ said \in [Users -> {"nothing", "online", "offline"}]
    /\ reach \in [Ids -> SUBSET Users]
    /\ abandoned \in BOOLEAN

\* A group its creator has just made, and a message with a file in it.
Init ==
    /\ group = TRUE
    /\ members = Users
    /\ stored = {1} /\ lastId = 1
    /\ body = [i \in Ids |-> IF i = 1 THEN "sent" ELSE ""]
    /\ deleted = {} /\ condemned = {}
    /\ attached = {1} /\ objects = {1}
    /\ sender = [i \in Ids |-> Creator]
    /\ job = [w \in Workers |-> Idle]
    /\ tab = [t \in Tabs |-> Off]
    /\ calls = 0
    /\ said = [u \in Users |-> "nothing"]
    /\ reach = [i \in Ids |-> IF i = 1 THEN Users ELSE {}]
    /\ abandoned = FALSE

----------------------------------------------------------------------------
(* The hub's queues. Each use is one step under the hub's lock.            *)

Registered(t) == tab[t].serve \in {"registered", "online", "open", "closing"}

\* The event a writer works on has left the channel; what a writer that
\* returned leaves there is never looked at again.
Queued(t) == Len(tab[t].queue) - (IF tab[t].writer \in {"check", "write"} THEN 1 ELSE 0)

Listening(t, users) == Registered(t) /\ tab[t].user \in users /\ tab[t].writer # "done"

\* Mutant: a full queue takes one more event.
Sent_OneMore(users, id) ==
    [t \in Tabs |->
        IF Listening(t, users) /\ Queued(t) <= QueueSize
        THEN [tab[t] EXCEPT !.queue = Append(@, [id |-> id, late |-> ~tab[t].valid])]
        ELSE tab[t]]

\* SendTo: a full queue drops the event.
Sent(users, id) ==
    [t \in Tabs |->
        IF Listening(t, users) /\ Queued(t) < QueueSize
        THEN [tab[t] EXCEPT !.queue = Append(@, [id |-> id, late |-> ~tab[t].valid])]
        ELSE tab[t]]

Broadcast == Sent(Users, 0)

----------------------------------------------------------------------------
(* Serve: a connection's reader.                                           *)

\* The upgrade request of a logged-in employee.
Open(t) ==
    /\ tab[t].serve = "off" /\ t = CHOOSE x \in Tabs : tab[x].serve = "off"
    /\ calls < MaxCalls
    /\ calls' = calls + 1
    /\ \E u \in Watchers :
        tab' = [tab EXCEPT ![t] = [Off EXCEPT !.serve = "accept", !.user = u, !.valid = TRUE,
                                              !.sock = "up"]]
    /\ UNCHANGED <<groupVars, job, said>>

Register(t) ==
    /\ tab[t].serve = "accept"
    /\ tab' = [tab EXCEPT ![t].serve = "registered"]
    /\ UNCHANGED <<groupVars, job, calls, said>>

Others(t) == {x \in Tabs \ {t} : Registered(x) /\ tab[x].user = tab[t].user}

\* isOnlyConn: the employee may have come online.
IsOnlyConn(t) ==
    /\ tab[t].serve = "registered"
    /\ tab' = IF Others(t) = {} THEN [tab EXCEPT ![t].serve = "online"]
              ELSE [tab EXCEPT ![t].serve = "open", ![t].writer = "wait"]
    /\ UNCHANGED <<groupVars, job, calls, said>>

BroadcastOnline(t) ==
    /\ tab[t].serve = "online"
    /\ tab' = [Broadcast EXCEPT ![t].serve = "open", ![t].writer = "wait"]
    /\ said' = [said EXCEPT ![tab[t].user] = "online"]
    /\ UNCHANGED <<groupVars, job, calls>>

\* A closed socket ends the read loop; a silent one does not.
ReadFails(t) ==
    /\ tab[t].serve = "open"
    /\ tab[t].sock = "closed"
    /\ tab' = [tab EXCEPT ![t].serve = "closing"]
    /\ UNCHANGED <<groupVars, job, calls, said>>

\* Mutant: whether anybody is left is looked up before leaving.
Unregister_LooksFirst(t) ==
    /\ tab[t].serve = "closing"
    /\ tab' = [tab EXCEPT ![t].serve =
                 IF {x \in Tabs : Registered(x) /\ tab[x].user = tab[t].user} = {}
                 THEN "leaving last" ELSE "leaving"]
    /\ UNCHANGED <<groupVars, job, calls, said>>

\* The queue is closed; what is in it can still be taken out.
Unregister(t) ==
    /\ tab[t].serve = "closing"
    /\ tab' = [tab EXCEPT ![t].serve = IF Others(t) = {} THEN "leaving last" ELSE "leaving"]
    /\ UNCHANGED <<groupVars, job, calls, said>>

AwaitWriter(t) ==
    /\ tab[t].serve \in {"leaving", "leaving last"}
    /\ tab[t].writer = "done"
    /\ tab' = IF tab[t].serve = "leaving" THEN [tab EXCEPT ![t] = Off]
              ELSE [tab EXCEPT ![t].serve = "offline"]
    /\ UNCHANGED <<groupVars, job, calls, said>>

BroadcastOffline(t) ==
    /\ tab[t].serve = "offline"
    /\ tab' = [Broadcast EXCEPT ![t] = Off]
    /\ said' = [said EXCEPT ![tab[t].user] = "offline"]
    /\ UNCHANGED <<groupVars, job, calls>>

----------------------------------------------------------------------------
(* Serve: a connection's writer.                                           *)

\* The next event; a closed queue with nothing in it ends the writer.
NextEvent(t) ==
    /\ tab[t].writer = "wait"
    /\ \/ /\ tab[t].queue # <<>>
          /\ tab' = [tab EXCEPT ![t].writer = "check"]
       \/ /\ tab[t].queue = <<>>
          /\ tab[t].serve \in {"leaving", "leaving last"}
          /\ tab' = [tab EXCEPT ![t].writer = "done"]
    /\ UNCHANGED <<groupVars, job, calls, said>>

\* The writer closes the socket and returns.
Hangup(t) == tab' = [tab EXCEPT ![t].sock = "closed", ![t].writer = "done", ![t].queue = <<>>]

\* Mutant: the session is checked on the ping only.
CheckSession_OnPingOnly(t) ==
    /\ tab[t].writer = "check"
    /\ tab' = [tab EXCEPT ![t].writer = "write"]
    /\ UNCHANGED <<groupVars, job, calls, said>>

\* stillValid, per event.
CheckSession(t) ==
    /\ tab[t].writer = "check"
    /\ IF tab[t].valid THEN tab' = [tab EXCEPT ![t].writer = "write"] ELSE Hangup(t)
    /\ UNCHANGED <<groupVars, job, calls, said>>

\* Writing to a silent peer may still succeed.
Write(t) ==
    /\ tab[t].writer = "write"
    /\ \/ /\ tab[t].sock # "closed"
          /\ tab' = [tab EXCEPT ![t].writer = "wait", ![t].queue = Tail(@)]
       \/ /\ tab[t].sock # "up"
          /\ Hangup(t)
    /\ UNCHANGED <<groupVars, job, calls, said>>

\* Mutant: a pong that does not come is not noticed.
Ping_NoTimeout(t) ==
    /\ tab[t].writer = "wait"
    /\ ~tab[t].valid
    /\ Hangup(t)
    /\ UNCHANGED <<groupVars, job, calls, said>>

\* A tick that finds the session ended or gets no pong; others change nothing.
Ping(t) ==
    /\ tab[t].writer = "wait"
    /\ ~tab[t].valid \/ tab[t].sock # "up"
    /\ Hangup(t)
    /\ UNCHANGED <<groupVars, job, calls, said>>

----------------------------------------------------------------------------
(* What happens to connections from outside.                               *)

\* The tab is closed, or its network is gone without a word.
ClientLeaves(t) ==
    /\ tab[t].sock = "up"
    /\ \E s \in {"closed", "silent"} : tab' = [tab EXCEPT ![t].sock = s]
    /\ UNCHANGED <<groupVars, job, calls, said>>

\* Logged out, disabled, deleted, or the password was reset.
EndSession(u) ==
    /\ calls < MaxCalls
    /\ \E t \in Tabs : tab[t].user = u /\ tab[t].valid
    /\ calls' = calls + 1
    /\ tab' = [t \in Tabs |-> IF tab[t].user = u THEN [tab[t] EXCEPT !.valid = FALSE] ELSE tab[t]]
    /\ UNCHANGED <<groupVars, job, said>>

----------------------------------------------------------------------------
(* Requests.                                                               *)

Goto(w, next) == job' = [job EXCEPT ![w].pc = next]
Done(w) == job' = [job EXCEPT ![w] = Idle]

Request(w) ==
    /\ job[w].pc = "idle" /\ w = CHOOSE x \in Workers : job[x].pc = "idle"
    /\ calls < MaxCalls
    /\ calls' = calls + 1
    /\ \E u \in Users :
        \/ \E o \in {"send", "attach"} :
            job' = [job EXCEPT ![w] = [Idle EXCEPT !.pc = "member", !.op = o, !.user = u]]
        \/ \E o \in {"edit", "delete"}, i \in stored :
            job' = [job EXCEPT ![w] = [Idle EXCEPT !.pc = "load", !.op = o, !.user = u, !.id = i]]
        \/ \E o \in {"add", "remove"}, v \in Users :
            job' = [job EXCEPT ![w] = [Idle EXCEPT !.pc = "member", !.op = o, !.user = u,
                                                   !.whom = v]]
    /\ UNCHANGED <<groupVars, tab, said>>

\* isGroupMember of whoever asks.
CheckMember(w) ==
    /\ job[w].pc = "member"
    /\ \/ job[w].user \notin members /\ Done(w)
       \/ /\ job[w].user \in members
          /\ Goto(w, CASE job[w].op \in {"send", "attach"} -> "store"
                       [] job[w].op = "add" -> "insert"
                       [] job[w].op = "remove" /\ job[w].user = job[w].whom -> "leave"
                       [] OTHER -> "creator")
    /\ UNCHANGED <<groupVars, tab, calls, said>>

\* INSERT INTO chat_messages; a group that is gone by then refuses the row.
StoreMessage(w) ==
    LET i == lastId + 1 IN
    /\ job[w].pc = "store"
    /\ lastId < MaxMessages
    /\ lastId' = i
    /\ \/ ~group /\ Done(w) /\ UNCHANGED <<stored, body, sender, reach>>
       \/ /\ group
          /\ stored' = stored \union {i}
          /\ body' = [body EXCEPT ![i] = "sent"]
          /\ sender' = [sender EXCEPT ![i] = job[w].user]
          /\ reach' = [reach EXCEPT ![i] = members]
          /\ job' = [job EXCEPT ![w].id = i, ![w].pc = IF job[w].op = "send" THEN "route"
                                                      ELSE "upload"]
    /\ UNCHANGED <<group, members, deleted, abandoned, fileVars, tab, calls, said>>

\* The file, under the id of its message. An upload the storage fails, with or
\* without effect, leaves the message as it is.
Upload(w) ==
    /\ job[w].pc = "upload"
    /\ \/ objects' = objects \union {job[w].id} /\ (Goto(w, "record") \/ Done(w))
       \/ UNCHANGED objects /\ Done(w)
    /\ UNCHANGED <<group, members, stored, body, deleted, sender, lastId, reach,
                   abandoned, attached, condemned, tab, calls, said>>

\* INSERT INTO chat_attachments: the message must be there, deleted or not.
RecordFile(w) ==
    /\ job[w].pc = "record"
    /\ IF job[w].id \in stored
       THEN attached' = attached \union {job[w].id} /\ Goto(w, "route")
       ELSE UNCHANGED attached /\ Done(w)
    /\ UNCHANGED <<group, members, stored, body, deleted, sender, lastId, reach,
                   abandoned, objects, condemned, tab, calls, said>>

\* loadMessageForMutation, and what the handler does about a deleted message.
LoadMessage(w) ==
    LET i == job[w].id IN
    /\ job[w].pc = "load"
    /\ IF i \notin stored \/ sender[i] # job[w].user \/ i \in deleted
       THEN Done(w) /\ UNCHANGED condemned
       ELSE /\ Goto(w, CASE job[w].op = "edit" -> "update"
                         [] job[w].op = "delete" /\ i \in attached -> "unlink"
                         [] OTHER -> "clear")
            /\ condemned' = IF job[w].op = "edit" THEN condemned ELSE condemned \union {i}
    /\ UNCHANGED <<group, members, stored, body, deleted, sender, lastId, reach,
                   abandoned, attached, objects, tab, calls, said>>

\* deleteAttachment, to the storage: the row's key; then the file, unless the
\* storage is uninstalled. A call that fails, with or without effect, ends the
\* deletion.
UnlinkFile(w) ==
    LET i == job[w].id IN
    /\ job[w].pc = "unlink"
    /\ IF i \notin attached
       THEN Done(w) /\ UNCHANGED objects
       ELSE /\ objects' \in {objects, objects \ {i}}
            /\ Goto(w, "unrecord") \/ Done(w)
    /\ UNCHANGED <<group, members, stored, body, deleted, sender, lastId, reach,
                   abandoned, attached, condemned, tab, calls, said>>

\* deleteAttachment, to the database.
UnrecordFile(w) ==
    /\ job[w].pc = "unrecord"
    /\ attached' = attached \ {job[w].id}
    /\ Goto(w, "clear")
    /\ UNCHANGED <<group, members, stored, body, deleted, sender, lastId, reach,
                   abandoned, objects, condemned, tab, calls, said>>

\* The UPDATEs name the message and nothing else.
UpdateText(w) ==
    LET i == job[w].id IN
    /\ job[w].pc = "update"
    /\ IF i \in stored
       THEN body' = [body EXCEPT ![i] = "edited"] /\ Goto(w, "route")
       ELSE UNCHANGED body /\ Done(w)
    /\ UNCHANGED <<group, members, stored, deleted, sender, lastId, reach, abandoned,
                   fileVars, tab, calls, said>>

ClearText(w) ==
    LET i == job[w].id IN
    /\ job[w].pc = "clear"
    /\ IF i \in stored
       THEN /\ body' = [body EXCEPT ![i] = ""]
            /\ deleted' = deleted \union {i}
            /\ Goto(w, "route")
       ELSE UNCHANGED <<body, deleted>> /\ Done(w)
    /\ UNCHANGED <<group, members, stored, sender, lastId, reach, abandoned, fileVars,
                   tab, calls, said>>

\* ON CONFLICT DO NOTHING; a group that is gone refuses the row.
AddMember(w) ==
    /\ job[w].pc = "insert"
    /\ \/ ~group /\ Done(w) /\ UNCHANGED <<members, reach, abandoned>>
       \/ /\ group
          /\ abandoned' = FALSE
          /\ members' = members \union {job[w].whom}
          /\ reach' = [i \in Ids |-> IF i \in stored THEN reach[i] \union {job[w].whom}
                                    ELSE reach[i]]
          /\ Goto(w, "invite")
    /\ UNCHANGED <<group, stored, body, deleted, sender, lastId, fileVars, tab, calls, said>>

Invite(w) ==
    /\ job[w].pc = "invite"
    /\ IF group THEN tab' = Sent({job[w].whom}, 0) /\ Goto(w, "route")
                ELSE UNCHANGED tab /\ Done(w)
    /\ UNCHANGED <<groupVars, calls, said>>

\* Removing others is for the creator, or for anyone once the creator left.
CheckCreator(w) ==
    /\ job[w].pc = "creator"
    /\ IF Creator \in members /\ job[w].user # Creator THEN Done(w) ELSE Goto(w, "leave")
    /\ UNCHANGED <<groupVars, tab, calls, said>>

RemoveMember(w) ==
    /\ job[w].pc = "leave"
    /\ members' = members \ {job[w].whom}
    /\ IF job[w].whom \in members THEN Goto(w, "remaining") ELSE Done(w)
    /\ UNCHANGED <<group, stored, body, deleted, sender, lastId, reach, abandoned,
                   fileVars, tab, calls, said>>

\* Mutant: who remains is worked out from the members the request saw.
CountRemaining_Minus(w) ==
    /\ job[w].pc = "remaining"
    /\ job' = [job EXCEPT ![w].to = Users, ![w].pc = IF members = {} /\ job[w].user # job[w].whom
                                                     THEN "drop" ELSE "push"]
    /\ UNCHANGED <<groupVars, tab, calls, said>>

CountRemaining(w) ==
    /\ job[w].pc = "remaining"
    /\ job' = [job EXCEPT ![w].to = members \union {job[w].whom},
                          ![w].pc = IF members = {} THEN "drop" ELSE "push"]
    /\ UNCHANGED <<groupVars, tab, calls, said>>

\* The row goes, and with it the members, the messages and the rows of their
\* files; the files stay in the storage.
DropGroup(w) ==
    /\ job[w].pc = "drop"
    /\ group' = FALSE
    /\ members' = {}
    /\ stored' = {}
    /\ attached' = {}
    /\ Goto(w, "push")
    /\ UNCHANGED <<body, deleted, sender, lastId, reach, abandoned, objects, condemned,
                   tab, calls, said>>

\* Mutant: everybody hears of everything.
RouteEvent_Everyone(w) ==
    /\ job[w].pc = "route"
    /\ job' = [job EXCEPT ![w].to = Users, ![w].pc = "push"]
    /\ UNCHANGED <<groupVars, tab, calls, said>>

\* groupMembers, when the event is about to be pushed.
RouteEvent(w) ==
    /\ job[w].pc = "route"
    /\ job' = [job EXCEPT ![w].to = members, ![w].pc = "push"]
    /\ UNCHANGED <<groupVars, tab, calls, said>>

Push(w) ==
    /\ job[w].pc = "push"
    /\ tab' = Sent(job[w].to, job[w].id)
    /\ Done(w)
    /\ UNCHANGED <<groupVars, calls, said>>

\* A query fails, or the client goes away and takes the request's context with
\* it: the request ends where it is, and what it has done stays done. Only the
\* push needs neither.
Abandon(w) ==
    /\ job[w].pc \notin {"idle", "push"}
    /\ abandoned' = (abandoned \/ (job[w].pc \in {"remaining", "drop"} /\ members = {}))
    /\ Done(w)
    /\ UNCHANGED <<group, members, stored, body, deleted, sender, lastId, reach, fileVars, tab,
                   calls, said>>

----------------------------------------------------------------------------
(* Reading, as of the state it is done in.                                 *)

\* get-chat-messages asks isGroupMember first.
History(u) == IF u \in members THEN stored ELSE {}

\* attachmentsFor: the messages of a history that come with a file.
ShownWithFile(u) == History(u) \intersect attached

\* download-chat-attachment: the row, its message, the membership, the file.
Downloads(u, i) == i \in attached /\ i \in stored /\ u \in members /\ i \in objects

----------------------------------------------------------------------------

Reader(t) ==
    \/ Register(t) \/ IsOnlyConn(t) \/ BroadcastOnline(t) \/ ReadFails(t)
    \/ Unregister(t) \/ AwaitWriter(t) \/ BroadcastOffline(t)

Writer(t) == NextEvent(t) \/ CheckSession(t) \/ Write(t) \/ Ping(t)

Step(w) ==
    \/ CheckMember(w) \/ StoreMessage(w) \/ Upload(w) \/ RecordFile(w) \/ LoadMessage(w)
    \/ UpdateText(w) \/ UnlinkFile(w) \/ UnrecordFile(w) \/ ClearText(w) \/ AddMember(w)
    \/ Invite(w) \/ CheckCreator(w) \/ RemoveMember(w) \/ CountRemaining(w) \/ DropGroup(w)
    \/ RouteEvent(w) \/ Push(w) \/ Abandon(w)

Next ==
    \/ \E w \in Workers : Request(w) \/ Step(w)
    \/ \E t \in Tabs : Open(t) \/ ClientLeaves(t) \/ Reader(t) \/ Writer(t)
    \/ \E u \in Users : EndSession(u)

\* Both goroutines of a connection run, and the writer's ticker ticks.
Spec ==
    /\ Init /\ [][Next]_vars
    /\ \A t \in Tabs : WF_vars(Reader(t)) /\ WF_vars(Writer(t))

----------------------------------------------------------------------------
(* Properties.                                                             *)

\* A connection whose session has ended shows nothing that was said after it
\* ended, although it stays registered, and keeps receiving, until somebody
\* notices.
NothingAfterSessionEnds ==
    \A t \in Tabs : tab[t].writer = "write" => ~Head(tab[t].queue).late

\* Somebody who is gone is not shown online for ever: with no connection left,
\* in whatever order tabs came and went, the last thing said about them is
\* that they are offline.
GoneIsShownGone ==
    \A u \in Users :
        (\A t \in Tabs : tab[t].serve = "off" \/ tab[t].user # u) => said[u] # "online"

\* A private group's messages go live to nobody who has not been a member
\* since the message was stored, although members come and go between the
\* query and the push.
PushesReachMembers ==
    \A t \in Tabs : \A i \in DOMAIN tab[t].queue :
        tab[t].queue[i].id # 0 => tab[t].user \in reach[tab[t].queue[i].id]

\* A group nobody is in does not stay behind with its messages, also when its
\* last members leave at once or somebody is added as they do, unless the very
\* request that found it empty, or was about to, was abandoned; and a file a
\* member is shown, whatever failed on its way, is one that member gets, unless
\* the deletion of its message has begun.
GroupIsWhole ==
    /\ (\A w \in Workers : job[w].pc = "idle") /\ group => members # {} \/ abandoned
    /\ \A u \in Users : \A i \in ShownWithFile(u) \ condemned : Downloads(u, i)

\* A connection whose client is gone, or whose session has ended, ends.
ConnectionsEnd ==
    \A t \in Tabs :
        tab[t].serve = "open" /\ (tab[t].sock # "up" \/ ~tab[t].valid) ~> tab[t].serve = "off"

\* What GroupIsWhole leaves out, and is false: the last member's removal is
\* committed before the group is looked at, and an error in between leaves a
\* group nobody can open, and its messages, for good.
EmptyGroupsAreDropped ==
    (\A w \in Workers : job[w].pc = "idle") /\ group => members # {}

\* A deleted message has no text and no file any more.
DeletedStaysEmpty == \A i \in stored \intersect deleted : body[i] = "" /\ i \notin attached

=============================================================================
