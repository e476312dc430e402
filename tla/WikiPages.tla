------------------------------ MODULE WikiPages ------------------------------
(***************************************************************************)
(* The wiki's pages and the files attached to them: saving, deleting,      *)
(* renaming, attaching and detaching, and setting a page's rules, several  *)
(* requests at a time, over the tables of pages, revisions, rules and      *)
(* attachments, the object storage and the service's pool of connections.  *)
(*                                                                         *)
(* A save is one transaction: it keeps a connection, and the lock of the   *)
(* page's row, from its first query to its commit, while the access check  *)
(* inside it takes a second connection from the same pool. The others make *)
(* one query at a time, and keep its connection while it waits for that    *)
(* row; so does the transaction that sets rules. All employees here are of *)
(* one group, so a page's rules come down to whether that group may write. *)
(* Rows of a deleted page are kept in revs: their ids are never used again *)
(* and nothing can reach them. A file's key is new with every upload; a    *)
(* request to the storage may fail, one to the database does not.          *)
(***************************************************************************)
EXTENDS Integers, Sequences

CONSTANTS
    Writers,    \* requests at a time
    Paths,      \* page paths
    Contents,   \* what a page can say
    Titles,     \* what a page can be called
    Conns,      \* connections in the pool
    Ops,        \* the requests made: a subset of Handlers
    MaxRequests,\* bound: requests ever made
    None        \* no path, nobody

Handlers == {"save", "delete", "rename", "attach", "detach", "permit"}

ASSUME WikiConstants ==
    /\ Conns \in Nat \ {0}
    /\ MaxRequests \in Nat \ {0}
    /\ None \notin Paths \union Writers
    /\ Paths # {} /\ Contents # {} /\ Titles # {}
    /\ Ops # {} /\ Ops \subseteq Handlers

VARIABLES
    pathOf,     \* wiki_pages.path by page id, None without a row
    titleOf,    \* wiki_pages.title by page id
    writable,   \* the pages whose rules let the employees write
    pages,      \* page ids handed out so far
    revs,       \* wiki_revisions in the order of their ids
    lock,       \* who holds the row lock of a page
    pending,    \* who has inserted a page at a path without committing yet
    fileOf,     \* wiki_attachments.page_id by file, 0 without a row
    keys,       \* files uploaded so far
    stored,     \* the files in the object storage
    free,       \* idle connections of the pool
    asked,      \* requests made so far
    pc, req,    \* each request: its next query, and what it was asked
    id, seen    \* each request: the page it found, the revision or file it read

pageVars == <<pathOf, titleOf, writable, pages, revs, lock, pending>>
fileVars == <<fileOf, keys, stored>>
dbVars == <<pageVars, fileVars>>
vars == <<dbVars, free, asked, pc, req, id, seen>>

\* A request creates one page, one revision and one file at most.
PageIds == 1 .. MaxRequests
RevIds  == 1 .. MaxRequests
Files   == 1 .. MaxRequests
Any == -1   \* base_revision left out

Requests == [op : Ops, path : Paths, base : {Any, 0} \union RevIds, content : Contents,
             title : Titles, dest : Paths]

TypeOK ==
    /\ pathOf \in [PageIds -> Paths \union {None}]
    /\ titleOf \in [PageIds -> Titles]
    /\ writable \in SUBSET PageIds
    /\ pages \in 0 .. MaxRequests
    /\ Len(revs) <= MaxRequests
    /\ \A r \in DOMAIN revs : revs[r] \in [page : PageIds, content : Contents,
                                           base : {Any, 0} \union RevIds]
    /\ lock \in [PageIds -> Writers \union {None}]
    /\ pending \in [Paths -> Writers \union {None}]
    /\ fileOf \in [Files -> 0 .. MaxRequests]
    /\ keys \in 0 .. MaxRequests
    /\ stored \in SUBSET Files
    /\ free \in 0 .. Conns
    /\ asked \in 0 .. MaxRequests
    /\ pc \in [Writers -> {"idle", "begin", "lock", "access", "compare", "insert", "write",
                           "look", "allowed", "target", "apply", "query", "rules", "objects",
                           "upload", "record", "find", "remove", "sweep"}]
    /\ req \in [Writers -> Requests]
    /\ id \in [Writers -> 0 .. MaxRequests]
    /\ seen \in [Writers -> 0 .. MaxRequests]

NoRequest == CHOOSE r \in Requests : r.base = Any

Init ==
    /\ pathOf = [p \in PageIds |-> None]
    /\ titleOf = [p \in PageIds |-> NoRequest.title]
    /\ writable = PageIds
    /\ pages = 0
    /\ revs = <<>>
    /\ lock = [p \in PageIds |-> None]
    /\ pending = [x \in Paths |-> None]
    /\ fileOf = [a \in Files |-> 0]
    /\ keys = 0
    /\ stored = {}
    /\ free = Conns
    /\ asked = 0
    /\ pc = [w \in Writers |-> "idle"]
    /\ req = [w \in Writers |-> NoRequest]
    /\ id = [w \in Writers |-> 0]
    /\ seen = [w \in Writers |-> 0]

----------------------------------------------------------------------------

PageAt(path) == {p \in PageIds : pathOf[p] = path}

\* The latest row for a page id.
Latest(p) ==
    CHOOSE r \in DOMAIN revs :
        revs[r].page = p /\ \A s \in DOMAIN revs : revs[s].page = p => s <= r

\* list-wiki-attachments.
Attached(p) == {a \in Files : fileOf[a] = p}

\* download-wiki-attachment finds what the row says.
Downloadable(a) == a \in stored

\* list-wiki-pages, for those who may read them all.
Listed == {p \in PageIds : pathOf[p] # None}

\* list-wiki-revisions.
History(p) == {r \in DOMAIN revs : revs[r].page = p}

\* get-wiki-page: shows the page a path finds, if there is a text to show.
Shown(path) == {p \in PageAt(path) : History(p) # {}}

\* recent-wiki-changes and search-wiki: only pages joined to a revision.
Searchable == {p \in Listed : \E r \in DOMAIN revs : revs[r].page = p}

Goto(w, next) ==
    /\ pc' = [pc EXCEPT ![w] = next]
    /\ UNCHANGED <<req, id, seen, asked>>

Done(w) ==
    /\ pc' = [pc EXCEPT ![w] = "idle"]
    /\ req' = [req EXCEPT ![w] = NoRequest]
    /\ id' = [id EXCEPT ![w] = 0]
    /\ seen' = [seen EXCEPT ![w] = 0]
    /\ UNCHANGED asked

\* Mutant: a refused save forgets its transaction.
Rollback_Leaks(w) == Done(w) /\ UNCHANGED <<dbVars, free>>

\* The deferred Rollback: the lock and the connection are given back.
Rollback(w) ==
    /\ lock' = [p \in PageIds |-> IF lock[p] = w THEN None ELSE lock[p]]
    /\ free' = free + 1
    /\ Done(w)
    /\ UNCHANGED <<pathOf, titleOf, writable, pages, revs, pending, fileVars>>

\* A request arrives. Its base is a revision somebody once read, or 0 for a
\* page to be created, or left out.
Request(w) ==
    /\ pc[w] = "idle"
    /\ asked < MaxRequests
    /\ asked' = asked + 1
    /\ \E r \in Requests :
        /\ r.base \in {Any, 0} \/ r.base <= Len(revs)
        /\ r.op # "rename" => r.dest = r.path
        /\ r.op = "detach" => r.path = NoRequest.path
        /\ r.op # "save" => r.base = Any /\ r.content = NoRequest.content
                              /\ r.title = NoRequest.title
        /\ req' = [req EXCEPT ![w] = r]
        /\ pc' = [pc EXCEPT ![w] = CASE r.op = "save" -> "begin"
                                          [] r.op = "detach" -> "find"
                                          [] OTHER -> "look"]
    /\ UNCHANGED <<dbVars, free, id, seen>>

----------------------------------------------------------------------------
(* save-wiki-page.                                                         *)

Begin(w) ==
    /\ pc[w] = "begin"
    /\ free > 0
    /\ free' = free - 1
    /\ Goto(w, "lock")
    /\ UNCHANGED dbVars

\* Mutant: the page is looked up without FOR UPDATE.
LockPage_Unlocked(w) ==
    /\ pc[w] = "lock"
    /\ \/ /\ PageAt(req[w].path) = {}
          /\ req[w].base \in {Any, 0}
          /\ Goto(w, "insert")
          /\ UNCHANGED <<dbVars, free>>
       \/ /\ PageAt(req[w].path) = {}
          /\ req[w].base \notin {Any, 0}
          /\ Rollback(w)
       \/ \E p \in PageAt(req[w].path) :
          /\ id' = [id EXCEPT ![w] = p]
          /\ pc' = [pc EXCEPT ![w] = "access"]
          /\ UNCHANGED <<dbVars, req, seen, free, asked>>

\* SELECT ... FOR UPDATE: waits for whoever holds the row, and looks again.
LockPage(w) ==
    /\ pc[w] = "lock"
    /\ \/ /\ PageAt(req[w].path) = {}
          /\ req[w].base \in {Any, 0}
          /\ Goto(w, "insert")
          /\ UNCHANGED <<dbVars, free>>
       \/ /\ PageAt(req[w].path) = {}
          /\ req[w].base \notin {Any, 0}
          /\ Rollback(w)
       \/ \E p \in PageAt(req[w].path) :
          /\ lock[p] = None
          /\ lock' = [lock EXCEPT ![p] = w]
          /\ id' = [id EXCEPT ![w] = p]
          /\ pc' = [pc EXCEPT ![w] = "access"]
          /\ UNCHANGED <<pathOf, titleOf, writable, pages, revs, pending, fileVars,
                          req, seen, free, asked>>

\* INSERT INTO wiki_pages: waits for an uncommitted page at the same path; the
\* row is nobody else's to see before the commit.
InsertPage(w) ==
    LET path == req[w].path IN
    /\ pc[w] = "insert"
    /\ pending[path] = None
    /\ \/ PageAt(path) # {} /\ Rollback(w)
       \/ /\ PageAt(path) = {}
          /\ pages' = pages + 1
          /\ pending' = [pending EXCEPT ![path] = w]
          /\ id' = [id EXCEPT ![w] = pages + 1]
          /\ pc' = [pc EXCEPT ![w] = "write"]
          /\ UNCHANGED <<pathOf, titleOf, writable, revs, lock, fileVars, free, req, seen, asked>>

\* wikiPageAccess asks the pool for a second connection.
CheckAccess(w) ==
    /\ pc[w] = "access"
    /\ free > 0
    /\ \/ id[w] \in writable /\ Goto(w, "compare") /\ UNCHANGED <<dbVars, free>>
       \/ id[w] \notin writable /\ Rollback(w)

BaseIsCurrent(w) == req[w].base \in {Any, Latest(id[w])}

CompareBase(w) ==
    /\ pc[w] = "compare"
    /\ \/ /\ BaseIsCurrent(w)
          /\ seen' = [seen EXCEPT ![w] = Latest(id[w])]
          /\ pc' = [pc EXCEPT ![w] = "write"]
          /\ UNCHANGED <<dbVars, free, req, id, asked>>
       \/ ~BaseIsCurrent(w) /\ Rollback(w)

\* Mutant: a page is created without the revision the editor sent.
NewRevision_OnlyEdits(w) ==
    IF seen[w] # 0 /\ revs[seen[w]].content # req[w].content
    THEN Append(revs, [page |-> id[w], content |-> req[w].content, base |-> req[w].base])
    ELSE revs

\* The same text again is no new revision.
NewRevision(w) ==
    IF seen[w] = 0 \/ revs[seen[w]].content # req[w].content
    THEN Append(revs, [page |-> id[w], content |-> req[w].content, base |-> req[w].base])
    ELSE revs

\* The writes of the transaction become visible, and its locks are released.
WriteAndCommit(w) ==
    /\ pc[w] = "write"
    /\ revs' = NewRevision(w)
    /\ pathOf' = IF seen[w] = 0 THEN [pathOf EXCEPT ![id[w]] = req[w].path] ELSE pathOf
    /\ titleOf' = [titleOf EXCEPT ![id[w]] = req[w].title]
    /\ lock' = [p \in PageIds |-> IF lock[p] = w THEN None ELSE lock[p]]
    /\ pending' = [x \in Paths |-> IF pending[x] = w THEN None ELSE pending[x]]
    /\ free' = free + 1
    /\ Done(w)
    /\ UNCHANGED <<writable, pages, fileVars>>

----------------------------------------------------------------------------
(* delete-wiki-page, rename-wiki-page, the attachments and the rules: one  *)
(* query after another. One that waits for nothing has its connection for  *)
(* no time at all; one that may wait keeps it meanwhile.                   *)

LookUp(w) ==
    /\ pc[w] = "look"
    /\ free > 0
    /\ \/ PageAt(req[w].path) = {} /\ Done(w)
       \/ \E p \in PageAt(req[w].path) :
          /\ id' = [id EXCEPT ![w] = p]
          /\ pc' = [pc EXCEPT ![w] = IF req[w].op = "permit" THEN "apply" ELSE "allowed"]
          /\ UNCHANGED <<req, seen, asked>>
    /\ UNCHANGED <<dbVars, free>>

CheckWrite(w) ==
    /\ pc[w] = "allowed"
    /\ free > 0
    /\ IF id[w] \in writable
       THEN Goto(w, CASE req[w].op = "delete" -> "objects"
                      [] req[w].op = "rename" -> "target"
                      [] req[w].op = "attach" -> "upload"
                      [] req[w].op = "detach" -> "remove")
       ELSE Done(w)
    /\ UNCHANGED <<dbVars, free>>

CheckTarget(w) ==
    /\ pc[w] = "target"
    /\ free > 0
    /\ IF PageAt(req[w].dest) = {} THEN Goto(w, "apply") ELSE Done(w)
    /\ UNCHANGED <<dbVars, free>>

\* The connection for a query that may have to wait, or for a transaction.
Acquire(w) ==
    /\ pc[w] \in {"apply", "record"}
    /\ free > 0
    /\ free' = free - 1
    /\ Goto(w, "query")
    /\ UNCHANGED dbVars

\* The objects of the page's files are removed one by one, those the storage
\* removes; without the storage module none is.
RemoveObjects(w) ==
    /\ pc[w] = "objects"
    /\ free > 0
    /\ \E gone \in SUBSET Attached(id[w]) : stored' = stored \ gone
    /\ Goto(w, "apply")
    /\ UNCHANGED <<pageVars, fileOf, keys, free>>

\* Mutant: the delete gives back a connection more than it took.
DeletePage_ReleasesTwice(w) ==
    /\ pc[w] = "query"
    /\ req[w].op = "delete"
    /\ lock[id[w]] = None
    /\ pathOf' = [pathOf EXCEPT ![id[w]] = None]
    /\ free' = free + 2
    /\ Done(w)
    /\ UNCHANGED <<titleOf, writable, pages, revs, lock, pending, fileVars>>

\* DELETE waits for the row's lock, and removes the row if it is still there;
\* the rows of its files go with it.
DeletePage(w) ==
    /\ pc[w] = "query"
    /\ req[w].op = "delete"
    /\ lock[id[w]] = None
    /\ pathOf' = [pathOf EXCEPT ![id[w]] = None]
    /\ fileOf' = [a \in Files |-> IF fileOf[a] = id[w] THEN 0 ELSE fileOf[a]]
    /\ free' = free + 1
    /\ Done(w)
    /\ UNCHANGED <<titleOf, writable, pages, revs, lock, pending, keys, stored>>

\* UPDATE ... SET path: waits for the row's lock and for an uncommitted page
\* at the new path; the unique index refuses a path that is taken by then.
RenamePage(w) ==
    LET p == id[w] dest == req[w].dest IN
    /\ pc[w] = "query"
    /\ req[w].op = "rename"
    /\ lock[p] = None
    /\ pending[dest] = None
    /\ pathOf' = IF pathOf[p] = None \/ PageAt(dest) \ {p} # {} THEN pathOf
                 ELSE [pathOf EXCEPT ![p] = dest]
    /\ free' = free + 1
    /\ Done(w)
    /\ UNCHANGED <<titleOf, writable, pages, revs, lock, pending, fileVars>>

\* upload-wiki-attachment: the file is stored before it is recorded.
Upload(w) ==
    /\ pc[w] = "upload"
    /\ free > 0
    /\ \/ /\ keys' = keys + 1
          /\ stored' = stored \union {keys + 1}
          /\ seen' = [seen EXCEPT ![w] = keys + 1]
          /\ pc' = [pc EXCEPT ![w] = "record"]
          /\ UNCHANGED <<fileOf, id, req, asked>>
       \/ Done(w) /\ UNCHANGED fileVars
    /\ UNCHANGED <<pageVars, free>>

\* INSERT INTO wiki_attachments: its foreign key waits for the page's row, and
\* refuses the file of a page that is gone. The object stays.
RecordFile(w) ==
    /\ pc[w] = "query"
    /\ req[w].op = "attach"
    /\ lock[id[w]] = None
    /\ fileOf' = IF pathOf[id[w]] = None THEN fileOf ELSE [fileOf EXCEPT ![seen[w]] = id[w]]
    /\ free' = free + 1
    /\ Done(w)
    /\ UNCHANGED <<pageVars, keys, stored>>

\* delete-wiki-attachment names a file somebody once saw listed.
FindFile(w) ==
    /\ pc[w] = "find"
    /\ free > 0
    /\ \/ Done(w)
       \/ \E a \in Files :
          /\ fileOf[a] # 0
          /\ id' = [id EXCEPT ![w] = fileOf[a]]
          /\ seen' = [seen EXCEPT ![w] = a]
          /\ pc' = [pc EXCEPT ![w] = "allowed"]
          /\ UNCHANGED <<req, asked>>
    /\ UNCHANGED <<dbVars, free>>

RemoveFile(w) ==
    /\ pc[w] = "remove"
    /\ free > 0
    /\ fileOf' = [fileOf EXCEPT ![seen[w]] = 0]
    /\ Goto(w, "sweep")
    /\ UNCHANGED <<pageVars, keys, stored, free>>

\* No other row has the key; what the storage answers is ignored.
SweepObject(w) ==
    /\ pc[w] = "sweep"
    /\ free > 0
    /\ stored' \in {stored, stored \ {seen[w]}}
    /\ Done(w)
    /\ UNCHANGED <<pageVars, fileOf, keys, free>>

\* set-wiki-permissions removes the page's rules, waiting for whoever has them
\* in hand. No rules in their place leave the page open to everybody.
ClearRules(w) ==
    /\ pc[w] = "query"
    /\ req[w].op = "permit"
    /\ \A v \in Writers : pc[v] = "rules" => id[v] # id[w]
    /\ \/ /\ Goto(w, "rules")
          /\ UNCHANGED <<writable, free>>
       \/ /\ writable' = writable \union {id[w]}
          /\ free' = free + 1
          /\ Done(w)
    /\ UNCHANGED <<pathOf, titleOf, pages, revs, lock, pending, fileVars>>

\* Each rule's foreign key waits for the page's row, and refuses a page that is
\* gone: then the rules are rolled back.
SetPermissions(w) ==
    /\ pc[w] = "rules"
    /\ lock[id[w]] = None
    /\ writable' \in IF pathOf[id[w]] = None THEN {writable}
                     ELSE {writable \union {id[w]}, writable \ {id[w]}}
    /\ free' = free + 1
    /\ Done(w)
    /\ UNCHANGED <<pathOf, titleOf, pages, revs, lock, pending, fileVars>>

----------------------------------------------------------------------------

Step(w) ==
    \/ Begin(w) \/ LockPage(w) \/ InsertPage(w) \/ CheckAccess(w) \/ CompareBase(w)
    \/ WriteAndCommit(w) \/ LookUp(w) \/ CheckWrite(w) \/ CheckTarget(w)
    \/ RemoveObjects(w) \/ Acquire(w) \/ DeletePage(w) \/ RenamePage(w)
    \/ Upload(w) \/ RecordFile(w) \/ FindFile(w) \/ RemoveFile(w) \/ SweepObject(w)
    \/ ClearRules(w) \/ SetPermissions(w)

Next == \E w \in Writers : Request(w) \/ Step(w)

\* Every accepted request keeps running; nobody has to ask for anything.
Spec == Init /\ [][Next]_vars /\ \A w \in Writers : WF_vars(Step(w))

----------------------------------------------------------------------------
(* Properties.                                                             *)

\* No save of an edited page overwrites one it has not seen: the revision
\* before it in the page's history is the one the editor started from, and a
\* save that meant to create a page is the first of its page.
NoLostUpdate ==
    \A r \in DOMAIN revs :
        LET earlier == {s \in 1 .. r - 1 : revs[s].page = revs[r].page} IN
        CASE revs[r].base = Any -> TRUE
          [] revs[r].base = 0   -> earlier = {}
          [] OTHER -> revs[r].base \in earlier /\ \A s \in earlier : s <= revs[r].base

\* Whatever creates, renames, uploads and deletions run at once: opening a
\* listed page's path shows that page and no other, a search can find it, and
\* every file listed on it is there to download until the page's deletion has
\* begun.
PagesAreWhole ==
    /\ \A p \in Listed : Shown(pathOf[p]) = {p}
    /\ Searchable = Listed
    /\ \A a \in Files :
        fileOf[a] # 0 =>
            /\ fileOf[a] \in Listed
            /\ \/ Downloadable(a)
               \/ \E w \in Writers :
                    /\ pc[w] \in {"apply", "query"} /\ req[w].op = "delete"
                    /\ id[w] = fileOf[a]

\* Every request comes to an end: a connection or a row lock that is taken is
\* given back on every path, and requests do not wait for each other in a ring,
\* with a connection more in the pool than there are requests at a time.
RequestsEnd == \A w \in Writers : pc[w] # "idle" ~> pc[w] = "idle"

\* A save creates a page, adds a revision or is refused; it does not hang.
SavesEnd == \A w \in Writers : pc[w] = "access" ~> pc[w] # "access"

=============================================================================
