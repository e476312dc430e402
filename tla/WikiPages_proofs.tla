------------------------- MODULE WikiPages_proofs --------------------------
(***************************************************************************)
(* Proofs about WikiPages, for any employees, paths, texts and bounds.     *)
(***************************************************************************)
EXTENDS WikiPages, FiniteSets, FiniteSetTheorems, TLAPS

----------------------------------------------------------------------------
(* The inductive invariant.                                                *)

Revisions == [page : PageIds, content : Contents, base : {Any, 0} \union RevIds]
Calls == {"idle", "begin", "lock", "access", "compare", "insert", "write", "look", "allowed",
          "target", "apply", "query", "rules", "objects", "upload", "record", "find", "remove",
          "sweep"}

TablesInv ==
    /\ pathOf \in [PageIds -> Paths \union {None}] /\ titleOf \in [PageIds -> Titles]
    /\ writable \in SUBSET PageIds /\ revs \in Seq(Revisions)
    /\ lock \in [PageIds -> Writers \union {None}]
    /\ pending \in [Paths -> Writers \union {None}]
    /\ fileOf \in [Files -> 0 .. MaxRequests] /\ stored \in SUBSET Files

RequestsInv ==
    /\ pc \in [Writers -> Calls] /\ req \in [Writers -> Requests]
    /\ id \in [Writers -> 0 .. MaxRequests] /\ seen \in [Writers -> 0 .. MaxRequests]
    /\ asked \in 0 .. MaxRequests

\* Which handler makes which query.
Saving  == {"begin", "lock", "access", "compare", "insert", "write"}
HandlersInv ==
    \A w \in Writers :
        /\ pc[w] \in Saving => req[w].op = "save"
        /\ pc[w] = "look" => req[w].op \in {"delete", "rename", "attach", "permit"}
        /\ pc[w] = "allowed" => req[w].op \in {"delete", "rename", "attach", "detach"}
        /\ pc[w] = "target" => req[w].op = "rename"
        /\ pc[w] = "objects" => req[w].op = "delete"
        /\ pc[w] = "apply" => req[w].op \in {"delete", "rename", "permit"}
        /\ pc[w] = "query" => req[w].op \in {"delete", "rename", "attach", "permit"}
        /\ pc[w] = "rules" => req[w].op = "permit"
        /\ pc[w] \in {"upload", "record"} => req[w].op = "attach"
        /\ pc[w] \in {"find", "remove", "sweep"} => req[w].op = "detach"

\* Who may still create a page, a revision, a file, and who has a connection of the pool.
ToInsert == {w \in Writers : pc[w] \in {"begin", "lock", "insert"}}
ToWrite  == {w \in Writers : pc[w] \in Saving}
ToUpload == {w \in Writers : pc[w] \in {"look", "allowed", "upload"} /\ req[w].op = "attach"}
Holding  == {w \in Writers : pc[w] \in (Saving \ {"begin"}) \union {"query", "rules"}}

CountsInv ==
    /\ pages \in Nat /\ IsFiniteSet(ToInsert) /\ pages + Cardinality(ToInsert) <= asked
    /\ IsFiniteSet(ToWrite) /\ Len(revs) + Cardinality(ToWrite) <= asked
    /\ keys \in Nat /\ IsFiniteSet(ToUpload) /\ keys + Cardinality(ToUpload) <= asked
    /\ free \in Nat /\ IsFiniteSet(Holding) /\ free + Cardinality(Holding) = Conns

HasLatest(p) == \E r \in History(p) : \A s \in History(p) : s <= r

\* A listed page has a text, and a path of its own; no number is used twice.
PagesInv ==
    /\ \A p \in PageIds : pathOf[p] # None => p <= pages /\ HasLatest(p)
    /\ \A p, q \in PageIds : pathOf[p] = pathOf[q] => p = q \/ pathOf[p] = None
    /\ \A r \in DOMAIN revs : revs[r].page <= pages
    /\ \A w \in Writers : id[w] <= pages

Creating(w) == pc[w] = "write" /\ seen[w] = 0
Editing(w)  == pc[w] \in {"access", "compare"} \/ (pc[w] = "write" /\ seen[w] # 0)

\* A save that creates has path and number for itself; one that edits has the
\* row's lock, and has seen the last revision.
SaveInv(w) ==
    /\ pc[w] = "idle" \/ pc[w] \in Saving \ {"write"} => seen[w] = 0
    /\ pc[w] = "insert" \/ Creating(w) => req[w].base \in {Any, 0}
    /\ Creating(w) =>
          /\ id[w] \in PageIds /\ pathOf[id[w]] = None /\ History(id[w]) = {}
          /\ pending[req[w].path] = w /\ PageAt(req[w].path) = {}
          /\ \A v \in Writers \ {w} : id[v] # id[w]
    /\ Editing(w) => id[w] \in PageIds /\ lock[id[w]] = w /\ pathOf[id[w]] # None
    /\ Editing(w) /\ pc[w] = "write" =>
          /\ seen[w] \in History(id[w]) /\ \A s \in History(id[w]) : s <= seen[w]
          /\ req[w].base \in {Any, seen[w]}

SavesInv == \A w \in Writers : SaveInv(w)

\* A listed file is in the storage until the deletion of its page has begun.
Detaching(w) == pc[w] \in {"remove", "sweep"} \/ (pc[w] = "allowed" /\ req[w].op = "detach")
Deleting(w)  == pc[w] \in {"apply", "query"} /\ req[w].op = "delete"
Recording(w) == pc[w] = "record" \/ (pc[w] = "query" /\ req[w].op = "attach")

FileInv(a) ==
    fileOf[a] # 0 =>
        /\ a <= keys /\ pathOf[fileOf[a]] # None
        /\ a \in stored \/ \E w \in Writers : Deleting(w) /\ id[w] = fileOf[a]

\* A file about to be recorded is nobody else's; one to be removed was recorded once.
HandInv(w) ==
    /\ Recording(w) => seen[w] \in stored /\ fileOf[seen[w]] = 0
    /\ Recording(w) =>
          \A v \in Writers \ {w} : Recording(v) \/ Detaching(v) => seen[v] # seen[w]
    /\ Detaching(w) => seen[w] \in 1 .. keys
    /\ pc[w] = "sweep" => fileOf[seen[w]] = 0
    /\ pc[w] \in {"allowed", "target", "objects", "apply", "query", "rules", "upload", "record"}
          => id[w] \in PageIds

FilesInv ==
    /\ stored \subseteq 1 .. keys
    /\ \A a \in Files : FileInv(a)
    /\ \A w \in Writers : HandInv(w)

HistoryInv ==
    \A r \in DOMAIN revs :
        /\ revs[r].base \notin {Any, 0} =>
              revs[r].base \in 1 .. r - 1 /\ revs[revs[r].base].page = revs[r].page
        /\ \A s \in 1 .. r - 1 : revs[s].page = revs[r].page =>
              revs[r].base = Any \/ (revs[r].base # 0 /\ s <= revs[r].base)

WikiInv ==
    /\ TablesInv /\ RequestsInv /\ HandlersInv /\ CountsInv
    /\ PagesInv /\ SavesInv /\ FilesInv /\ HistoryInv

----------------------------------------------------------------------------
(* The helpers.                                                            *)

\* The bounds are numbers, and None is no path and nobody.
LEMMA Bounds ==
    /\ Conns \in Nat /\ MaxRequests \in Nat
    /\ None \notin Paths /\ None \notin Writers
    /\ Ops \subseteq {"save", "delete", "rename", "attach", "detach", "permit"}
  BY WikiConstants DEF Handlers

\* The page of an idle request's NoRequest is a request like the others.
LEMMA NoRequestType == NoRequest \in Requests
  <1>1. PICK o \in Ops, x \in Paths, c \in Contents, t \in Titles : TRUE
    BY WikiConstants
  <1>2. [op |-> o, path |-> x, base |-> Any, content |-> c, title |-> t, dest |-> x]
           \in Requests
    BY <1>1 DEF Requests
  <1>3. \E r \in Requests : r.base = Any
    BY <1>2
  <1> QED
    BY <1>3 DEF NoRequest

\* The parts of a request and of a revision.
LEMMA Parts ==
    /\ \A r \in Requests : /\ r.op \in Ops /\ r.path \in Paths /\ r.content \in Contents
                           /\ r.title \in Titles /\ r.dest \in Paths
                           /\ r.base \in {Any, 0} \union RevIds
    /\ \A r \in Revisions : /\ r.page \in PageIds /\ r.content \in Contents
                            /\ r.base \in {Any, 0} \union RevIds
  BY DEF Requests, Revisions

\* A set counted against a bound grows with the bound, and gives up a member for a number.
LEMMA Counted ==
    ASSUME NEW S, IsFiniteSet(S), NEW n \in Nat, NEW k \in Nat, n + Cardinality(S) <= k
    PROVE  /\ \A w : IsFiniteSet(S \union {w}) /\ n + Cardinality(S \union {w}) <= k + 1
           /\ \A w : IsFiniteSet(S \ {w}) /\ n + Cardinality(S \ {w}) <= k
           /\ \A w \in S : n + 1 + Cardinality(S \ {w}) <= k /\ n + 1 <= k
           /\ n <= k
  <1>1. Cardinality(S) \in Nat
    BY FS_CardinalityType
  <1>2. ASSUME NEW w
        PROVE  IsFiniteSet(S \union {w}) /\ n + Cardinality(S \union {w}) <= k + 1
    <2>1. /\ IsFiniteSet(S \union {w})
          /\ Cardinality(S \union {w}) = IF w \in S THEN Cardinality(S) ELSE Cardinality(S) + 1
      BY FS_AddElement
    <2> QED
      BY <1>1, <2>1
  <1>3. ASSUME NEW w
        PROVE  /\ IsFiniteSet(S \ {w}) /\ Cardinality(S \ {w}) \in Nat
               /\ Cardinality(S \ {w}) = IF w \in S THEN Cardinality(S) - 1 ELSE Cardinality(S)
    <2>1. /\ IsFiniteSet(S \ {w})
          /\ Cardinality(S \ {w}) = IF w \in S THEN Cardinality(S) - 1 ELSE Cardinality(S)
      BY FS_RemoveElement
    <2> QED
      BY <2>1, FS_CardinalityType
  <1>4. ASSUME NEW w
        PROVE  IsFiniteSet(S \ {w}) /\ n + Cardinality(S \ {w}) <= k
    <2>1. /\ IsFiniteSet(S \ {w}) /\ Cardinality(S \ {w}) \in Nat
          /\ Cardinality(S \ {w}) <= Cardinality(S)
      BY <1>1, <1>3
    <2> QED
      BY <1>1, <2>1
  <1>5. ASSUME NEW w \in S
        PROVE  n + 1 + Cardinality(S \ {w}) <= k /\ n + 1 <= k
    BY <1>1, <1>3
  <1>6. n <= k
    BY <1>1
  <1> QED
    BY <1>2, <1>4, <1>5, <1>6

\* Whoever asks is counted; whoever is counted may take a number, and is counted no more.
GoesOn(w, S, T, n, m, k, j) ==
    /\ T = S \union {w} \/ T = S \ {w}
    /\ \/ m = n /\ j = k + 1
       \/ m = n /\ j = k /\ (w \in S \/ T = S \ {w})
       \/ m = n + 1 /\ j = k /\ w \in S /\ T = S \ {w}

\* Then the bound that grows with whoever asks holds on.
LEMMA CountGoesOn ==
    ASSUME NEW S, IsFiniteSet(S), NEW n \in Nat, NEW k \in Nat, n + Cardinality(S) <= k,
           NEW w, NEW T, NEW m, NEW j, GoesOn(w, S, T, n, m, k, j)
    PROVE  m \in Nat /\ IsFiniteSet(T) /\ m + Cardinality(T) <= j
  <1> USE DEF GoesOn
  <1>1. Cardinality(S) \in Nat
    BY FS_CardinalityType
  <1>2. /\ IsFiniteSet(S \union {w}) /\ n + Cardinality(S \union {w}) <= k + 1
        /\ IsFiniteSet(S \ {w}) /\ n + Cardinality(S \ {w}) <= k
        /\ w \in S => n + 1 + Cardinality(S \ {w}) <= k
    BY Counted
  <1>3. Cardinality(S \ {w}) \in Nat
    BY <1>2, FS_CardinalityType
  <1>4. CASE T = S \ {w}
    BY <1>2, <1>3, <1>4
  <1>5. CASE T = S \union {w} /\ T # S \ {w}
    <2>1. m = n /\ (j = k + 1 \/ (j = k /\ w \in S))
      BY <1>5
    <2>2. w \in S => T = S
      BY <1>5
    <2> QED
      BY <1>2, <1>5, <2>1, <2>2
  <1> QED
    BY <1>4, <1>5

\* What is taken from a pool is counted, and given back.
LEMMA PoolGoesOn ==
    ASSUME NEW S, IsFiniteSet(S), NEW n \in Nat, NEW k \in Nat, n + Cardinality(S) = k,
           NEW w, NEW T, NEW m,
           \/ m = n /\ T = S
           \/ m = n - 1 /\ n > 0 /\ w \notin S /\ T = S \union {w}
           \/ m = n + 1 /\ w \in S /\ T = S \ {w}
    PROVE  m \in Nat /\ IsFiniteSet(T) /\ m + Cardinality(T) = k
  <1>1. Cardinality(S) \in Nat
    BY FS_CardinalityType
  <1>2. CASE m = n /\ T = S
    BY <1>1, <1>2
  <1>3. CASE m = n - 1 /\ n > 0 /\ w \notin S /\ T = S \union {w}
    <2>1. IsFiniteSet(S \union {w}) /\ Cardinality(S \union {w}) = Cardinality(S) + 1
      BY <1>3, FS_AddElement
    <2> QED
      BY <1>1, <1>3, <2>1
  <1>4. CASE m = n + 1 /\ w \in S /\ T = S \ {w}
    <2>1. IsFiniteSet(S \ {w}) /\ Cardinality(S \ {w}) = Cardinality(S) - 1
      BY <1>4, FS_RemoveElement
    <2> QED
      BY <1>1, <1>4, <2>1
  <1> QED
    BY <1>2, <1>3, <1>4

\* The last revision of a page that has one.
LEMMA LatestIs ==
    ASSUME NEW p, HasLatest(p)
    PROVE  Latest(p) \in History(p) /\ \A s \in History(p) : s <= Latest(p)
  <1>1. \E r \in DOMAIN revs :
           revs[r].page = p /\ \A s \in DOMAIN revs : revs[s].page = p => s <= r
    BY DEF HasLatest, History
  <1>2. /\ Latest(p) \in DOMAIN revs /\ revs[Latest(p)].page = p
        /\ \A s \in DOMAIN revs : revs[s].page = p => s <= Latest(p)
    BY <1>1 DEF Latest
  <1> QED
    BY <1>2 DEF History

\* There is a number left for whoever is about to create a page, a revision or a file.
LEMMA Room ==
    ASSUME TablesInv, RequestsInv, HandlersInv, CountsInv
    PROVE  /\ asked \in Nat /\ asked <= MaxRequests
           /\ pages \in 0 .. MaxRequests /\ keys \in 0 .. MaxRequests
           /\ Len(revs) \in 0 .. MaxRequests /\ DOMAIN revs = 1 .. Len(revs)
           /\ \A w \in Writers :
                 /\ pc[w] = "insert" => pages + 1 \in PageIds
                 /\ pc[w] = "write" => Len(revs) + 1 \in RevIds
                 /\ pc[w] = "upload" => keys + 1 \in Files
  <1>1. asked \in Nat /\ asked <= MaxRequests /\ MaxRequests \in Nat
    BY Bounds DEF RequestsInv
  <1>2. revs \in Seq(Revisions)
    BY DEF TablesInv
  <1>3. Len(revs) \in Nat /\ DOMAIN revs = 1 .. Len(revs)
    BY <1>2
  <1>4. pages \in Nat /\ pages <= asked /\ \A w \in ToInsert : pages + 1 <= asked
    BY <1>1, Counted DEF CountsInv
  <1>5. Len(revs) <= asked /\ \A w \in ToWrite : Len(revs) + 1 <= asked
    BY <1>1, <1>3, Counted DEF CountsInv
  <1>6. keys \in Nat /\ keys <= asked /\ \A w \in ToUpload : keys + 1 <= asked
    BY <1>1, Counted DEF CountsInv
  <1>7. \A w \in Writers : /\ pc[w] = "insert" => w \in ToInsert
                           /\ pc[w] = "write" => w \in ToWrite
                           /\ pc[w] = "upload" => w \in ToUpload
    BY DEF ToInsert, ToWrite, ToUpload, Saving, HandlersInv
  <1> QED
    BY <1>1, <1>3, <1>4, <1>5, <1>6, <1>7 DEF PageIds, RevIds, Files

----------------------------------------------------------------------------
(* What the queries do to the requests and to the tables.                  *)

\* The request makes the query c next; it is about r, and has found i and s.
Moved(w, c, r, i, s) ==
    /\ pc' \in [Writers -> Calls] /\ req' \in [Writers -> Requests]
    /\ id' \in [Writers -> 0 .. MaxRequests] /\ seen' \in [Writers -> 0 .. MaxRequests]
    /\ pc'[w] = c /\ req'[w] = r /\ id'[w] = i /\ seen'[w] = s
    /\ \A v \in Writers \ {w} : /\ pc'[v] = pc[v] /\ req'[v] = req[v]
                                /\ id'[v] = id[v] /\ seen'[v] = seen[v]

Went(w, c) == Moved(w, c, req[w], id[w], seen[w])
Ended(w)   == Moved(w, "idle", NoRequest, 0, 0)

\* That is what an assignment to each does.
LEMMA Moves ==
    ASSUME RequestsInv, NEW w \in Writers, NEW c \in Calls, pc' = [pc EXCEPT ![w] = c]
    PROVE  /\ UNCHANGED <<req, id, seen>> => Went(w, c)
           /\ \A r \in Requests : req' = [req EXCEPT ![w] = r] /\ UNCHANGED <<id, seen>> =>
                 Moved(w, c, r, id[w], seen[w])
           /\ \A i \in 0 .. MaxRequests : id' = [id EXCEPT ![w] = i] /\ UNCHANGED <<req, seen>> =>
                 Moved(w, c, req[w], i, seen[w])
           /\ \A s \in 0 .. MaxRequests : seen' = [seen EXCEPT ![w] = s] /\ UNCHANGED <<req, id>> =>
                 Moved(w, c, req[w], id[w], s)
           /\ \A i, s \in 0 .. MaxRequests :
                 id' = [id EXCEPT ![w] = i] /\ seen' = [seen EXCEPT ![w] = s] /\ req' = req =>
                     Moved(w, c, req[w], i, s)
           /\ \A r \in Requests, i, s \in 0 .. MaxRequests :
                 req' = [req EXCEPT ![w] = r] /\ id' = [id EXCEPT ![w] = i]
                     /\ seen' = [seen EXCEPT ![w] = s] => Moved(w, c, r, i, s)
  BY DEF RequestsInv, Moved, Went

\* What a step leaves as it is.
SamePages == pathOf' = pathOf /\ pages' = pages /\ revs' = revs
SameLocks == lock' = lock /\ pending' = pending
SameFiles == fileOf' = fileOf /\ keys' = keys /\ stored' = stored
SamePool  == free' = free /\ asked' = asked

Released(w) == lock' = [p \in PageIds |-> IF lock[p] = w THEN None ELSE lock[p]]

Arrived(w) ==
    /\ pc[w] = "idle" /\ asked < MaxRequests /\ asked' = asked + 1
    /\ \E r \in Requests, c \in Calls :
        /\ \/ r.op = "save" /\ c = "begin"
           \/ r.op = "detach" /\ c = "find"
           \/ r.op \in {"delete", "rename", "attach", "permit"} /\ c = "look"
        /\ Moved(w, c, r, id[w], seen[w])
    /\ SamePages /\ SameLocks /\ SameFiles /\ free' = free

\* A query that only answers.
Answered(w) ==
    /\ \/ pc[w] = "lock" /\ req[w].base \in {Any, 0} /\ Went(w, "insert")
       \/ pc[w] = "access" /\ Went(w, "compare")
       \/ pc[w] = "allowed" /\ req[w].op = "delete" /\ Went(w, "objects")
       \/ pc[w] = "allowed" /\ req[w].op = "rename" /\ Went(w, "target")
       \/ pc[w] = "allowed" /\ req[w].op = "attach" /\ Went(w, "upload")
       \/ pc[w] = "allowed" /\ req[w].op = "detach" /\ Went(w, "remove")
       \/ pc[w] = "target" /\ Went(w, "apply")
       \/ pc[w] = "query" /\ req[w].op = "permit" /\ Went(w, "rules")
       \/ pc[w] \in {"look", "allowed", "target", "upload", "find"} /\ Ended(w)
    /\ SamePages /\ SameLocks /\ SameFiles /\ SamePool

Began(w) ==
    /\ pc[w] = "begin" /\ free > 0 /\ Went(w, "lock")
    /\ SamePages /\ SameLocks /\ SameFiles /\ free' = free - 1 /\ asked' = asked

Locked(w) ==
    /\ pc[w] = "lock"
    /\ \E p \in PageAt(req[w].path) :
        /\ lock[p] = None /\ lock' = [lock EXCEPT ![p] = w]
        /\ Moved(w, "access", req[w], p, seen[w])
    /\ SamePages /\ pending' = pending /\ SameFiles /\ SamePool

RolledBack(w) ==
    /\ pc[w] \in {"lock", "insert", "access", "compare"} /\ Ended(w) /\ Released(w)
    /\ SamePages /\ pending' = pending /\ SameFiles /\ free' = free + 1 /\ asked' = asked

Inserted(w) ==
    /\ pc[w] = "insert" /\ pending[req[w].path] = None /\ PageAt(req[w].path) = {}
    /\ pages' = pages + 1 /\ pending' = [pending EXCEPT ![req[w].path] = w]
    /\ Moved(w, "write", req[w], pages + 1, seen[w])
    /\ pathOf' = pathOf /\ revs' = revs /\ lock' = lock /\ SameFiles /\ SamePool

Compared(w) ==
    /\ pc[w] = "compare" /\ req[w].base \in {Any, Latest(id[w])}
    /\ Moved(w, "write", req[w], id[w], Latest(id[w]))
    /\ SamePages /\ SameLocks /\ SameFiles /\ SamePool

NewRow(w) == [page |-> id[w], content |-> req[w].content, base |-> req[w].base]
Committed(w) ==
    /\ pc[w] = "write" /\ Ended(w) /\ Released(w)
    /\ \/ revs' = Append(revs, NewRow(w))
       \/ revs' = revs /\ ~Creating(w)
    /\ \/ Creating(w) /\ pathOf' = [pathOf EXCEPT ![id[w]] = req[w].path]
       \/ ~Creating(w) /\ pathOf' = pathOf
    /\ pending' = [x \in Paths |-> IF pending[x] = w THEN None ELSE pending[x]]
    /\ pages' = pages /\ SameFiles /\ free' = free + 1 /\ asked' = asked

Found(w) ==
    /\ pc[w] = "look"
    /\ \E p \in PageAt(req[w].path) :
        \/ req[w].op # "permit" /\ Moved(w, "allowed", req[w], p, seen[w])
        \/ req[w].op = "permit" /\ Moved(w, "apply", req[w], p, seen[w])
    /\ SamePages /\ SameLocks /\ SameFiles /\ SamePool

Queried(w) ==
    /\ pc[w] \in {"apply", "record"} /\ free > 0 /\ Went(w, "query")
    /\ SamePages /\ SameLocks /\ SameFiles /\ free' = free - 1 /\ asked' = asked

Permitted(w) ==
    /\ pc[w] \in {"query", "rules"} /\ req[w].op = "permit" /\ Ended(w)
    /\ SamePages /\ SameLocks /\ SameFiles /\ free' = free + 1 /\ asked' = asked

ObjectsRemoved(w) ==
    /\ pc[w] = "objects" /\ Went(w, "apply")
    /\ \E gone \in SUBSET Attached(id[w]) : stored' = stored \ gone
    /\ SamePages /\ SameLocks /\ fileOf' = fileOf /\ keys' = keys /\ SamePool

Deleted(w) ==
    /\ pc[w] = "query" /\ Deleting(w) /\ lock[id[w]] = None /\ Ended(w)
    /\ pathOf' = [pathOf EXCEPT ![id[w]] = None]
    /\ fileOf' = [a \in Files |-> IF fileOf[a] = id[w] THEN 0 ELSE fileOf[a]]
    /\ pages' = pages /\ revs' = revs /\ SameLocks /\ keys' = keys /\ stored' = stored
    /\ free' = free + 1 /\ asked' = asked

Renamed(w) ==
    /\ pc[w] = "query" /\ req[w].op = "rename" /\ Ended(w) /\ pending[req[w].dest] = None
    /\ \/ pathOf' = pathOf
       \/ /\ pathOf[id[w]] # None /\ PageAt(req[w].dest) \ {id[w]} = {}
          /\ pathOf' = [pathOf EXCEPT ![id[w]] = req[w].dest]
    /\ pages' = pages /\ revs' = revs /\ SameLocks /\ SameFiles
    /\ free' = free + 1 /\ asked' = asked

Uploaded(w) ==
    /\ pc[w] = "upload" /\ Moved(w, "record", req[w], id[w], keys + 1)
    /\ keys' = keys + 1 /\ stored' = stored \union {keys + 1}
    /\ SamePages /\ SameLocks /\ fileOf' = fileOf /\ SamePool

Recorded(w) ==
    /\ pc[w] = "query" /\ Recording(w) /\ Ended(w)
    /\ \/ pathOf[id[w]] = None /\ fileOf' = fileOf
       \/ pathOf[id[w]] # None /\ fileOf' = [fileOf EXCEPT ![seen[w]] = id[w]]
    /\ SamePages /\ SameLocks /\ keys' = keys /\ stored' = stored
    /\ free' = free + 1 /\ asked' = asked

FileFound(w) ==
    /\ pc[w] = "find"
    /\ \E a \in Files : fileOf[a] # 0 /\ Moved(w, "allowed", req[w], fileOf[a], a)
    /\ SamePages /\ SameLocks /\ SameFiles /\ SamePool

FileRemoved(w) ==
    /\ pc[w] = "remove" /\ Went(w, "sweep") /\ fileOf' = [fileOf EXCEPT ![seen[w]] = 0]
    /\ SamePages /\ SameLocks /\ keys' = keys /\ stored' = stored /\ SamePool

Swept(w) ==
    /\ pc[w] = "sweep" /\ Ended(w) /\ stored' \in {stored, stored \ {seen[w]}}
    /\ SamePages /\ SameLocks /\ fileOf' = fileOf /\ keys' = keys /\ SamePool

\* Nothing at all.
Nothing ==
    /\ pc' = pc /\ req' = req /\ id' = id /\ seen' = seen
    /\ SamePages /\ SameLocks /\ SameFiles /\ SamePool

Effect(w) ==
    \/ Arrived(w) \/ Answered(w) \/ Began(w) \/ Locked(w) \/ RolledBack(w) \/ Inserted(w)
    \/ Compared(w) \/ Committed(w) \/ Found(w) \/ ObjectsRemoved(w) \/ Deleted(w)
    \/ Renamed(w) \/ Uploaded(w) \/ Recorded(w) \/ FileFound(w) \/ FileRemoved(w) \/ Swept(w)
    \/ Queried(w) \/ Permitted(w)

\* Every step of a request has one of the effects.
LEMMA Effects ==
    ASSUME TablesInv, RequestsInv, HandlersInv, CountsInv, PagesInv, SavesInv,
           NEW w \in Writers, Request(w) \/ Step(w)
    PROVE  Effect(w)
  <1>0. /\ \A c \in {"idle", "begin", "find", "look", "lock", "insert", "access", "compare",
                      "write", "allowed", "objects", "target", "upload", "remove", "apply",
                      "query", "rules", "record", "sweep"} : c \in Calls
        /\ 0 \in 0 .. MaxRequests /\ NoRequest \in Requests
        /\ \A p \in PageIds : p \in 0 .. MaxRequests
    BY Bounds, NoRequestType DEF Calls, PageIds
  <1> USE DEF SamePages, SameLocks, SameFiles, SamePool
  <1>1. /\ Goto(w, "lock") => Went(w, "lock") /\ asked' = asked
        /\ Goto(w, "insert") => Went(w, "insert") /\ asked' = asked
        /\ Goto(w, "compare") => Went(w, "compare") /\ asked' = asked
        /\ Goto(w, "objects") => Went(w, "objects") /\ asked' = asked
        /\ Goto(w, "target") => Went(w, "target") /\ asked' = asked
        /\ Goto(w, "upload") => Went(w, "upload") /\ asked' = asked
        /\ Goto(w, "remove") => Went(w, "remove") /\ asked' = asked
        /\ Goto(w, "apply") => Went(w, "apply") /\ asked' = asked
        /\ Goto(w, "sweep") => Went(w, "sweep") /\ asked' = asked
        /\ Goto(w, "query") => Went(w, "query") /\ asked' = asked
        /\ Goto(w, "rules") => Went(w, "rules") /\ asked' = asked
    <2>1. \A c \in Calls : Goto(w, c) => Went(w, c) /\ asked' = asked
      BY Moves, Zenon DEF Goto
    <2> QED
      BY <1>0, <2>1
  <1>2. Done(w) => Ended(w) /\ asked' = asked
    BY <1>0, Moves DEF Done, Ended
  <1>3. \A i \in PageIds : id' = [id EXCEPT ![w] = i] /\ UNCHANGED <<req, seen>> =>
           /\ pc' = [pc EXCEPT ![w] = "access"] => Moved(w, "access", req[w], i, seen[w])
           /\ pc' = [pc EXCEPT ![w] = "allowed"] => Moved(w, "allowed", req[w], i, seen[w])
           /\ pc' = [pc EXCEPT ![w] = "apply"] => Moved(w, "apply", req[w], i, seen[w])
           /\ pc' = [pc EXCEPT ![w] = "write"] => Moved(w, "write", req[w], i, seen[w])
    BY <1>0, Moves
  <1>4. \A s \in PageIds : seen' = [seen EXCEPT ![w] = s] /\ UNCHANGED <<req, id>> =>
           /\ pc' = [pc EXCEPT ![w] = "write"] => Moved(w, "write", req[w], id[w], s)
           /\ pc' = [pc EXCEPT ![w] = "record"] => Moved(w, "record", req[w], id[w], s)
    BY <1>0, Moves
  <1>7. \A x : \A p \in PageAt(x) : p \in PageIds
    BY DEF PageAt
  <1>5. Rollback(w) => /\ Ended(w) /\ Released(w) /\ SamePages /\ pending' = pending /\ SameFiles
                       /\ free' = free + 1 /\ asked' = asked
    BY <1>2, Zenon DEF Rollback, Released, fileVars
  <1>6. UNCHANGED dbVars => SamePages /\ SameLocks /\ SameFiles
    BY Zenon DEF dbVars, pageVars, fileVars
  <1>10. CASE Request(w)
    <2>1. /\ pc[w] = "idle" /\ asked < MaxRequests /\ asked' = asked + 1
          /\ SamePages /\ SameLocks /\ SameFiles /\ free' = free /\ id' = id /\ seen' = seen
      BY <1>6, <1>10, Zenon DEF Request
    <2>2. PICK r \in Requests :
             /\ req' = [req EXCEPT ![w] = r]
             /\ pc' = [pc EXCEPT ![w] = CASE r.op = "save" -> "begin"
                                               [] r.op = "detach" -> "find"
                                               [] OTHER -> "look"]
      BY <1>10, Zenon DEF Request
    <2>3. r.op \in {"save", "delete", "rename", "attach", "detach", "permit"}
      BY Parts, Bounds
    <2>4. PICK c \in Calls :
             /\ \/ r.op = "save" /\ c = "begin"
                \/ r.op = "detach" /\ c = "find"
                \/ r.op \in {"delete", "rename", "attach", "permit"} /\ c = "look"
             /\ pc' = [pc EXCEPT ![w] = c]
      <3>1. "begin" \in Calls /\ "find" \in Calls /\ "look" \in Calls
        BY DEF Calls
      <3>2. CASE r.op = "save"
        BY <2>2, <3>1, <3>2
      <3>3. CASE r.op = "detach"
        BY <2>2, <3>1, <3>3
      <3>4. CASE r.op \in {"delete", "rename", "attach", "permit"}
        BY <2>2, <3>1, <3>4
      <3> QED
        BY <2>3, <3>2, <3>3, <3>4
    <2>5. Moved(w, c, r, id[w], seen[w])
      BY <2>1, <2>2, <2>4, Moves
    <2> QED
      BY <2>1, <2>4, <2>5 DEF Effect, Arrived
  <1>11. CASE Begin(w)
    BY <1>1, <1>6, <1>11, Zenon DEF Begin, Effect, Began
  <1>12. CASE LockPage(w)
    <2>1. CASE Rollback(w)
      BY <1>5, <1>12, <2>1, Zenon DEF LockPage, Effect, RolledBack
    <2>2. CASE /\ req[w].base \in {Any, 0} /\ Goto(w, "insert") /\ UNCHANGED <<dbVars, free>>
      BY <1>1, <1>6, <1>12, <2>2, Zenon DEF LockPage, Effect, Answered
    <2>3. CASE \E p \in PageAt(req[w].path) :
                  /\ lock[p] = None /\ lock' = [lock EXCEPT ![p] = w]
                  /\ id' = [id EXCEPT ![w] = p] /\ pc' = [pc EXCEPT ![w] = "access"]
                  /\ UNCHANGED <<pathOf, titleOf, writable, pages, revs, pending, fileVars,
                                 req, seen, free, asked>>
      BY <1>3, <1>7, <1>12, <2>3, Zenon DEF LockPage, Effect, Locked, fileVars
    <2> QED
      BY <1>12, <2>1, <2>2, <2>3, Zenon DEF LockPage
  <1>13. CASE InsertPage(w)
    <2>1. CASE Rollback(w)
      BY <1>5, <1>13, <2>1, Zenon DEF InsertPage, Effect, RolledBack
    <2>2. CASE ~Rollback(w)
      <3>1. pages + 1 \in PageIds
        BY <1>13, Room DEF InsertPage
      <3> QED
        BY <1>3, <1>13, <2>2, <3>1, Zenon DEF InsertPage, Effect, Inserted, fileVars
    <2> QED
      BY <2>1, <2>2
  <1>14. CASE CheckAccess(w)
    <2>1. CASE Rollback(w)
      BY <1>5, <1>14, <2>1, Zenon DEF CheckAccess, Effect, RolledBack
    <2>2. CASE ~Rollback(w)
      BY <1>1, <1>6, <1>14, <2>2, Zenon DEF CheckAccess, Effect, Answered
    <2> QED
      BY <2>1, <2>2
  <1>15. CASE CompareBase(w)
    <2>1. CASE Rollback(w)
      BY <1>5, <1>15, <2>1, Zenon DEF CompareBase, Effect, RolledBack
    <2>2. CASE ~Rollback(w)
      <3>1. pc[w] = "compare"
        BY <1>15 DEF CompareBase
      <3>2. HasLatest(id[w])
        BY <3>1 DEF SavesInv, SaveInv, Editing, PagesInv
      <3>3. Latest(id[w]) \in PageIds
        <4>1. Latest(id[w]) \in DOMAIN revs
          BY <3>2, LatestIs DEF History
        <4>2. DOMAIN revs = 1 .. Len(revs) /\ Len(revs) \in 0 .. MaxRequests
          BY Room
        <4> QED
          BY <4>1, <4>2, Bounds DEF PageIds
      <3> QED
        BY <1>4, <1>6, <1>15, <2>2, <3>3, Zenon
        DEF CompareBase, BaseIsCurrent, Effect, Compared
    <2> QED
      BY <2>1, <2>2
  <1>16. CASE WriteAndCommit(w)
    BY <1>2, <1>16, Zenon DEF WriteAndCommit, NewRevision, NewRow, Released, Creating, Effect,
       Committed, fileVars
  <1>17. CASE LookUp(w)
    <2>1. CASE Done(w)
      BY <1>2, <1>6, <1>17, <2>1, Zenon DEF LookUp, Effect, Answered
    <2>2. CASE ~Done(w)
      <3>1. /\ pc[w] = "look" /\ UNCHANGED <<dbVars, free>>
            /\ \E p \in PageAt(req[w].path) :
                  /\ id' = [id EXCEPT ![w] = p] /\ UNCHANGED <<req, seen, asked>>
                  /\ pc' = [pc EXCEPT ![w] = IF req[w].op = "permit" THEN "apply" ELSE "allowed"]
        BY <1>17, <2>2, Zenon DEF LookUp
      <3>2. CASE req[w].op = "permit"
        BY <1>3, <1>6, <1>7, <3>1, <3>2, Zenon DEF Effect, Found
      <3>3. CASE req[w].op # "permit"
        BY <1>3, <1>6, <1>7, <3>1, <3>3, Zenon DEF Effect, Found
      <3> QED
        BY <3>2, <3>3
    <2> QED
      BY <2>1, <2>2
  <1>18. CASE CheckWrite(w)
    <2>0. pc[w] = "allowed" /\ SamePages /\ SameLocks /\ SameFiles /\ free' = free
      BY <1>6, <1>18, Zenon DEF CheckWrite
    <2>1. CASE Done(w)
      BY <1>2, <2>0, <2>1, Zenon DEF Effect, Answered
    <2>2. CASE ~Done(w)
      <3>1. Goto(w, CASE req[w].op = "delete" -> "objects"
                      [] req[w].op = "rename" -> "target"
                      [] req[w].op = "attach" -> "upload"
                      [] req[w].op = "detach" -> "remove")
        BY <1>18, <2>2, Zenon DEF CheckWrite
      <3>2. req[w].op \in {"delete", "rename", "attach", "detach"}
        BY <2>0 DEF HandlersInv
      <3>3. \/ req[w].op = "delete" /\ Goto(w, "objects")
            \/ req[w].op = "rename" /\ Goto(w, "target")
            \/ req[w].op = "attach" /\ Goto(w, "upload")
            \/ req[w].op = "detach" /\ Goto(w, "remove")
        BY <3>1, <3>2
      <3> QED
        BY <1>1, <2>0, <3>3, Zenon DEF Effect, Answered
    <2> QED
      BY <2>1, <2>2
  <1>19. CASE CheckTarget(w)
    BY <1>1, <1>2, <1>6, <1>19, Zenon DEF CheckTarget, Effect, Answered
  <1>20. CASE RemoveObjects(w)
    BY <1>1, <1>20, Zenon DEF RemoveObjects, Effect, ObjectsRemoved, pageVars
  <1>21. CASE DeletePage(w)
    BY <1>2, <1>21, Zenon DEF DeletePage, Effect, Deleted, Deleting
  <1>22. CASE RenamePage(w)
    BY <1>2, <1>22, Zenon DEF RenamePage, Effect, Renamed, fileVars
  <1>23. CASE Upload(w)
    <2>1. /\ pc[w] = "upload" /\ SamePages /\ SameLocks /\ free' = free
          /\ \/ Done(w) /\ SameFiles
             \/ /\ keys' = keys + 1 /\ stored' = stored \union {keys + 1} /\ fileOf' = fileOf
                /\ seen' = [seen EXCEPT ![w] = keys + 1] /\ pc' = [pc EXCEPT ![w] = "record"]
                /\ UNCHANGED <<req, id>> /\ asked' = asked
      BY <1>23, Zenon DEF Upload, pageVars, fileVars
    <2>2. CASE Done(w) /\ SameFiles
      BY <1>2, <2>1, <2>2, Zenon DEF Effect, Answered
    <2>3. CASE ~(Done(w) /\ SameFiles)
      <3>1. keys + 1 \in PageIds
        BY <2>1, Room DEF PageIds, Files
      <3> QED
        BY <1>4, <2>1, <2>3, <3>1, Zenon DEF Effect, Uploaded
    <2> QED
      BY <2>2, <2>3
  <1>24. CASE RecordFile(w)
    BY <1>2, <1>24, Zenon DEF RecordFile, Effect, Recorded, Recording, pageVars
  <1>25. CASE FindFile(w)
    <2>1. CASE Done(w)
      BY <1>2, <1>6, <1>25, <2>1, Zenon DEF FindFile, Effect, Answered
    <2>2. CASE ~Done(w)
      <3>1. PICK a \in Files :
               /\ fileOf[a] # 0 /\ pc' = [pc EXCEPT ![w] = "allowed"]
               /\ id' = [id EXCEPT ![w] = fileOf[a]] /\ seen' = [seen EXCEPT ![w] = a]
               /\ UNCHANGED <<req, asked>>
        BY <1>25, <2>2, Zenon DEF FindFile
      <3>2. Moved(w, "allowed", req[w], fileOf[a], a)
        <4>1. fileOf[a] \in 0 .. MaxRequests /\ a \in 0 .. MaxRequests
          BY <1>0 DEF TablesInv, Files, PageIds
        <4> QED
          BY <1>0, <3>1, <4>1, Moves
      <3> QED
        BY <1>6, <1>25, <3>1, <3>2, Zenon DEF FindFile, Effect, FileFound
    <2> QED
      BY <2>1, <2>2
  <1>26. CASE RemoveFile(w)
    BY <1>1, <1>26, Zenon DEF RemoveFile, Effect, FileRemoved, pageVars
  <1>27. CASE SweepObject(w)
    BY <1>2, <1>27, Zenon DEF SweepObject, Effect, Swept, pageVars
  <1>28. CASE Acquire(w)
    BY <1>1, <1>6, <1>28, Zenon DEF Acquire, Effect, Queried
  <1>29. CASE ClearRules(w)
    <2>1. /\ pc[w] = "query" /\ req[w].op = "permit" /\ SamePages /\ SameLocks /\ SameFiles
          /\ \/ Goto(w, "rules") /\ free' = free
             \/ free' = free + 1 /\ Done(w)
      BY <1>29, Zenon DEF ClearRules, fileVars
    <2> QED
      BY <1>1, <1>2, <2>1, Zenon DEF Effect, Answered, Permitted
  <1>30. CASE SetPermissions(w)
    <2>1. /\ pc[w] = "rules" /\ SamePages /\ SameLocks /\ SameFiles
          /\ free' = free + 1 /\ Done(w)
      BY <1>30, Zenon DEF SetPermissions, fileVars
    <2>2. req[w].op = "permit"
      BY <2>1 DEF HandlersInv
    <2> QED
      BY <1>2, <2>1, <2>2, Zenon DEF Effect, Permitted
  <1> QED
    BY <1>10, <1>11, <1>12, <1>13, <1>14, <1>15, <1>16, <1>17, <1>18, <1>19, <1>20, <1>21,
       <1>22, <1>23, <1>24, <1>25, <1>26, <1>27, <1>28, <1>29, <1>30, Zenon DEF Step

----------------------------------------------------------------------------
(* What the effects preserve.                                              *)

\* The tables keep their types.
LEMMA TablesStay ==
    ASSUME TablesInv, RequestsInv, HandlersInv, CountsInv, PagesInv, SavesInv, FilesInv,
           NEW w \in Writers, Request(w) \/ Step(w), Effect(w)
    PROVE  TablesInv'
  <1>0. /\ req[w] \in Requests /\ id[w] \in 0 .. MaxRequests /\ seen[w] \in 0 .. MaxRequests
        /\ NoRequest \in Requests /\ 0 \in 0 .. MaxRequests /\ w \in Writers \union {None}
        /\ None \in Writers \union {None} /\ None \in Paths \union {None}
    BY NoRequestType, Bounds DEF RequestsInv
  <1>1. req[w].path \in Paths /\ req[w].dest \in Paths /\ req[w].title \in Titles
    BY <1>0, Parts
  <1>2. titleOf' \in [PageIds -> Titles] /\ writable' \in SUBSET PageIds
    <2>1. titleOf' = titleOf \/ titleOf' = [titleOf EXCEPT ![id[w]] = req[w].title]
      BY Zenon DEF Request, Step, Begin, LockPage, InsertPage, CheckAccess, CompareBase,
         WriteAndCommit, LookUp, CheckWrite, CheckTarget, RemoveObjects, Acquire, DeletePage,
         RenamePage, Upload, RecordFile, FindFile, RemoveFile, SweepObject, ClearRules,
         SetPermissions, Rollback, dbVars, pageVars
    <2>2. CASE ClearRules(w) \/ SetPermissions(w)
      <3>1. id[w] \in PageIds
        BY <2>2 DEF ClearRules, SetPermissions, FilesInv, HandInv
      <3>2. \/ writable' = writable \/ writable' = writable \union {id[w]}
            \/ writable' = writable \ {id[w]}
        BY <2>2 DEF ClearRules, SetPermissions
      <3> QED
        BY <1>1, <2>1, <3>1, <3>2 DEF TablesInv
    <2>3. CASE ~(ClearRules(w) \/ SetPermissions(w))
      <3>1. writable' = writable
        BY <2>3, Zenon DEF Request, Step, Begin, LockPage, InsertPage, CheckAccess, CompareBase,
           WriteAndCommit, LookUp, CheckWrite, CheckTarget, RemoveObjects, Acquire, DeletePage,
           RenamePage, Upload, RecordFile, FindFile, RemoveFile, SweepObject, Rollback, dbVars,
           pageVars
      <3> QED
        BY <1>1, <2>1, <3>1 DEF TablesInv
    <2> QED
      BY <2>2, <2>3
  <1>3. pathOf' \in [PageIds -> Paths \union {None}]
    <2>1. \/ pathOf' = pathOf
          \/ \E x \in Paths \union {None} : pathOf' = [pathOf EXCEPT ![id[w]] = x]
      BY <1>0, <1>1, Zenon DEF Effect, Arrived, Answered, Began, Locked, RolledBack, Inserted,
         Compared, Committed, Queried, Permitted, Found, ObjectsRemoved, Deleted, Renamed,
         Uploaded, Recorded, FileFound, FileRemoved, Swept, SamePages
    <2> QED
      BY <2>1 DEF TablesInv
  <1>4. revs' \in Seq(Revisions)
    <2>1. revs' = revs \/ (revs' = Append(revs, NewRow(w)) /\ pc[w] = "write")
      BY DEF Effect, Arrived, Answered, Began, Locked, RolledBack, Inserted,
         Compared, Committed, Queried, Permitted, Found, ObjectsRemoved, Deleted, Renamed,
         Uploaded, Recorded, FileFound, FileRemoved, Swept, SamePages
    <2>2. pc[w] = "write" => NewRow(w) \in Revisions
      <3>1. pc[w] = "write" => id[w] \in PageIds
        BY DEF SavesInv, SaveInv, Creating, Editing
      <3>2. req[w].content \in Contents /\ req[w].base \in {Any, 0} \union RevIds
        BY <1>0, Parts
      <3> QED
        BY <3>1, <3>2 DEF NewRow, Revisions
    <2>3. revs \in Seq(Revisions)
      BY DEF TablesInv
    <2>4. CASE revs' = revs
      BY <2>3, <2>4
    <2>5. CASE revs' = Append(revs, NewRow(w)) /\ pc[w] = "write"
      BY <2>2, <2>3, <2>5
    <2> QED
      BY <2>1, <2>4, <2>5
  <1>5. /\ lock' \in [PageIds -> Writers \union {None}]
        /\ pending' \in [Paths -> Writers \union {None}]
    <2>1. /\ \/ lock' = lock \/ Released(w)
             \/ \E p \in PageIds : lock' = [lock EXCEPT ![p] = w]
          /\ \/ pending' = pending \/ pending' = [pending EXCEPT ![req[w].path] = w]
             \/ pending' = [x \in Paths |-> IF pending[x] = w THEN None ELSE pending[x]]
      <3>1. \A x : \A p \in PageAt(x) : p \in PageIds
        BY DEF PageAt
      <3> QED
        BY <3>1, Zenon DEF Effect, Arrived, Answered, Began, Locked, RolledBack, Inserted,
         Compared, Committed, Queried, Permitted, Found, ObjectsRemoved, Deleted, Renamed,
         Uploaded, Recorded, FileFound, FileRemoved, Swept, SameLocks
    <2> QED
      BY <1>0, <1>1, <2>1 DEF TablesInv, Released
  <1>6. fileOf' \in [Files -> 0 .. MaxRequests] /\ stored' \in SUBSET Files
    <2>1. /\ \/ fileOf' = fileOf \/ fileOf' = [fileOf EXCEPT ![seen[w]] = id[w]]
             \/ fileOf' = [fileOf EXCEPT ![seen[w]] = 0]
             \/ fileOf' = [a \in Files |-> IF fileOf[a] = id[w] THEN 0 ELSE fileOf[a]]
          /\ \/ stored' = stored \/ stored' = stored \ {seen[w]}
             \/ \E gone : stored' = stored \ gone
             \/ stored' = stored \union {keys + 1} /\ pc[w] = "upload"
      BY DEF Effect, Arrived, Answered, Began, Locked, RolledBack, Inserted,
         Compared, Committed, Queried, Permitted, Found, ObjectsRemoved, Deleted, Renamed,
         Uploaded, Recorded, FileFound, FileRemoved, Swept, SameFiles
    <2>2. pc[w] = "upload" => keys + 1 \in Files
      BY Room
    <2> QED
      BY <1>0, <2>1, <2>2 DEF TablesInv
  <1> QED
    BY <1>2, <1>3, <1>4, <1>5, <1>6 DEF TablesInv

\* A request makes the query that is next in its handler.
LEMMA HandlersStay ==
    ASSUME RequestsInv, HandlersInv, NEW w \in Writers, Effect(w)
    PROVE  RequestsInv' /\ HandlersInv'
  <1>1. /\ pc' \in [Writers -> Calls] /\ req' \in [Writers -> Requests]
        /\ id' \in [Writers -> 0 .. MaxRequests] /\ seen' \in [Writers -> 0 .. MaxRequests]
        /\ \A v \in Writers \ {w} : pc'[v] = pc[v] /\ req'[v] = req[v]
    BY Zenon DEF Effect, Arrived, Answered, Began, Locked, RolledBack, Inserted,
         Compared, Committed, Queried, Permitted, Found, ObjectsRemoved, Deleted, Renamed,
         Uploaded, Recorded, FileFound, FileRemoved, Swept, Went, Ended, Moved
  <1>2. asked' \in 0 .. MaxRequests
    <2>1. asked' = asked \/ (asked' = asked + 1 /\ asked < MaxRequests)
      BY Zenon DEF Effect, Arrived, Answered, Began, Locked, RolledBack, Inserted,
         Compared, Committed, Queried, Permitted, Found, ObjectsRemoved, Deleted, Renamed,
         Uploaded, Recorded, FileFound, FileRemoved, Swept, SamePool
    <2> QED
      BY <2>1, Bounds DEF RequestsInv
  <1>3. CASE Arrived(w)
    <2>1. PICK r \in Requests, c \in Calls :
        /\ \/ r.op = "save" /\ c = "begin"
           \/ r.op = "detach" /\ c = "find"
           \/ r.op \in {"delete", "rename", "attach", "permit"} /\ c = "look"
        /\ pc'[w] = c /\ req'[w] = r
      BY <1>3, Zenon DEF Arrived, Moved
    <2> QED
      BY <1>1, <1>2, <2>1 DEF RequestsInv, HandlersInv, Saving
  <1>4. CASE \E c \in Calls : pc'[w] = c /\ req'[w] = req[w] /\
                \/ pc[w] \in Saving /\ c \in Saving
                \/ pc[w] = "allowed" /\ req[w].op = "delete" /\ c = "objects"
                \/ pc[w] = "allowed" /\ req[w].op = "rename" /\ c = "target"
                \/ pc[w] = "allowed" /\ req[w].op = "attach" /\ c = "upload"
                \/ pc[w] = "allowed" /\ req[w].op = "detach" /\ c = "remove"
                \/ pc[w] \in {"target", "objects"} /\ c = "apply"
                \/ pc[w] = "look" /\ req[w].op # "permit" /\ c = "allowed"
                \/ pc[w] = "look" /\ req[w].op = "permit" /\ c = "apply"
                \/ pc[w] = "find" /\ c = "allowed"
                \/ pc[w] \in {"apply", "record"} /\ c = "query"
                \/ pc[w] = "query" /\ req[w].op = "permit" /\ c = "rules"
                \/ pc[w] = "upload" /\ c = "record"
                \/ pc[w] = "remove" /\ c = "sweep"
    BY <1>1, <1>2, <1>4 DEF RequestsInv, HandlersInv, Saving
  <1>5. CASE pc'[w] = "idle"
    BY <1>1, <1>2, <1>5 DEF RequestsInv, HandlersInv, Saving
  <1> QED
    BY <1>3, <1>4, <1>5 DEF Effect, Answered, Began, Locked, RolledBack, Inserted,
         Compared, Committed, Queried, Permitted, Found, ObjectsRemoved, Deleted, Renamed,
         Uploaded, Recorded, FileFound, FileRemoved, Swept, Went, Ended, Moved, Saving, Calls

\* Who counts for a bound afterwards: the same, less whoever is done, or one more.
LEMMA CountsStay ==
    ASSUME TablesInv, RequestsInv, HandlersInv, CountsInv, NEW w \in Writers, Effect(w)
    PROVE  CountsInv'
  <1>0. /\ pages \in Nat /\ keys \in Nat /\ free \in Nat /\ asked \in Nat /\ Conns \in Nat
        /\ revs \in Seq(Revisions) /\ Len(revs) \in Nat
    BY Bounds DEF CountsInv, RequestsInv, TablesInv
  <1>1. /\ \A v \in Writers \ {w} : pc'[v] = pc[v] /\ req'[v] = req[v]
    BY Zenon DEF Effect, Arrived, Answered, Began, Locked, RolledBack, Inserted,
         Compared, Committed, Queried, Permitted, Found, ObjectsRemoved, Deleted, Renamed,
         Uploaded, Recorded, FileFound, FileRemoved, Swept, Went, Ended, Moved
  <1>2. /\ ToInsert' = IF pc'[w] \in {"begin", "lock", "insert"}
                       THEN ToInsert \union {w} ELSE ToInsert \ {w}
        /\ ToWrite' = IF pc'[w] \in Saving THEN ToWrite \union {w} ELSE ToWrite \ {w}
        /\ ToUpload' = IF pc'[w] \in {"look", "allowed", "upload"} /\ req'[w].op = "attach"
                       THEN ToUpload \union {w} ELSE ToUpload \ {w}
        /\ Holding' = IF pc'[w] \in (Saving \ {"begin"}) \union {"query", "rules"}
                      THEN Holding \union {w} ELSE Holding \ {w}
    BY <1>1 DEF ToInsert, ToWrite, ToUpload, Holding
  <1>3. /\ pages' \in Nat /\ IsFiniteSet(ToInsert') /\ pages' + Cardinality(ToInsert') <= asked'
    <2>1. \/ pages' = pages /\ asked' = asked + 1
          \/ pages' = pages /\ asked' = asked /\ (w \in ToInsert \/ ToInsert' = ToInsert \ {w})
          \/ pages' = pages + 1 /\ asked' = asked /\ w \in ToInsert /\ ToInsert' = ToInsert \ {w}
      BY <1>2 DEF Effect, Arrived, Answered, Began, Locked, RolledBack, Inserted,
         Compared, Committed, Queried, Permitted, Found, ObjectsRemoved, Deleted, Renamed,
         Uploaded, Recorded, FileFound, FileRemoved, Swept, Went, Ended, Moved, SamePages,
         SamePool, ToInsert, Deleting
    <2>2. IsFiniteSet(ToInsert) /\ pages + Cardinality(ToInsert) <= asked
      BY DEF CountsInv
    <2>3. GoesOn(w, ToInsert, ToInsert', pages, pages', asked, asked')
      BY <1>2, <2>1 DEF GoesOn
    <2> QED
      BY <1>0, <2>2, <2>3, CountGoesOn
  <1>4. IsFiniteSet(ToWrite') /\ Len(revs') + Cardinality(ToWrite') <= asked'
    <2>1. \/ Len(revs') = Len(revs) /\ asked' = asked + 1
          \/ Len(revs') = Len(revs) /\ asked' = asked /\ (w \in ToWrite \/ ToWrite' = ToWrite \ {w})
          \/ /\ Len(revs') = Len(revs) + 1 /\ asked' = asked /\ w \in ToWrite
             /\ ToWrite' = ToWrite \ {w}
      <3>1. Len(Append(revs, NewRow(w))) = Len(revs) + 1
        BY <1>0
      <3> QED
        BY <1>2, <3>1 DEF Effect, Arrived, Answered, Began, Locked, RolledBack, Inserted,
         Compared, Committed, Queried, Permitted, Found, ObjectsRemoved, Deleted, Renamed,
         Uploaded, Recorded, FileFound, FileRemoved, Swept, Went, Ended, Moved, SamePages,
         SamePool, ToWrite, Saving, Deleting
    <2>2. IsFiniteSet(ToWrite) /\ Len(revs) + Cardinality(ToWrite) <= asked
      BY DEF CountsInv
    <2>3. GoesOn(w, ToWrite, ToWrite', Len(revs), Len(revs'), asked, asked')
      BY <1>2, <2>1 DEF GoesOn
    <2> QED
      BY <1>0, <2>2, <2>3, CountGoesOn
  <1>5. /\ keys' \in Nat /\ IsFiniteSet(ToUpload') /\ keys' + Cardinality(ToUpload') <= asked'
    <2>1. \/ keys' = keys /\ asked' = asked + 1
          \/ keys' = keys /\ asked' = asked /\ (w \in ToUpload \/ ToUpload' = ToUpload \ {w})
          \/ keys' = keys + 1 /\ asked' = asked /\ w \in ToUpload /\ ToUpload' = ToUpload \ {w}
      BY <1>2 DEF Effect, Arrived, Answered, Began, Locked, RolledBack, Inserted,
         Compared, Committed, Queried, Permitted, Found, ObjectsRemoved, Deleted, Renamed,
         Uploaded, Recorded, FileFound, FileRemoved, Swept, Went, Ended, Moved, SameFiles,
         SamePool, ToUpload, HandlersInv, Deleting, Saving
    <2>2. IsFiniteSet(ToUpload) /\ keys + Cardinality(ToUpload) <= asked
      BY DEF CountsInv
    <2>3. GoesOn(w, ToUpload, ToUpload', keys, keys', asked, asked')
      BY <1>2, <2>1 DEF GoesOn
    <2> QED
      BY <1>0, <2>2, <2>3, CountGoesOn
  <1>6. free' \in Nat /\ IsFiniteSet(Holding') /\ free' + Cardinality(Holding') = Conns
    <2>1. \/ free' = free /\ Holding' = Holding
          \/ free' = free - 1 /\ free > 0 /\ w \notin Holding /\ Holding' = Holding \union {w}
          \/ free' = free + 1 /\ w \in Holding /\ Holding' = Holding \ {w}
      BY <1>2 DEF Effect, Arrived, Answered, Began, Locked, RolledBack, Inserted,
         Compared, Committed, Queried, Permitted, Found, ObjectsRemoved, Deleted, Renamed,
         Uploaded, Recorded, FileFound, FileRemoved, Swept, Went, Ended, Moved, SamePool,
         Holding, Saving, Deleting
    <2>2. IsFiniteSet(Holding) /\ free + Cardinality(Holding) = Conns
      BY DEF CountsInv
    <2> QED
      BY <1>0, <2>1, <2>2, PoolGoesOn
  <1> QED
    BY <1>3, <1>4, <1>5, <1>6 DEF CountsInv

\* What a commit adds to the revisions.
LEMMA RevisionsGrow ==
    ASSUME TablesInv, NEW w, revs' = Append(revs, NewRow(w))
    PROVE  /\ Len(revs) \in Nat /\ DOMAIN revs = 1 .. Len(revs) /\ Len(revs') = Len(revs) + 1
           /\ DOMAIN revs' = 1 .. Len(revs) + 1
           /\ \A r \in 1 .. Len(revs) : revs'[r] = revs[r]
           /\ revs'[Len(revs) + 1] = NewRow(w) /\ NewRow(w).page = id[w]
           /\ NewRow(w).base = req[w].base
           /\ \A p : p # id[w] => History(p)' = History(p)
           /\ \A p : p = id[w] => History(p)' = History(p) \union {Len(revs) + 1}
           /\ \A p : History(p) \subseteq 1 .. Len(revs)
  <1>1. /\ Len(revs) \in Nat /\ DOMAIN revs = 1 .. Len(revs) /\ Len(revs') = Len(revs) + 1
        /\ DOMAIN revs' = 1 .. Len(revs) + 1
        /\ \A r \in 1 .. Len(revs) : revs'[r] = revs[r]
        /\ revs'[Len(revs) + 1] = NewRow(w)
    BY DEF TablesInv
  <1>2. NewRow(w).page = id[w] /\ NewRow(w).base = req[w].base
    BY DEF NewRow
  <1>3. \A p : History(p)' = {r \in DOMAIN revs' : revs'[r].page = p}
    BY DEF History
  <1>4. \A p : p # id[w] => History(p)' = History(p)
    BY <1>1, <1>2, <1>3 DEF History
  <1>5. \A p : p = id[w] => History(p)' = History(p) \union {Len(revs) + 1}
    BY <1>1, <1>2, <1>3 DEF History
  <1> QED
    BY <1>1, <1>2, <1>4, <1>5 DEF History

\* What a page can become, and which number a request can get.
LEMMA PagesMove ==
    ASSUME TablesInv, RequestsInv, HandlersInv, PagesInv, SavesInv, FilesInv,
           NEW w \in Writers, Effect(w)
    PROVE  /\ \/ pathOf' = pathOf
              \/ Creating(w) /\ pathOf' = [pathOf EXCEPT ![id[w]] = req[w].path]
              \/ Deleted(w) /\ pathOf' = [pathOf EXCEPT ![id[w]] = None]
              \/ /\ pc[w] = "query" /\ pending[req[w].dest] = None
                 /\ pathOf[id[w]] # None /\ PageAt(req[w].dest) \ {id[w]} = {}
                 /\ pathOf' = [pathOf EXCEPT ![id[w]] = req[w].dest]
           /\ revs' = revs \/ (pc[w] = "write" /\ revs' = Append(revs, NewRow(w)))
           /\ Creating(w) /\ pathOf' # pathOf => revs' = Append(revs, NewRow(w))
           /\ pages' = pages \/ (pages' = pages + 1 /\ pc[w] = "insert")
           /\ \/ id'[w] = id[w] \/ id'[w] = 0
              \/ id'[w] = pages + 1 /\ pages' = pages + 1
              \/ id'[w] \in PageIds /\ pathOf[id'[w]] # None
           /\ \A v \in Writers \ {w} : /\ pc'[v] = pc[v] /\ req'[v] = req[v]
                                       /\ id'[v] = id[v] /\ seen'[v] = seen[v]
  <1>1. \A v \in Writers \ {w} : /\ pc'[v] = pc[v] /\ req'[v] = req[v]
                                 /\ id'[v] = id[v] /\ seen'[v] = seen[v]
    BY Zenon DEF Effect, Arrived, Answered, Began, Locked, RolledBack, Inserted,
         Compared, Committed, Queried, Permitted, Found, ObjectsRemoved, Deleted, Renamed,
         Uploaded, Recorded, FileFound, FileRemoved, Swept, Went, Ended, Moved
  <1>2. /\ \/ pathOf' = pathOf
           \/ Creating(w) /\ pathOf' = [pathOf EXCEPT ![id[w]] = req[w].path]
           \/ Deleted(w) /\ pathOf' = [pathOf EXCEPT ![id[w]] = None]
           \/ /\ pc[w] = "query" /\ pending[req[w].dest] = None
              /\ pathOf[id[w]] # None /\ PageAt(req[w].dest) \ {id[w]} = {}
              /\ pathOf' = [pathOf EXCEPT ![id[w]] = req[w].dest]
        /\ revs' = revs \/ (pc[w] = "write" /\ revs' = Append(revs, NewRow(w)))
    BY Zenon DEF Effect, Arrived, Answered, Began, Locked, RolledBack, Inserted,
         Compared, Committed, Queried, Permitted, Found, ObjectsRemoved, Deleted, Renamed,
         Uploaded, Recorded, FileFound, FileRemoved, Swept, SamePages
  <1>3. Creating(w) /\ pathOf' # pathOf => revs' = Append(revs, NewRow(w))
    BY Zenon DEF Effect, Arrived, Answered, Began, Locked, RolledBack, Inserted,
         Compared, Committed, Queried, Permitted, Found, ObjectsRemoved, Deleted, Renamed,
         Uploaded, Recorded, FileFound, FileRemoved, Swept, SamePages, Creating, Deleting
  <1>4. pages' = pages \/ (pages' = pages + 1 /\ pc[w] = "insert")
    BY Zenon DEF Effect, Arrived, Answered, Began, Locked, RolledBack, Inserted,
         Compared, Committed, Queried, Permitted, Found, ObjectsRemoved, Deleted, Renamed,
         Uploaded, Recorded, FileFound, FileRemoved, Swept, SamePages
  <1>5. \/ id'[w] = id[w] \/ id'[w] = 0
        \/ id'[w] = pages + 1 /\ pages' = pages + 1
        \/ id'[w] \in PageIds /\ pathOf[id'[w]] # None
    <2>1. \A p \in PageAt(req[w].path) : p \in PageIds /\ pathOf[p] # None
      <3>1. req[w].path \in Paths
        BY Parts DEF RequestsInv
      <3> QED
        BY <3>1, Bounds DEF PageAt
    <2>2. \A a \in Files : fileOf[a] # 0 => fileOf[a] \in PageIds /\ pathOf[fileOf[a]] # None
      BY Bounds DEF FilesInv, FileInv, TablesInv, PageIds
    <2> QED
      BY <2>1, <2>2, Zenon DEF Effect, Arrived, Answered, Began, Locked, RolledBack, Inserted,
         Compared, Committed, Queried, Permitted, Found, ObjectsRemoved, Deleted, Renamed,
         Uploaded, Recorded, FileFound, FileRemoved, Swept, Went, Ended, Moved
  <1> QED
    BY <1>1, <1>2, <1>3, <1>4, <1>5

\* A listed page keeps a text and a path of its own.
LEMMA PagesStay ==
    ASSUME TablesInv, RequestsInv, HandlersInv, CountsInv, PagesInv, SavesInv, FilesInv,
           NEW w \in Writers, Effect(w), TablesInv'
    PROVE  PagesInv'
  <1>0. /\ req[w].path \in Paths /\ req[w].dest \in Paths /\ pages \in Nat /\ pages' >= pages
        /\ None \notin Paths /\ pages' \in Nat
    <2>1. req[w].path \in Paths /\ req[w].dest \in Paths
      BY Parts DEF RequestsInv
    <2>2. None \notin Paths /\ pages \in Nat
      BY Bounds DEF CountsInv
    <2>3. pages' = pages \/ pages' = pages + 1
      BY PagesMove, Zenon
    <2> QED
      BY <2>1, <2>2, <2>3
  <1>1. Creating(w) => id[w] \in PageIds /\ PageAt(req[w].path) = {} /\ pathOf[id[w]] = None
    BY DEF SavesInv, SaveInv
  <1>2. /\ \A p \in PageIds : pathOf[p] # None => p <= pages'
        /\ \A v \in Writers : id[v] <= pages'
    <2>1. \A p \in PageIds : p \in Nat /\ (pathOf[p] # None => p <= pages)
      BY DEF PagesInv, PageIds
    <2>2. \A v \in Writers : id[v] \in Nat /\ id[v] <= pages
      BY DEF RequestsInv, PagesInv
    <2> QED
      BY <1>0, <2>1, <2>2
  <1>3. \A p : HasLatest(p) => HasLatest(p)'
    <2>1. CASE revs' = revs
      BY <2>1 DEF HasLatest, History
    <2>2. CASE revs' = Append(revs, NewRow(w))
      <3> SUFFICES ASSUME NEW p, HasLatest(p) PROVE HasLatest(p)'
        OBVIOUS
      <3>1. HasLatest(p)' <=> \E r \in History(p)' : \A s \in History(p)' : s <= r
        BY DEF HasLatest
      <3>2. CASE p # id[w]
        <4>1. History(p)' = History(p)
          BY <2>2, <3>2, RevisionsGrow
        <4> QED
          BY <3>1, <4>1 DEF HasLatest
      <3>3. CASE p = id[w]
        <4>1. /\ History(p)' = History(p) \union {Len(revs) + 1} /\ Len(revs) \in Nat
              /\ History(p) \subseteq 1 .. Len(revs)
          BY <2>2, <3>3, RevisionsGrow
        <4>2. \A s \in History(p)' : s <= Len(revs) + 1
          BY <4>1
        <4> QED
          BY <3>1, <4>1, <4>2
      <3> QED
        BY <3>2, <3>3
    <2> QED
      BY <2>1, <2>2, PagesMove
  <1>4. pathOf' # pathOf /\ Creating(w) => \A p : p = id[w] => HasLatest(p)'
    <2>1. SUFFICES ASSUME revs' = Append(revs, NewRow(w)), NEW p, p = id[w]
                   PROVE  HasLatest(p)'
      BY PagesMove
    <2>2. HasLatest(p)' <=> \E r \in History(p)' : \A s \in History(p)' : s <= r
      BY DEF HasLatest
    <2>3. /\ History(p)' = History(p) \union {Len(revs) + 1} /\ Len(revs) \in Nat
          /\ History(p) \subseteq 1 .. Len(revs)
      BY <2>1, RevisionsGrow
    <2>4. \A s \in History(p)' : s <= Len(revs) + 1
      BY <2>3
    <2> QED
      BY <2>2, <2>3, <2>4
  <1>5. \A p \in PageIds : pathOf'[p] # None => p <= pages' /\ HasLatest(p)'
    <2>1. CASE pathOf' = pathOf
      BY <1>2, <1>3, <2>1 DEF PagesInv
    <2>2. CASE Creating(w) /\ pathOf' # pathOf /\ pathOf' = [pathOf EXCEPT ![id[w]] = req[w].path]
      BY <1>1, <1>2, <1>3, <1>4, <2>2 DEF PagesInv, TablesInv
    <2>3. CASE pathOf' = [pathOf EXCEPT ![id[w]] = None]
      BY <1>2, <1>3, <2>3 DEF PagesInv, TablesInv
    <2>4. CASE pathOf[id[w]] # None /\ pathOf' = [pathOf EXCEPT ![id[w]] = req[w].dest]
      BY <1>2, <1>3, <2>4 DEF PagesInv, TablesInv
    <2> QED
      BY <2>1, <2>2, <2>3, <2>4, PagesMove
  <1>6. \A p, q \in PageIds : pathOf'[p] = pathOf'[q] => p = q \/ pathOf'[p] = None
    <2>1. CASE pathOf' = pathOf
      BY <2>1 DEF PagesInv
    <2>2. CASE \E x : /\ x = None \/ PageAt(x) \ {id[w]} = {}
                      /\ pathOf' = [pathOf EXCEPT ![id[w]] = x]
      BY <2>2 DEF PagesInv, TablesInv, PageAt
    <2>3. Creating(w) => PageAt(req[w].path) \ {id[w]} = {}
      BY <1>1
    <2>4. \/ pathOf' = pathOf
          \/ pathOf' = [pathOf EXCEPT ![id[w]] = None]
          \/ /\ PageAt(req[w].path) \ {id[w]} = {}
             /\ pathOf' = [pathOf EXCEPT ![id[w]] = req[w].path]
          \/ /\ PageAt(req[w].dest) \ {id[w]} = {}
             /\ pathOf' = [pathOf EXCEPT ![id[w]] = req[w].dest]
      BY <2>3, PagesMove, Zenon
    <2> QED
      BY <2>1, <2>2, <2>4, Zenon
  <1>7. \A r \in DOMAIN revs' : revs'[r].page <= pages'
    <2>1. CASE revs' = revs
      BY <1>0, <2>1, Parts DEF PagesInv, TablesInv, PageIds
    <2>2. CASE revs' = Append(revs, NewRow(w))
      <3>1. \A r \in DOMAIN revs : revs[r].page <= pages'
        BY <1>0, Parts DEF PagesInv, TablesInv, PageIds
      <3> QED
        BY <1>2, <2>2, <3>1, RevisionsGrow
    <2> QED
      BY <2>1, <2>2, PagesMove
  <1>8. \A v \in Writers : id'[v] <= pages'
    <2>1. id'[w] <= pages'
      BY <1>0, <1>2, PagesMove
    <2> QED
      BY <1>2, <2>1, PagesMove
  <1> QED
    BY <1>5, <1>6, <1>7, <1>8 DEF PagesInv

\* Whoever adds a revision has seen the one before it, or adds the first.
LEMMA HistoryStay ==
    ASSUME TablesInv, RequestsInv, SavesInv, PagesInv, HandlersInv, FilesInv, HistoryInv,
           NEW w \in Writers, Effect(w)
    PROVE  HistoryInv'
  <1>1. CASE revs' = revs
    BY <1>1 DEF HistoryInv
  <1>2. CASE pc[w] = "write" /\ revs' = Append(revs, NewRow(w))
    <2> DEFINE n == Len(revs)
               b == req[w].base
    <2>1. /\ n \in Nat /\ DOMAIN revs = 1 .. n /\ DOMAIN revs' = 1 .. n + 1
          /\ \A r \in 1 .. n : revs'[r] = revs[r]
          /\ revs'[n + 1].page = id[w] /\ revs'[n + 1].base = b
          /\ \A p : History(p) = {r \in 1 .. n : revs[r].page = p}
      BY <1>2, RevisionsGrow DEF History
    <2>2. \/ b \in {Any, 0} /\ History(id[w]) = {}
          \/ /\ b \in {Any, seen[w]} /\ seen[w] \in History(id[w])
             /\ \A s \in History(id[w]) : s <= seen[w]
      BY <1>2 DEF SavesInv, SaveInv, Creating, Editing
    <2>3. /\ b \notin {Any, 0} => b \in 1 .. n /\ revs[b].page = id[w]
          /\ \A s \in 1 .. n : revs[s].page = id[w] => b = Any \/ (b # 0 /\ s <= b)
      <3>1. CASE b \in {Any, 0} /\ History(id[w]) = {}
        BY <2>1, <3>1
      <3>2. CASE b = Any
        BY <3>2
      <3>3. CASE b = seen[w] /\ seen[w] \in History(id[w]) /\ \A s \in History(id[w]) : s <= seen[w]
        <4>1. b \in 1 .. n /\ revs[b].page = id[w]
          BY <2>1, <3>3
        <4>2. \A s \in 1 .. n : revs[s].page = id[w] => s <= b
          BY <2>1, <3>3
        <4> QED
          BY <4>1, <4>2
      <3> QED
        BY <2>2, <3>1, <3>2, <3>3
    <2> HIDE DEF n, b
    <2>4. ASSUME NEW r \in 1 .. n + 1
          PROVE  /\ revs'[r].base \notin {Any, 0} =>
                       /\ revs'[r].base \in 1 .. r - 1
                       /\ revs'[revs'[r].base].page = revs'[r].page
                 /\ \A s \in 1 .. r - 1 : revs'[s].page = revs'[r].page =>
                       revs'[r].base = Any \/ (revs'[r].base # 0 /\ s <= revs'[r].base)
      <3>1. CASE r \in 1 .. n
        <4>1. /\ revs[r].base \notin {Any, 0} =>
                    revs[r].base \in 1 .. r - 1 /\ revs[revs[r].base].page = revs[r].page
              /\ \A s \in 1 .. r - 1 : revs[s].page = revs[r].page =>
                    revs[r].base = Any \/ (revs[r].base # 0 /\ s <= revs[r].base)
          BY <2>1, <3>1 DEF HistoryInv
        <4>2. \A s \in 1 .. r - 1 : s \in 1 .. n
          BY <2>1, <3>1
        <4> QED
          BY <2>1, <3>1, <4>1, <4>2
      <3>2. CASE r = n + 1
        <4>1. r - 1 = n
          BY <2>1, <3>2
        <4> QED
          BY <2>1, <2>3, <3>2, <4>1
      <3> QED
        BY <2>1, <3>1, <3>2
    <2> QED
      BY <2>1, <2>4 DEF HistoryInv
  <1> QED
    BY <1>1, <1>2, PagesMove

\* Nobody takes the path, the number or the row a save holds.
LEMMA OthersSave ==
    ASSUME TablesInv, RequestsInv, HandlersInv, CountsInv, PagesInv, SavesInv, FilesInv,
           NEW w \in Writers, Effect(w), NEW v \in Writers \ {w}
    PROVE  SaveInv(v)'
  <1>0. /\ pc'[v] = pc[v] /\ req'[v] = req[v] /\ id'[v] = id[v] /\ seen'[v] = seen[v]
        /\ v \in Writers /\ w \in Writers /\ v # w /\ v # None /\ w # None
        /\ req[v] \in Requests /\ req[v].path \in Paths /\ None \notin Paths
        /\ req[w].path \in Paths /\ req[w].dest \in Paths
    BY Bounds, Parts, PagesMove DEF RequestsInv
  <1>1. (Creating(v)' <=> Creating(v)) /\ (Editing(v)' <=> Editing(v))
    BY <1>0 DEF Creating, Editing
  <1>2. SaveInv(v) /\ SaveInv(w)
    BY DEF SavesInv
  <1>3. /\ \/ lock' = lock \/ Released(w)
           \/ \E p \in PageIds : lock[p] = None /\ lock' = [lock EXCEPT ![p] = w]
        /\ \/ pending' = pending
           \/ pending[req[w].path] = None /\ pending' = [pending EXCEPT ![req[w].path] = w]
           \/ pending' = [x \in Paths |-> IF pending[x] = w THEN None ELSE pending[x]]
    <2>1. \A x : \A p \in PageAt(x) : p \in PageIds
      BY DEF PageAt
    <2> QED
      BY <2>1, Zenon DEF Effect, Arrived, Answered, Began, Locked, RolledBack, Inserted,
         Compared, Committed, Queried, Permitted, Found, ObjectsRemoved, Deleted, Renamed,
         Uploaded, Recorded, FileFound, FileRemoved, Swept, SameLocks
  <1>4. \A x \in Paths : pending[x] = v => pending'[x] = v
    BY <1>0, <1>3 DEF TablesInv
  <1>5. \A p \in PageIds : lock[p] = v => lock'[p] = v
    BY <1>0, <1>3 DEF TablesInv, Released
  <1>6. pc[w] = "write" => Creating(w) \/ Editing(w)
    BY DEF Creating, Editing
  <1>7. ASSUME Creating(v)
        PROVE  /\ id[v] \in PageIds /\ pathOf'[id[v]] = None /\ History(id[v])' = {}
               /\ pending'[req[v].path] = v /\ PageAt(req[v].path)' = {}
               /\ \A u \in Writers \ {v} : id[v] # id'[u]
    <2>1. /\ id[v] \in PageIds /\ pathOf[id[v]] = None /\ History(id[v]) = {}
          /\ pending[req[v].path] = v /\ PageAt(req[v].path) = {}
          /\ \A u \in Writers \ {v} : id[v] # id[u]
      BY <1>2, <1>7 DEF SaveInv
    <2>2. id[w] # id[v]
      BY <1>0, <2>1
    <2>3. Creating(w) => req[w].path # req[v].path
      BY <1>0, <1>2, <2>1 DEF SaveInv
    <2>4. pathOf'[id[v]] = None
      BY <2>1, <2>2, PagesMove DEF TablesInv
    <2>5. \A p \in PageIds : pathOf'[p] # req[v].path
      BY <1>0, <2>1, <2>3, PagesMove DEF TablesInv, PageAt
    <2>6. \A p : p = id[v] => History(p)' = {}
      <3>1. CASE revs' = revs
        BY <2>1, <3>1 DEF History
      <3>2. CASE revs' = Append(revs, NewRow(w))
        BY <2>1, <2>2, <3>2, RevisionsGrow
      <3> QED
        BY <3>1, <3>2, PagesMove
    <2>7. id[v] # id'[w]
      BY <1>0, <2>1, <2>2, PagesMove DEF PagesInv, PageIds, CountsInv
    <2> QED
      BY <1>0, <1>4, <2>1, <2>4, <2>5, <2>6, <2>7, PagesMove DEF PageAt
  <1>8. ASSUME Editing(v)
        PROVE  /\ id[v] \in PageIds /\ lock'[id[v]] = v /\ pathOf'[id[v]] # None
               /\ \A p : p = id[v] => History(p)' = History(p)
    <2>1. id[v] \in PageIds /\ lock[id[v]] = v /\ pathOf[id[v]] # None
      BY <1>2, <1>8 DEF SaveInv
    <2>2. pc[w] = "write" => id[w] # id[v]
      BY <1>0, <1>2, <1>6, <2>1 DEF SaveInv
    <2>3. Deleted(w) => id[w] # id[v]
      BY <1>0, <2>1 DEF Deleted
    <2>4. pathOf'[id[v]] # None
      BY <1>0, <2>1, <2>3, PagesMove DEF TablesInv
    <2>5. \A p : p = id[v] => History(p)' = History(p)
      <3>1. CASE revs' = revs
        BY <3>1 DEF History
      <3>2. CASE pc[w] = "write" /\ revs' = Append(revs, NewRow(w))
        BY <2>2, <3>2, RevisionsGrow
      <3> QED
        BY <3>1, <3>2, PagesMove
    <2> QED
      BY <1>5, <2>1, <2>4, <2>5
  <1> QED
    BY <1>0, <1>1, <1>2, <1>7, <1>8 DEF SaveInv

\* A save comes to what it holds by a query that finds it free.
LEMMA SavesStay ==
    ASSUME TablesInv, RequestsInv, HandlersInv, CountsInv, PagesInv, SavesInv, FilesInv,
           NEW w \in Writers, Effect(w)
    PROVE  SavesInv'
  <1>0. SaveInv(w) /\ w # None /\ req[w].path \in Paths /\ None \notin Paths
    BY Bounds, Parts DEF SavesInv, RequestsInv
  <1>1. SUFFICES SaveInv(w)'
    BY OthersSave DEF SavesInv
  <1> DEFINE Quiet == /\ pc'[w] \notin Saving \/ (pc'[w] \in {"begin", "lock"} /\ seen'[w] = 0)
                      /\ pc'[w] = "idle" => seen'[w] = 0
  <1>2. CASE Quiet
    BY <1>2 DEF SaveInv, Creating, Editing, Saving
  <1>3. CASE pc[w] = "lock" /\ req[w].base \in {Any, 0} /\ Went(w, "insert")
    BY <1>0, <1>3 DEF SaveInv, Creating, Editing, Saving, Went, Moved
  <1>4. CASE pc[w] = "access" /\ Went(w, "compare") /\ lock' = lock /\ pathOf' = pathOf
    BY <1>0, <1>4 DEF SaveInv, Creating, Editing, Saving, Went, Moved
  <1>5. CASE Locked(w)
    <2>1. PICK p \in PageIds : /\ pathOf[p] = req[w].path /\ lock' = [lock EXCEPT ![p] = w]
                               /\ pc'[w] = "access" /\ id'[w] = p /\ seen'[w] = seen[w]
      BY <1>5 DEF Locked, Moved, PageAt
    <2>2. seen[w] = 0 /\ pathOf' = pathOf
      BY <1>0, <1>5 DEF Locked, SaveInv, Saving, SamePages
    <2>3. lock'[p] = w
      BY <2>1 DEF TablesInv
    <2> QED
      BY <1>0, <2>1, <2>2, <2>3 DEF SaveInv, Creating, Editing, Saving
  <1>6. CASE Inserted(w)
    <2>1. /\ pc[w] = "insert" /\ pc'[w] = "write" /\ id'[w] = pages + 1 /\ seen'[w] = seen[w]
          /\ req'[w] = req[w] /\ pathOf' = pathOf /\ revs' = revs
          /\ pending' = [pending EXCEPT ![req[w].path] = w] /\ PageAt(req[w].path) = {}
      BY <1>6 DEF Inserted, Moved
    <2>2. seen[w] = 0 /\ req[w].base \in {Any, 0}
      BY <1>0, <2>1 DEF SaveInv, Saving
    <2>3. pages + 1 \in PageIds /\ pages \in Nat /\ DOMAIN revs = 1 .. Len(revs)
      BY <2>1, Room
    <2>4. pathOf[pages + 1] = None
      BY <2>3 DEF PagesInv
    <2>5. \A p : p = pages + 1 => History(p)' = {}
      BY <2>1, <2>3, Parts DEF History, PagesInv, TablesInv, PageIds
    <2>6. pending'[req[w].path] = w
      BY <1>0, <2>1 DEF TablesInv
    <2>7. \A x : PageAt(x)' = PageAt(x)
      BY <2>1 DEF PageAt
    <2>8. \A v \in Writers \ {w} : id'[v] # pages + 1
      BY <2>3, PagesMove DEF PagesInv, RequestsInv
    <2>9. ~Editing(w)' /\ pc'[w] # "insert"
      BY <2>1, <2>2 DEF Editing
    <2> QED
      BY <1>0, <2>1, <2>2, <2>3, <2>4, <2>5, <2>6, <2>7, <2>8, <2>9 DEF SaveInv, Saving
  <1>7. CASE Compared(w)
    <2> DEFINE p == id[w]
               r == Latest(p)
    <2>1. /\ pc[w] = "compare" /\ pc'[w] = "write" /\ id'[w] = p /\ seen'[w] = r
          /\ req'[w] = req[w] /\ pathOf' = pathOf /\ revs' = revs /\ lock' = lock
          /\ req[w].base \in {Any, r}
      BY <1>7 DEF Compared, Moved, SamePages, SameLocks
    <2>2. p \in PageIds /\ lock[p] = w /\ pathOf[p] # None
      BY <1>0, <2>1 DEF SaveInv, Editing
    <2>3. r \in History(p) /\ \A s \in History(p) : s <= r
      BY <2>2, LatestIs DEF PagesInv
    <2>4. r # 0
      BY <2>3 DEF History, TablesInv
    <2>5. \A x : History(x)' = History(x)
      BY <2>1 DEF History
    <2> HIDE DEF p, r
    <2>6. ~Creating(w)'
      BY <2>1, <2>4 DEF Creating
    <2> QED
      BY <2>1, <2>2, <2>3, <2>5, <2>6 DEF SaveInv, Saving
  <1> QED
    <2>1. CASE Arrived(w)
      BY <1>0, <1>2, <2>1 DEF Arrived, Moved, SaveInv, Saving
    <2>2. CASE Answered(w)
      BY <1>2, <1>3, <1>4, <2>2 DEF Answered, Went, Ended, Moved, Saving, SamePages, SameLocks
    <2>3. CASE Began(w)
      BY <1>0, <1>2, <2>3 DEF Began, Went, Moved, SaveInv, Saving
    <2>4. CASE RolledBack(w) \/ Committed(w) \/ Found(w) \/ ObjectsRemoved(w) \/ Deleted(w)
                 \/ Renamed(w) \/ Uploaded(w) \/ Recorded(w) \/ FileFound(w) \/ FileRemoved(w)
                 \/ Swept(w) \/ Queried(w) \/ Permitted(w)
      BY <1>2, <2>4 DEF RolledBack, Committed, Queried, Permitted, Found, ObjectsRemoved,
         Deleted, Renamed, Uploaded, Recorded, FileFound, FileRemoved, Swept, Went, Ended,
         Moved, Saving
    <2> QED
      BY <1>5, <1>6, <1>7, <2>1, <2>2, <2>3, <2>4 DEF Effect

\* A file that is listed is not swept away, before or after it is recorded.
LEMMA FilesMove ==
    ASSUME RequestsInv, HandlersInv, NEW w \in Writers, Effect(w)
    PROVE  /\ \/ keys' = keys
              \/ pc[w] = "upload" /\ keys' = keys + 1
           /\ \/ stored' = stored
              \/ pc[w] = "upload" /\ stored' = stored \union {keys + 1} /\ keys' = keys + 1
              \/ \E gone \in SUBSET Attached(id[w]) :
                    /\ pc[w] = "objects" /\ Deleting(w)' /\ id'[w] = id[w]
                    /\ stored' = stored \ gone
              \/ pc[w] = "sweep" /\ stored' = stored \ {seen[w]}
           /\ \/ fileOf' = fileOf
              \/ /\ Deleting(w)
                 /\ fileOf' = [a \in Files |-> IF fileOf[a] = id[w] THEN 0 ELSE fileOf[a]]
              \/ /\ Recording(w) /\ pathOf[id[w]] # None
                 /\ fileOf' = [fileOf EXCEPT ![seen[w]] = id[w]]
              \/ pc[w] = "remove" /\ fileOf' = [fileOf EXCEPT ![seen[w]] = 0]
           /\ Deleting(w) => Deleted(w) \/ Queried(w)
  <1>1. \/ keys' = keys
        \/ pc[w] = "upload" /\ keys' = keys + 1
    BY Zenon DEF Effect, Arrived, Answered, Began, Locked, RolledBack, Inserted,
         Compared, Committed, Queried, Permitted, Found, ObjectsRemoved, Deleted, Renamed,
         Uploaded, Recorded, FileFound, FileRemoved, Swept, SameFiles
  <1>2. \/ stored' = stored
        \/ pc[w] = "upload" /\ stored' = stored \union {keys + 1} /\ keys' = keys + 1
        \/ ObjectsRemoved(w)
        \/ pc[w] = "sweep" /\ stored' = stored \ {seen[w]}
    BY DEF Effect, Arrived, Answered, Began, Locked, RolledBack, Inserted,
         Compared, Committed, Queried, Permitted, Found, Deleted, Renamed, Uploaded, Recorded,
         FileFound, FileRemoved, Swept, SameFiles
  <1>3. ASSUME ObjectsRemoved(w)
        PROVE  /\ \E gone \in SUBSET Attached(id[w]) : stored' = stored \ gone
               /\ pc[w] = "objects" /\ Deleting(w)' /\ id'[w] = id[w]
    BY <1>3 DEF ObjectsRemoved, Went, Moved, Deleting, HandlersInv
  <1>4. \/ fileOf' = fileOf
        \/ /\ Deleting(w)
           /\ fileOf' = [a \in Files |-> IF fileOf[a] = id[w] THEN 0 ELSE fileOf[a]]
        \/ /\ Recording(w) /\ pathOf[id[w]] # None
           /\ fileOf' = [fileOf EXCEPT ![seen[w]] = id[w]]
        \/ pc[w] = "remove" /\ fileOf' = [fileOf EXCEPT ![seen[w]] = 0]
    BY Zenon DEF Effect, Arrived, Answered, Began, Locked, RolledBack, Inserted,
         Compared, Committed, Queried, Permitted, Found, ObjectsRemoved, Deleted, Renamed,
         Uploaded, Recorded, FileFound, FileRemoved, Swept, SameFiles
  <1>5. Deleting(w) => Deleted(w) \/ Queried(w)
    BY DEF Effect, Arrived, Answered, Began, Locked, RolledBack, Inserted, Compared, Committed,
         Queried, Permitted, Found, ObjectsRemoved, Renamed, Uploaded, Recorded, FileFound,
         FileRemoved, Swept, Deleting, Recording
  <1> QED
    BY <1>1, <1>2, <1>3, <1>4, <1>5, Zenon

\* A listed file stays where it is until the deletion of its page has begun.
LEMMA ListedFilesStay ==
    ASSUME TablesInv, RequestsInv, HandlersInv, CountsInv, PagesInv, SavesInv, FilesInv,
           NEW w \in Writers, Effect(w), NEW a \in Files
    PROVE  FileInv(a)'
  <1>0. /\ FileInv(a) /\ HandInv(w) /\ keys \in Nat /\ stored \subseteq 1 .. keys
        /\ None \notin Paths /\ req[w].path \in Paths /\ req[w].dest \in Paths
    BY Bounds, Parts DEF FilesInv, CountsInv, RequestsInv
  <1>1. SUFFICES ASSUME fileOf'[a] # 0
                 PROVE  /\ a <= keys' /\ pathOf'[fileOf'[a]] # None
                        /\ \/ a \in stored'
                           \/ \E u \in Writers : Deleting(u)' /\ id'[u] = fileOf'[a]
    BY DEF FileInv
  <1>2. keys' \in Nat /\ keys <= keys'
    BY <1>0, FilesMove
  <1>3. CASE fileOf'[a] = fileOf[a]
    <2>1. /\ a <= keys /\ pathOf[fileOf[a]] # None /\ fileOf[a] \in PageIds
          /\ a \in stored \/ \E u \in Writers : Deleting(u) /\ id[u] = fileOf[a]
      BY <1>0, <1>1, <1>3 DEF FileInv, TablesInv, PageIds
    <2>2. Deleted(w) => fileOf[a] # id[w]
      BY <1>1, <1>3 DEF Deleted, TablesInv
    <2>3. pathOf'[fileOf[a]] # None
      BY <1>0, <2>1, <2>2, PagesMove DEF TablesInv
    <2>4. ASSUME NEW u \in Writers, Deleting(u), id[u] = fileOf[a]
          PROVE  Deleting(u)' /\ id'[u] = fileOf[a]
      <3>1. CASE u # w
        BY <2>4, <3>1, PagesMove DEF Deleting
      <3>2. CASE u = w
        <4>1. Queried(w)
          BY <2>2, <2>4, <3>2, FilesMove
        <4> QED
          BY <2>4, <3>2, <4>1 DEF Queried, Went, Moved, Deleting
      <3> QED
        BY <3>1, <3>2
    <2>5. CASE a \in stored
      <3>1. a \in stored' \/ (Deleting(w)' /\ id'[w] = fileOf[a])
        <4>1. CASE pc[w] = "sweep"
          BY <1>0, <1>1, <1>3, <2>5, <4>1, FilesMove DEF HandInv
        <4>2. CASE pc[w] # "sweep"
          BY <2>5, <4>2, FilesMove DEF Attached
        <4> QED
          BY <4>1, <4>2
      <3> QED
        BY <1>0, <1>2, <1>3, <2>1, <2>3, <3>1 DEF Files
    <2> QED
      BY <1>0, <1>2, <1>3, <2>1, <2>3, <2>4, <2>5 DEF Files
  <1>4. CASE fileOf'[a] # fileOf[a]
    <2>1. Recording(w) /\ pathOf[id[w]] # None /\ a = seen[w] /\ fileOf'[a] = id[w]
      BY <1>1, <1>4, FilesMove DEF TablesInv
    <2>2. a \in stored /\ id[w] \in PageIds
      BY <1>0, <2>1 DEF HandInv, Recording
    <2>3. a \in stored'
      BY <2>1, <2>2, FilesMove DEF Recording
    <2>4. ~Deleted(w) /\ ~Creating(w)
      BY <2>1 DEF Deleted, Deleting, Creating, Recording
    <2>5. pathOf'[id[w]] # None
      BY <1>0, <2>1, <2>2, <2>4, PagesMove DEF TablesInv
    <2>6. a <= keys'
      <3>1. a \in 1 .. keys
        BY <1>0, <2>2
      <3> QED
        BY <1>0, <1>2, <3>1
    <2>7. pathOf'[fileOf'[a]] # None
      BY <2>1, <2>5
    <2> QED
      BY <2>3, <2>6, <2>7
  <1> QED
    BY <1>3, <1>4

\* The files there are have one of the numbers there are.
LEMMA KeysAreFiles ==
    ASSUME TablesInv, RequestsInv, HandlersInv, CountsInv
    PROVE  keys \in Nat /\ \A a \in 1 .. keys : a \in Files
  <1>1. keys \in 0 .. MaxRequests
    BY Room
  <1> QED
    BY <1>1, Bounds DEF Files

\* A file about to be recorded or removed is not taken by another request.
LEMMA OthersHold ==
    ASSUME TablesInv, RequestsInv, HandlersInv, CountsInv, PagesInv, SavesInv, FilesInv,
           NEW w \in Writers, Effect(w), NEW v \in Writers \ {w}
    PROVE  HandInv(v)'
  <1>0. /\ pc'[v] = pc[v] /\ req'[v] = req[v] /\ id'[v] = id[v] /\ seen'[v] = seen[v]
        /\ v \in Writers /\ w \in Writers /\ v # w
    BY PagesMove
  <1>1. /\ HandInv(v) /\ HandInv(w)
        /\ (Detaching(v)' <=> Detaching(v)) /\ (Recording(v)' <=> Recording(v))
    BY <1>0 DEF FilesInv, Detaching, Recording
  <1>2. keys \in Nat /\ keys' \in Nat /\ keys <= keys' /\ stored \subseteq 1 .. keys
    BY FilesMove DEF CountsInv, FilesInv
  <1>3. ASSUME Recording(v)
        PROVE  /\ seen[v] \in stored' /\ fileOf'[seen[v]] = 0
               /\ Recording(w)' \/ Detaching(w)' => seen'[w] # seen[v]
    <2>1. /\ seen[v] \in stored /\ fileOf[seen[v]] = 0 /\ seen[v] \in Files
          /\ Recording(w) \/ Detaching(w) => seen[w] # seen[v]
      BY <1>0, <1>1, <1>3 DEF HandInv, TablesInv
    <2>2. seen[v] \in stored'
      <3>1. pc[w] = "sweep" => seen[w] # seen[v]
        BY <2>1 DEF Detaching
      <3>2. pc[w] = "objects" => seen[v] \notin Attached(id[w])
        BY <1>1, <2>1 DEF HandInv, Attached, PageIds
      <3> QED
        BY <2>1, <3>1, <3>2, FilesMove
    <2>3. fileOf'[seen[v]] = 0
      BY <2>1, FilesMove DEF TablesInv
    <2>4. CASE Uploaded(w) \/ FileFound(w)
      <3>1. seen'[w] = keys + 1 \/ (seen'[w] \in Files /\ fileOf[seen'[w]] # 0)
        BY <2>4, Zenon DEF Uploaded, FileFound, Moved
      <3>2. seen[v] <= keys
        <4>1. seen[v] \in 1 .. keys
          BY <1>2, <2>1
        <4> QED
          BY <1>2, <4>1
      <3>3. seen'[w] # seen[v]
        BY <1>2, <2>1, <3>1, <3>2
      <3> QED
        BY <2>2, <2>3, <3>3
    <2>5. CASE ~(Uploaded(w) \/ FileFound(w))
      <3>1. Recording(w)' \/ Detaching(w)' =>
                seen'[w] = seen[w] /\ (Recording(w) \/ Detaching(w))
        BY <2>5 DEF Effect, Arrived, Answered, Began, Locked, RolledBack, Inserted, Compared,
           Committed, Queried, Permitted, Found, ObjectsRemoved, Deleted, Renamed, Recorded,
           FileRemoved, Swept, Went, Ended, Moved, Detaching, Recording, HandlersInv
      <3> QED
        BY <2>1, <2>2, <2>3, <3>1
    <2> QED
      BY <2>4, <2>5
  <1>4. Detaching(v) => seen[v] \in 1 .. keys'
    BY <1>1, <1>2 DEF HandInv
  <1>5. pc[v] = "sweep" => fileOf'[seen[v]] = 0
    <2>1. SUFFICES ASSUME pc[v] = "sweep" PROVE fileOf'[seen[v]] = 0
      OBVIOUS
    <2>2. /\ fileOf[seen[v]] = 0 /\ Recording(w) => seen[w] # seen[v]
      BY <1>0, <1>1, <2>1 DEF HandInv, Detaching
    <2>3. Detaching(v) /\ seen[v] \in 1 .. keys
      BY <1>1, <2>1 DEF Detaching, HandInv
    <2>4. fileOf[seen[v]] = 0 /\ seen[v] \in Files
      BY <1>1, <2>1, <2>3, KeysAreFiles DEF HandInv
    <2> QED
      BY <2>1, <2>2, <2>4, FilesMove DEF TablesInv
  <1>6. \A u \in Writers \ {v, w} : /\ pc'[u] = pc[u] /\ seen'[u] = seen[u]
                                    /\ Detaching(u)' <=> Detaching(u)
                                    /\ Recording(u)' <=> Recording(u)
    BY PagesMove DEF Detaching, Recording
  <1> QED
    BY <1>0, <1>1, <1>3, <1>4, <1>5, <1>6 DEF HandInv

\* Nor by a request that comes to hold it.
LEMMA FilesStay ==
    ASSUME TablesInv, RequestsInv, HandlersInv, CountsInv, PagesInv, SavesInv, FilesInv,
           NEW w \in Writers, Effect(w)
    PROVE  FilesInv'
  <1>1. keys \in Nat /\ stored \subseteq 1 .. keys /\ HandInv(w)
    BY DEF CountsInv, FilesInv
  <1>2. stored' \subseteq 1 .. keys'
    <2>1. stored' \subseteq stored \/ (stored' = stored \union {keys + 1} /\ keys' = keys + 1)
      BY FilesMove
    <2>2. keys' = keys \/ keys' = keys + 1
      BY FilesMove
    <2>3. \A a \in stored : a \in 1 .. keys'
      <3>1. \A a \in 1 .. keys : a \in 1 .. keys'
        BY <1>1, <2>2
      <3> QED
        BY <1>1, <3>1
    <2>4. keys' = keys + 1 => keys + 1 \in 1 .. keys'
      BY <1>1
    <2> QED
      BY <2>1, <2>3, <2>4
  <1>3. SUFFICES HandInv(w)'
    BY <1>2, ListedFilesStay, OthersHold DEF FilesInv
  <1>4. CASE pc'[w] \in Saving \union {"idle", "look", "find"}
    BY <1>4 DEF HandInv, Detaching, Recording, Saving
  <1>5. CASE Answered(w) /\ pc'[w] # "idle" /\ pc'[w] \notin Saving
    BY <1>1, <1>5 DEF Answered, Went, Ended, Moved, HandInv, Detaching, Recording,
       HandlersInv, SameFiles, Saving
  <1>6. CASE Found(w)
    BY <1>6 DEF Found, Moved, HandInv, Detaching, Recording, HandlersInv, PageAt
  <1>7. CASE ObjectsRemoved(w)
    BY <1>1, <1>7 DEF ObjectsRemoved, Went, Moved, HandInv, Detaching, Recording
  <1>8. CASE Uploaded(w)
    <2>1. /\ pc[w] = "upload" /\ pc'[w] = "record" /\ seen'[w] = keys + 1 /\ id'[w] = id[w]
          /\ keys + 1 \in stored' /\ fileOf' = fileOf
      BY <1>8 DEF Uploaded, Moved
    <2>2. keys + 1 \in Files
      BY <2>1, Room
    <2>3. fileOf[keys + 1] = 0
      BY <1>1, <2>2 DEF FilesInv, FileInv
    <2>4. \A v \in Writers \ {w} : Recording(v)' \/ Detaching(v)' => seen'[v] # keys + 1
      <3>1. SUFFICES ASSUME NEW v \in Writers \ {w}, Recording(v) \/ Detaching(v)
                     PROVE  seen[v] # keys + 1
        BY PagesMove DEF Detaching, Recording
      <3>2. seen[v] \in 1 .. keys
        BY <1>1, <3>1 DEF FilesInv, HandInv
      <3> QED
        BY <1>1, <3>2
    <2>5. id[w] \in PageIds
      BY <1>1, <2>1 DEF HandInv
    <2> QED
      BY <2>1, <2>3, <2>4, <2>5 DEF HandInv, Detaching, Recording
  <1>9. CASE FileFound(w)
    <2>1. PICK a \in Files : /\ fileOf[a] # 0 /\ pc'[w] = "allowed" /\ seen'[w] = a
                             /\ id'[w] = fileOf[a]
      BY <1>9, Zenon DEF FileFound, Moved
    <2>2. a \in 1 .. keys /\ fileOf[a] \in PageIds
      BY <1>1, <2>1 DEF FilesInv, FileInv, TablesInv, Files, PageIds
    <2>3. keys' = keys
      BY <1>9 DEF FileFound, SameFiles
    <2> QED
      BY <2>1, <2>2, <2>3 DEF HandInv, Recording
  <1>10. CASE FileRemoved(w)
    <2>1. /\ pc[w] = "remove" /\ pc'[w] = "sweep" /\ seen'[w] = seen[w] /\ keys' = keys
          /\ fileOf' = [fileOf EXCEPT ![seen[w]] = 0]
      BY <1>10 DEF FileRemoved, Went, Moved
    <2>2. seen[w] \in 1 .. keys
      BY <1>1, <2>1 DEF HandInv, Detaching
    <2>3. seen[w] \in Files
      BY <2>2, KeysAreFiles
    <2> QED
      BY <2>1, <2>2, <2>3 DEF HandInv, Recording, TablesInv
  <1>11. CASE Queried(w)
    <2>1. /\ pc[w] \in {"apply", "record"} /\ pc'[w] = "query" /\ req'[w] = req[w]
          /\ id'[w] = id[w] /\ seen'[w] = seen[w] /\ fileOf' = fileOf /\ stored' = stored
      BY <1>11, Zenon DEF Queried, Went, Moved, SameFiles
    <2>2. (Recording(w)' => Recording(w)) /\ ~Detaching(w)' /\ id[w] \in PageIds
      BY <1>1, <2>1 DEF Recording, Detaching, HandlersInv, HandInv
    <2>3. \A v \in Writers \ {w} :
             /\ Recording(v)' <=> Recording(v)
             /\ Detaching(v)' <=> Detaching(v)
             /\ seen'[v] = seen[v]
      BY PagesMove DEF Recording, Detaching
    <2> QED
      BY <1>1, <2>1, <2>2, <2>3 DEF HandInv
  <1> QED
    BY <1>4, <1>5, <1>6, <1>7, <1>8, <1>9, <1>10, <1>11 DEF Effect, Arrived, Began, Locked,
       RolledBack, Inserted, Compared, Committed, Deleted, Renamed, Recorded, Swept, Permitted,
       Went, Ended, Moved, Saving

----------------------------------------------------------------------------
(* The theorems.                                                           *)

\* Nothing has been asked, and the pool is full.
LEMMA Starts == Init => WikiInv
  <1> SUFFICES ASSUME Init PROVE WikiInv
    OBVIOUS
  <1>0. /\ NoRequest \in Requests /\ NoRequest.title \in Titles /\ None \notin Paths
        /\ MaxRequests \in Nat /\ Conns \in Nat
    BY NoRequestType, Parts, Bounds
  <1>1. /\ pathOf = [p \in PageIds |-> None] /\ titleOf = [p \in PageIds |-> NoRequest.title]
        /\ writable = PageIds /\ pages = 0 /\ revs = <<>> /\ lock = [p \in PageIds |-> None]
        /\ pending = [x \in Paths |-> None] /\ fileOf = [a \in Files |-> 0] /\ keys = 0
        /\ stored = {} /\ free = Conns /\ asked = 0
    BY Zenon DEF Init
  <1>2. /\ pc = [w \in Writers |-> "idle"] /\ req = [w \in Writers |-> NoRequest]
        /\ id = [w \in Writers |-> 0] /\ seen = [w \in Writers |-> 0]
    BY Zenon DEF Init
  <1>3. TablesInv
    BY <1>0, <1>1 DEF TablesInv
  <1>4. RequestsInv
    <2>1. pc \in [Writers -> Calls]
      BY <1>2 DEF Calls
    <2> QED
      BY <1>0, <1>1, <1>2, <2>1 DEF RequestsInv
  <1>5. HandlersInv
    BY <1>2 DEF HandlersInv, Saving
  <1>6. CountsInv
    <2>1. ToInsert = {} /\ ToWrite = {} /\ ToUpload = {} /\ Holding = {}
      BY <1>2 DEF ToInsert, ToWrite, ToUpload, Holding, Saving
    <2>2. IsFiniteSet({}) /\ Cardinality({}) = 0
      BY FS_EmptySet
    <2>3. Len(revs) = 0
      BY <1>1
    <2> QED
      BY <1>0, <1>1, <2>1, <2>2, <2>3 DEF CountsInv
  <1>7. PagesInv
    BY <1>1, <1>2 DEF PagesInv
  <1>8. SavesInv
    BY <1>2 DEF SavesInv, SaveInv, Saving, Creating, Editing
  <1>9. FilesInv
    BY <1>1, <1>2 DEF FilesInv, FileInv, HandInv, Detaching, Recording
  <1>10. HistoryInv
    BY <1>1 DEF HistoryInv
  <1> QED
    BY <1>3, <1>4, <1>5, <1>6, <1>7, <1>8, <1>9, <1>10 DEF WikiInv

\* A step that takes nobody further leaves it all as it is.
LEMMA NothingKeeps ==
    ASSUME WikiInv, Nothing, TablesInv'
    PROVE  WikiInv'
  <1> USE DEF Nothing, SamePages, SameLocks, SameFiles, SamePool
  <1>1. RequestsInv' /\ HandlersInv'
    BY Zenon DEF WikiInv, RequestsInv, HandlersInv
  <1>2. CountsInv'
    BY Zenon DEF WikiInv, CountsInv, ToInsert, ToWrite, ToUpload, Holding
  <1>3. PagesInv' /\ HistoryInv'
    BY DEF WikiInv, PagesInv, HasLatest, History, HistoryInv
  <1>4. SavesInv'
    BY DEF WikiInv, SavesInv, SaveInv, Creating, Editing, History, PageAt
  <1>5. FilesInv'
    BY DEF WikiInv, FilesInv, FileInv, HandInv, Detaching, Recording, Deleting
  <1> QED
    BY <1>1, <1>2, <1>3, <1>4, <1>5 DEF WikiInv

\* The invariant survives every step.
LEMMA StepKeeps == WikiInv /\ [Next]_vars => WikiInv'
  <1> SUFFICES ASSUME WikiInv, [Next]_vars PROVE WikiInv'
    OBVIOUS
  <1>0. /\ TablesInv /\ RequestsInv /\ HandlersInv /\ CountsInv
        /\ PagesInv /\ SavesInv /\ FilesInv /\ HistoryInv
    BY DEF WikiInv
  <1>1. ASSUME NEW w \in Writers, Request(w) \/ Step(w)
        PROVE  WikiInv'
    <2>1. Effect(w)
      BY <1>0, <1>1, Effects
    <2>2. TablesInv'
      BY <1>0, <1>1, <2>1, TablesStay
    <2>3. RequestsInv' /\ HandlersInv' /\ CountsInv'
      BY <1>0, <2>1, HandlersStay, CountsStay
    <2>4. PagesInv' /\ SavesInv' /\ FilesInv' /\ HistoryInv'
      BY <1>0, <2>1, <2>2, PagesStay, SavesStay, FilesStay, HistoryStay
    <2> QED
      BY <2>2, <2>3, <2>4 DEF WikiInv
  <1>3. CASE UNCHANGED vars
    <2>1. Nothing /\ titleOf' = titleOf /\ writable' = writable
      BY <1>3, Zenon DEF vars, dbVars, pageVars, fileVars, Nothing, SamePages, SameLocks,
         SameFiles, SamePool
    <2>2. TablesInv'
      BY <1>0, <2>1 DEF TablesInv, Nothing, SamePages, SameLocks, SameFiles
    <2> QED
      BY <2>1, <2>2, NothingKeeps
  <1> QED
    BY <1>1, <1>3 DEF Next

\* The invariant holds at all times.
LEMMA Invariance == Spec => []WikiInv
  BY Starts, StepKeeps, PTL DEF Spec

\* Every table and every request keeps its type, whatever is asked.
THEOREM WikiTypeCorrect == Spec => []TypeOK
  <1>1. WikiInv => TypeOK
    <2> SUFFICES ASSUME WikiInv PROVE TypeOK
      OBVIOUS
    <2>0. TablesInv /\ RequestsInv /\ HandlersInv /\ CountsInv
      BY DEF WikiInv
    <2>1. /\ pages \in 0 .. MaxRequests /\ keys \in 0 .. MaxRequests
          /\ Len(revs) <= MaxRequests
      BY <2>0, Room
    <2>2. free \in 0 .. Conns
      <3>1. free \in Nat /\ Cardinality(Holding) \in Nat /\ free + Cardinality(Holding) = Conns
        BY <2>0, FS_CardinalityType DEF CountsInv
      <3> QED
        BY <3>1, Bounds
    <2>3. \A r \in DOMAIN revs : revs[r] \in [page : PageIds, content : Contents,
                                              base : {Any, 0} \union RevIds]
      <3>1. \A r \in DOMAIN revs : revs[r] \in Revisions
        BY <2>0 DEF TablesInv
      <3> QED
        BY <3>1, Zenon DEF Revisions
    <2> QED
      BY <2>0, <2>1, <2>2, <2>3 DEF TypeOK, TablesInv, RequestsInv, Calls
  <1> QED
    BY <1>1, Invariance, PTL

\* No save of an edited page overwrites a revision its editor has not seen,
\* and none that meant to create a page lands on another's: save-wiki-page
\* compares the base under the page's row lock, whatever runs beside it.
THEOREM NoUpdateIsLost == Spec => []NoLostUpdate
  <1>1. WikiInv => NoLostUpdate
    <2> SUFFICES ASSUME HistoryInv, revs \in Seq(Revisions), NEW r \in DOMAIN revs,
                        NEW earlier, earlier = {s \in 1 .. r - 1 : revs[s].page = revs[r].page}
                 PROVE  CASE revs[r].base = Any -> TRUE
                          [] revs[r].base = 0   -> earlier = {}
                          [] OTHER -> /\ revs[r].base \in earlier
                                      /\ \A s \in earlier : s <= revs[r].base
      BY DEF NoLostUpdate, WikiInv, TablesInv
    <2>1. /\ revs[r].base \notin {Any, 0} =>
                revs[r].base \in 1 .. r - 1 /\ revs[revs[r].base].page = revs[r].page
          /\ \A s \in 1 .. r - 1 : revs[s].page = revs[r].page =>
                revs[r].base = Any \/ (revs[r].base # 0 /\ s <= revs[r].base)
      BY DEF HistoryInv
    <2>2. CASE revs[r].base = Any
      BY <2>2 DEF Any
    <2>3. CASE revs[r].base = 0
      <3>1. earlier = {}
        BY <2>1, <2>3 DEF Any
      <3> QED
        BY <2>3, <3>1 DEF Any
    <2>4. CASE revs[r].base \notin {Any, 0}
      <3>1. revs[r].base \in earlier /\ \A s \in earlier : s <= revs[r].base
        BY <2>1, <2>4
      <3> QED
        BY <2>4, <3>1 DEF Any
    <2> QED
      BY <2>2, <2>3, <2>4
  <1> QED
    BY <1>1, Invariance, PTL

\* Opening a listed page's path shows that page and no other, a search finds
\* it, and every file listed on it can be downloaded until the page's deletion
\* has begun, whatever creates, renames, uploads and deletions run at once.
THEOREM PagesStayWhole == Spec => []PagesAreWhole
  <1>1. WikiInv => PagesAreWhole
    <2> SUFFICES ASSUME WikiInv PROVE PagesAreWhole
      OBVIOUS
    <2>0. TablesInv /\ PagesInv /\ FilesInv
      BY DEF WikiInv
    <2>1. \A p \in PageIds : pathOf[p] # None => History(p) # {}
      BY <2>0 DEF PagesInv, HasLatest
    <2>2. \A p \in Listed : Shown(pathOf[p]) = {p}
      BY <2>0, <2>1 DEF Listed, Shown, PageAt, PagesInv
    <2>3. Searchable = Listed
      BY <2>1 DEF Searchable, Listed, History
    <2>4. ASSUME NEW a \in Files, fileOf[a] # 0
          PROVE  /\ fileOf[a] \in Listed
                 /\ \/ Downloadable(a)
                    \/ \E w \in Writers :
                         /\ pc[w] \in {"apply", "query"} /\ req[w].op = "delete"
                         /\ id[w] = fileOf[a]
      <3>1. fileOf[a] \in PageIds
        BY <2>0, <2>4, Bounds DEF TablesInv, PageIds
      <3> QED
        BY <2>0, <2>4, <3>1 DEF FilesInv, FileInv, Listed, Downloadable, Deleting
    <2> QED
      BY <2>2, <2>3, <2>4 DEF PagesAreWhole
  <1> QED
    BY <1>1, Invariance, PTL
============================================================================
