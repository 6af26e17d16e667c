--------------------------- MODULE ServingProofs ---------------------------
(***************************************************************************)
(* Proofs of Serving: for any rows and readers, any sizes of page and any  *)
(* number of pages.                                                        *)
(***************************************************************************)
EXTENDS Serving, TLAPS

(* What is on disk is where its handle put it. *)
RowsAreFiled ==
    /\ \A p \in due : p.to = "activity" => p.at % Micros = 0
    /\ \A p \in due : p.to = "notify" => p.user \in Users
    /\ \A r \in rows : r.db # "notify" => r.post.at % Micros = 0
    /\ \A r \in rows : r.db = "primary" /\ ~pod.both => r.for = pod.own

(* A request that continues is one that was let in. *)
QueryIsLetIn ==
    walk.open =>
        /\ walk.query.db \in {"primary", "second"} =>
            /\ walk.network \in Serves("activity")
            /\ walk.query.db = handleFor("activity", walk.network)
        /\ walk.by.kind = "user" =>
            /\ ~walk.query.everybody /\ walk.query.of = walk.by.user
            /\ walk.query.db = "notify" \/ ~walk.query.internal

(* The cursor parts what was shown from what is left. *)
CursorParts ==
    /\ walk.again = {} /\ walk.shown \subseteq Row
    /\ walk.open => \E c \in [at : Nat, id : Nat] :
        walk.cursor = {c} /\ \A r \in walk.shown : ~IsPast(r, c)

(* What was there at first is shown, was marked read, is still to come, or was lost to a cursor. *)
IsListed(q, r) == r.db = q.db /\ (q.everybody \/ r.post.user = q.of) /\ (q.internal \/ ~r.post.internal)
IsToCome(r) == walk.open /\ \A c \in walk.cursor : IsPast(r, c)
IsLost(r) == r.db = "notify" /\ LostToTheCursor(r)
NothingIsForgotten ==
    /\ \A r \in walk.first : IsListed(walk.query, r) /\ r.post \notin due
    /\ \A r \in walk.first \cap rows :
        \/ r \in walk.shown
        \/ walk.query.unread /\ IsRead(r)
        \/ IsToCome(r)
        \/ IsLost(r)

-----------------------------------------------------------------------------
LEMMA CursorIsEarlier ==
    ASSUME NEW r \in Row
    PROVE  /\ encodeCursor(r).at \in Int /\ encodeCursor(r).at <= r.post.at
           /\ encodeCursor(r).at \in Nat /\ encodeCursor(r).id = r.post.id
           /\ r.post.at % Micros = 0 => encodeCursor(r).at = r.post.at
  BY PostsAreDelivered DEF encodeCursor, Row, Post

(* The steps, by what they change. *)
Turns(q, w, of) == \E page \in SUBSET of, limit \in Limits :
    IsPage(page, of, limit) /\ walk' \in Turned(w, page, of)
Fresh(p, network, q, of) ==
    [NoWalk EXCEPT !.by = p, !.network = network, !.query = q, !.first = of]
IsFirstPage ==
    \E p \in Principals, q \in [route : {"/feed", "/notifications"}, of : Users \cup {Nobody},
                                everybody : BOOLEAN, internal : BOOLEAN, unread : BOOLEAN,
                                db : Databases], network \in Networks :
        /\ q.db # "notify" => network \in Serves("activity") /\ q.db = handleFor("activity", network)
        /\ p.kind = "user" => ~q.everybody /\ q.of = p.user /\ (q.db = "notify" \/ ~q.internal)
        /\ Turns(q, Fresh(p, network, q, Candidates(q, {})), Candidates(q, {}))
IsNextPage == walk.open /\ Turns(walk.query, walk, Candidates(walk.query, walk.cursor))
IsOneRecord ==
    \E p \in Principals, r \in rows, network \in Serves("activity") :
        /\ r.db = handleFor("activity", network) /\ hasReadAccess(p, r)
        /\ walk' = [NoWalk EXCEPT !.by = p, !.network = network,
                                  !.query = [route |-> "/feed/:id"], !.shown = {r}]
Leaves(kept) == Keeps(kept) /\ kept \subseteq rows
Arrives(p, row) ==
    /\ p \in due /\ due' = due \ {p} /\ rows' = rows \cup {row}
    /\ UNCHANGED <<pod, readAt, walk>>
    /\ row.post = p /\ row.for \in Networks
    /\ row = [post |-> p, for |-> row.for, db |-> row.db]
    /\ \/ row.db = "primary" /\ p.to = "activity" /\ row.for \in Serves("activity")
       \/ row.db = "notify" /\ p.to = "notify"
Marks == \E r \in rows, u \in Users :
    /\ r.db = "notify" /\ IsMine(r, u) /\ readAt' = readAt \cup {[row |-> r, by |-> u]}
    /\ UNCHANGED <<pod, due, rows, walk>>

LEMMA SubjectsAreUsers ==
    ASSUME NEW p \in Principals, NEW requested \in Users \cup {Nobody}
    PROVE  /\ subjectUserId(p, requested) \subseteq Users
           /\ p.kind = "user" => subjectUserId(p, requested) \subseteq {p.user}
           /\ feedOwner(p, requested) \subseteq Users
           /\ p.kind = "user" => feedOwner(p, requested) \subseteq {p.user}
  <1>1. p.kind \in {"user", "admin", "service"} /\ (p.kind # "service" => p.user \in Users)
    BY PostsAreDelivered DEF Principal
  <1> QED
    BY <1>1 DEF subjectUserId, feedOwner

LEMMA StampsAreNetworks ==
    ASSUME pod \in Pods, NEW stamp \in Networks \cup {Unstamped}
    PROVE  requestNetwork(stamp) \in Networks
  BY DEF Pods, requestNetwork, Networks, Unstamped

LEMMA Opens ==
    ASSUME pod \in Pods, NEW p \in Principals, NEW requested \in Users \cup {Nobody},
           NEW stamp \in Networks \cup {Unstamped}, NEW unread \in BOOLEAN,
           listFeed(p, requested, stamp) \/ listNotifications(p, requested, stamp, unread)
    PROVE  IsFirstPage
  <1> DEFINE network == requestNetwork(stamp)
  <1>1. network \in Networks
    BY StampsAreNetworks
  <1>2. p.kind \in {"user", "admin", "service"} /\ (p.kind # "service" => p.user \in Users)
    BY PostsAreDelivered DEF Principal
  <1>3. CASE listFeed(p, requested, stamp)
    <2>1. PICK q \in FeedQueries(p, requested, network) : Open(p, q, stamp)
      BY <1>3 DEF listFeed
    <2>2. PICK user \in Users \cup {Nobody}, everybody \in BOOLEAN :
            /\ q = [route |-> "/feed", of |-> user, everybody |-> everybody,
                    internal |-> isAdmin(p), unread |-> FALSE, db |-> handleFor("activity", network)]
            /\ p.kind = "user" => ~everybody /\ user = p.user
      BY <2>1, <1>2, SubjectsAreUsers DEF FeedQueries, isAdmin
    <2>3. q.db \in Databases /\ network \in Serves("activity")
      BY <2>2, <1>3 DEF handleFor, Databases, listFeed, Resolves
    <2>4. Turns(q, Fresh(p, network, q, Candidates(q, {})), Candidates(q, {}))
      BY <2>1 DEF Open, Turns, Fresh
    <2> QED
      BY <2>2, <2>3, <2>4, <1>1 DEF IsFirstPage, isAdmin
  <1>4. CASE listNotifications(p, requested, stamp, unread)
    <2>1. PICK q \in NotificationQueries(p, requested, unread) : Open(p, q, stamp)
      BY <1>4 DEF listNotifications
    <2>2. PICK user \in Users \cup {Nobody} :
            /\ q = [route |-> "/notifications", of |-> user, everybody |-> FALSE, internal |-> TRUE,
                    unread |-> unread, db |-> "notify"]
            /\ p.kind = "user" => user = p.user
      BY <2>1, <1>2, SubjectsAreUsers DEF NotificationQueries, isAdmin
    <2>4. Turns(q, Fresh(p, network, q, Candidates(q, {})), Candidates(q, {}))
      BY <2>1 DEF Open, Turns, Fresh
    <2> QED
      BY <2>2, <2>4, <1>1 DEF IsFirstPage, Databases
  <1> QED
    BY <1>3, <1>4

LEMMA Steps ==
    ASSUME pod \in Pods, Next
    PROVE  \/ \E p \in due, row \in [post : due, for : Networks, db : Databases] : Arrives(p, row)
           \/ \E kept \in SUBSET rows : Leaves(kept)
           \/ (IsFirstPage \/ IsNextPage \/ IsOneRecord) /\ UNCHANGED <<pod, due, rows, readAt>>
           \/ Marks
  <1>1. CASE Deliver
    <2>1. PICK p \in due, stamp \in Networks \cup {Unstamped} :
            IngestActivity(p, stamp) \/ IngestNotify(p, stamp)
      BY <1>1 DEF Deliver
    <2>2. requestNetwork(stamp) \in Networks
      BY StampsAreNetworks
    <2>3. CASE IngestActivity(p, stamp)
      <3>1. Arrives(p, [post |-> p, for |-> requestNetwork(stamp), db |-> "primary"])
        BY <2>3, <2>2 DEF Arrives, IngestActivity, Resolves
      <3> QED
        BY <3>1, <2>2 DEF Databases
    <2>4. CASE IngestNotify(p, stamp)
      <3>1. Arrives(p, [post |-> p, for |-> requestNetwork(stamp), db |-> "notify"])
        BY <2>4, <2>2 DEF Arrives, IngestNotify
      <3> QED
        BY <3>1, <2>2 DEF Databases
    <2> QED
      BY <2>1, <2>3, <2>4
  <1>2. CASE Remove
    <2>1. PICK kept \in SUBSET rows : Keeps(kept)
      <3>1. ASSUME NEW u \in Users, NEW db \in Databases, eraseUser(u, db)
            PROVE  \E kept \in SUBSET rows : Keeps(kept)
        BY <3>1 DEF eraseUser
      <3>2. ASSUME NEW r \in rows, pruneRecords(r)
            PROVE  \E kept \in SUBSET rows : Keeps(kept)
        <4>1. rows \ {r} \in SUBSET rows
          OBVIOUS
        <4> QED
          BY <3>2, <4>1 DEF pruneRecords
      <3> QED
        BY <1>2, <3>1, <3>2 DEF Remove
    <2>2. Leaves(kept)
      BY <2>1 DEF Leaves
    <2> QED
      BY <2>2
  <1>3. CASE Serve
    <2>1. PICK p \in Principals, stamp \in Networks \cup {Unstamped} :
            \/ \E requested \in Users \cup {Nobody} :
                \/ listFeed(p, requested, stamp)
                \/ \E unread \in BOOLEAN : listNotifications(p, requested, stamp, unread)
            \/ \E r \in rows : getRecord(p, r, stamp) \/ markRead(p, r, stamp)
      BY <1>3 DEF Serve
    <2>2. ASSUME NEW requested \in Users \cup {Nobody}, NEW unread \in BOOLEAN,
                 listFeed(p, requested, stamp) \/ listNotifications(p, requested, stamp, unread)
          PROVE  IsFirstPage /\ UNCHANGED <<pod, due, rows, readAt>>
      <3>1. UNCHANGED <<pod, due, rows, readAt>>
        BY <2>2 DEF listFeed, listNotifications, Open
      <3> QED
        BY <3>1, <2>2, Opens
    <2>3. ASSUME NEW r \in rows, getRecord(p, r, stamp)
          PROVE  IsOneRecord /\ UNCHANGED <<pod, due, rows, readAt>>
      BY <2>3 DEF getRecord, IsOneRecord, Resolves
    <2>4. ASSUME NEW r \in rows, markRead(p, r, stamp)
          PROVE  Marks
      <3>1. PICK u \in subjectUserId(p, Nobody) :
              IsMine(r, u) /\ readAt' = readAt \cup {[row |-> r, by |-> u]}
        BY <2>4 DEF markRead
      <3>2. u \in Users
        BY <3>1, SubjectsAreUsers
      <3> QED
        BY <3>1, <3>2, <2>4 DEF markRead, Marks
    <2>5. CASE \E r \in rows : getRecord(p, r, stamp) \/ markRead(p, r, stamp)
      BY <2>5, <2>3, <2>4
    <2>6. CASE \E requested \in Users \cup {Nobody} :
                \/ listFeed(p, requested, stamp)
                \/ \E unread \in BOOLEAN : listNotifications(p, requested, stamp, unread)
      <3>1. PICK requested \in Users \cup {Nobody}, unread \in BOOLEAN :
                listFeed(p, requested, stamp) \/ listNotifications(p, requested, stamp, unread)
        BY <2>6
      <3> QED
        BY <3>1, <2>2
    <2> QED
      BY <2>1, <2>5, <2>6
  <1>4. CASE NextPage
    <2>1. IsNextPage
      BY <1>4 DEF NextPage, IsNextPage, Turns
    <2> QED
      BY <2>1, <1>4 DEF NextPage
  <1> QED
    BY <1>1, <1>2, <1>3, <1>4 DEF Next

-----------------------------------------------------------------------------
LEMMA FiledAtFirst == Init => TypeOK /\ RowsAreFiled
  <1> SUFFICES ASSUME Init PROVE TypeOK /\ RowsAreFiled
    OBVIOUS
  <1>1. pod \in Pods /\ due \in Stories /\ rows \subseteq Inherited /\ readAt = {}
    BY DEF Init
  <1>2. TypeOK
    BY <1>1, PostsAreDelivered, InheritanceIsOfTestnet DEF TypeOK
  <1>3. RowsAreFiled
    BY <1>1, PostsAreDelivered, InheritanceIsOfTestnet DEF RowsAreFiled
  <1> QED
    BY <1>2, <1>3

LEMMA FiledNext == TypeOK /\ RowsAreFiled /\ [Next]_vars => TypeOK' /\ RowsAreFiled'
  <1> SUFFICES ASSUME TypeOK, RowsAreFiled, [Next]_vars PROVE TypeOK' /\ RowsAreFiled'
    OBVIOUS
  <1>1. pod \in Pods
    BY DEF TypeOK
  <1>2. CASE UNCHANGED <<pod, due, rows, readAt>>
    BY <1>2 DEF TypeOK, RowsAreFiled
  <1>3. ASSUME NEW p \in due, NEW row \in [post : due, for : Networks, db : Databases], Arrives(p, row)
        PROVE  TypeOK' /\ RowsAreFiled'
    <2>1. row.db # "second" /\ row.post = p /\ p \in Post /\ row \in Row
      BY <1>3 DEF Arrives, TypeOK, Row
    <2>2. TypeOK'
      BY <2>1, <1>3 DEF Arrives, TypeOK
    <2>3. row.db # "notify" => p.at % Micros = 0
      BY <2>1, <1>3 DEF Arrives, RowsAreFiled
    <2>4. row.db = "primary" /\ ~pod.both => row.for = pod.own
      BY <1>3 DEF Arrives, Serves
    <2>5. rows' = rows \cup {row} /\ due' \subseteq due /\ pod' = pod
      BY <1>3 DEF Arrives
    <2>6. RowsAreFiled'
      BY <2>1, <2>3, <2>4, <2>5 DEF RowsAreFiled
    <2> QED
      BY <2>2, <2>6
  <1>4. ASSUME NEW kept \in SUBSET rows, Leaves(kept)
        PROVE  TypeOK' /\ RowsAreFiled'
    <2>1. rows' \subseteq rows /\ UNCHANGED <<pod, due>>
          /\ readAt' = {m \in readAt : m.row \in rows'}
      BY <1>4 DEF Leaves, Keeps
    <2> QED
      BY <2>1 DEF TypeOK, RowsAreFiled
  <1>5. CASE Marks
    BY <1>5 DEF Marks, TypeOK, RowsAreFiled
  <1>6. CASE UNCHANGED vars
    BY <1>6, <1>2 DEF vars
  <1> QED
    BY <1>1, <1>2, <1>3, <1>4, <1>5, <1>6, Steps

(* Rows are well formed and each where the handle of its inbox put it.                             *)
THEOREM TypeCorrect == Spec => []TypeOK
  <1>1. Init => TypeOK /\ RowsAreFiled
    BY FiledAtFirst
  <1>2. TypeOK /\ RowsAreFiled /\ [Next]_vars => (TypeOK /\ RowsAreFiled)'
    BY FiledNext
  <1> QED
    BY <1>1, <1>2, PTL DEF Spec

-----------------------------------------------------------------------------
LEMMA TurnKeeps ==
    ASSUME NEW q, NEW w, NEW of, Turns(q, w, of)
    PROVE  /\ walk'.by = w.by /\ walk'.network = w.network /\ walk'.query = w.query
           /\ walk'.first = w.first
           /\ walk'.shown \subseteq w.shown \cup of
  BY DEF Turns, Turned

(* Whom a row may be shown to, and under which estate. *)
IsOfEstate(r, network) == r.db # "notify" /\ r.for # network => pod.both /\ network = pod.own
IsFor(r, p) == p.kind = "user" => r.post.user = p.user /\ (r.db = "notify" \/ ~r.post.internal)

LEMMA HandlesKeepEstates ==
    ASSUME TypeOK, RowsAreFiled, NEW r \in rows, NEW network \in Networks,
           r.db # "notify" => network \in Serves("activity") /\ r.db = handleFor("activity", network)
    PROVE  IsOfEstate(r, network)
  <1>1. CASE r.db = "notify"
    BY <1>1 DEF IsOfEstate
  <1>2. CASE r.db # "notify" /\ pod.both /\ network # pod.own
    <2>1. r.db = "second" /\ pod.own = "mainnet" /\ network = "testnet"
      BY <1>2 DEF handleFor, TypeOK, Pods, Networks
    <2>2. r.for = "testnet"
      BY <2>1, InheritanceIsOfTestnet DEF TypeOK
    <2> QED
      BY <2>1, <2>2 DEF IsOfEstate
  <1>3. CASE r.db # "notify" /\ ~pod.both
    <2>1. r.db = "primary" /\ network = pod.own
      BY <1>3 DEF handleFor, Serves
    <2> QED
      BY <2>1, <1>3 DEF IsOfEstate, RowsAreFiled
  <1>4. CASE r.db # "notify" /\ pod.both /\ network = pod.own
    BY <1>4 DEF IsOfEstate
  <1> QED
    BY <1>1, <1>2, <1>3, <1>4

(* What the proof carries along beside the two properties. *)
Admitted ==
    /\ QueryIsLetIn /\ walk.network \in Networks
    /\ \A r \in walk.shown : IsOfEstate(r, walk.network) /\ IsFor(r, walk.by)
    /\ \A m \in readAt : m.by = m.row.post.user

LEMMA AdmittedNext ==
    TypeOK /\ RowsAreFiled /\ Admitted /\ [Next]_vars => Admitted'
  <1> SUFFICES ASSUME TypeOK, RowsAreFiled, Admitted, [Next]_vars PROVE Admitted'
    OBVIOUS
  <1>1. pod \in Pods
    BY DEF TypeOK
  <1>2. ASSUME UNCHANGED <<pod, walk>>, \A m \in readAt' : m.by = m.row.post.user
        PROVE  Admitted'
    BY <1>2 DEF Admitted, QueryIsLetIn, IsOfEstate, IsFor, Serves, handleFor
  <1>3. ASSUME NEW p \in due, NEW row, Arrives(p, row)
        PROVE  Admitted'
    BY <1>3, <1>2 DEF Arrives, Admitted
  <1>4. ASSUME NEW kept \in SUBSET rows, Leaves(kept)
        PROVE  Admitted'
    BY <1>4, <1>2 DEF Leaves, Keeps, Admitted
  <1>5. CASE Marks
    BY <1>5, <1>2 DEF Marks, Admitted, IsMine
  <1>6. CASE IsFirstPage /\ UNCHANGED <<pod, due, rows, readAt>>
    <2>1. PICK p \in Principals, q \in [route : {"/feed", "/notifications"}, of : Users \cup {Nobody},
                                everybody : BOOLEAN, internal : BOOLEAN, unread : BOOLEAN,
                                db : Databases], network \in Networks :
            /\ q.db # "notify" => network \in Serves("activity") /\ q.db = handleFor("activity", network)
            /\ p.kind = "user" => ~q.everybody /\ q.of = p.user /\ (q.db = "notify" \/ ~q.internal)
            /\ Turns(q, Fresh(p, network, q, Candidates(q, {})), Candidates(q, {}))
      BY <1>6 DEF IsFirstPage
    <2> DEFINE of == Candidates(q, {})
    <2>2. /\ walk'.by = p /\ walk'.network = network /\ walk'.query = q
          /\ walk'.shown \subseteq of
      <3> DEFINE w == Fresh(p, network, q, of)
      <3>1. Turns(q, w, of)
        BY <2>1
      <3>2. w.by = p /\ w.network = network /\ w.query = q /\ w.shown = {}
        BY DEF Fresh, NoWalk
      <3> HIDE DEF w, of
      <3> QED
        BY <3>1, <3>2, TurnKeeps
    <2>3. ASSUME NEW r \in of PROVE IsOfEstate(r, network) /\ IsFor(r, p)
      <3>1. r \in rows /\ Matches(q, r)
        BY DEF Candidates
      <3>2. r.db = q.db
        BY <3>1 DEF Matches
      <3>3. IsOfEstate(r, network)
        BY <3>1, <3>2, <2>1, HandlesKeepEstates
      <3>4. IsFor(r, p)
        BY <3>1, <2>1 DEF Matches, IsFor
      <3> QED
        BY <3>3, <3>4
    <2>4. QueryIsLetIn'
      BY <2>1, <2>2, <1>6 DEF QueryIsLetIn, Serves, handleFor
    <2> HIDE DEF of
    <2>5. \A r \in walk'.shown : IsOfEstate(r, network)' /\ IsFor(r, p)
      BY <2>2, <2>3, <1>6 DEF IsOfEstate
    <2> QED
      BY <2>2, <2>4, <2>5, <1>6 DEF Admitted, IsFor, IsOfEstate
  <1>7. CASE IsNextPage /\ UNCHANGED <<pod, due, rows, readAt>>
    <2> DEFINE of == Candidates(walk.query, walk.cursor)
    <2>1. walk.open /\ Turns(walk.query, walk, of)
      BY <1>7 DEF IsNextPage
    <2>2. /\ walk'.by = walk.by /\ walk'.network = walk.network /\ walk'.query = walk.query
          /\ walk'.shown \subseteq walk.shown \cup of
      BY <2>1, TurnKeeps
    <2>3. ASSUME NEW r \in of PROVE IsOfEstate(r, walk.network) /\ IsFor(r, walk.by)
      <3>1. r \in rows /\ Matches(walk.query, r)
        BY DEF Candidates
      <3>2. r.db = walk.query.db /\ r.db \in Databases
        BY <3>1 DEF Matches, TypeOK, Row
      <3>3. IsOfEstate(r, walk.network)
        BY <3>1, <3>2, <2>1, HandlesKeepEstates DEF Admitted, QueryIsLetIn, Databases
      <3>4. IsFor(r, walk.by)
        BY <3>1, <2>1 DEF Matches, IsFor, Admitted, QueryIsLetIn
      <3> QED
        BY <3>3, <3>4
    <2>4. QueryIsLetIn'
      BY <2>1, <2>2, <1>7 DEF QueryIsLetIn, Serves, handleFor, Admitted
    <2> HIDE DEF of
    <2>5. \A r \in walk'.shown : IsOfEstate(r, walk.network)' /\ IsFor(r, walk.by)
      <3>1. \A r \in walk'.shown : IsOfEstate(r, walk.network) /\ IsFor(r, walk.by)
        BY <2>2, <2>3 DEF Admitted
      <3> QED
        BY <3>1, <2>2, <1>7 DEF IsOfEstate
    <2> QED
      BY <2>2, <2>4, <2>5, <1>7 DEF Admitted, IsFor, IsOfEstate
  <1>8. CASE IsOneRecord /\ UNCHANGED <<pod, due, rows, readAt>>
    <2>1. PICK p \in Principals, r \in rows, network \in Serves("activity") :
            /\ r.db = handleFor("activity", network) /\ hasReadAccess(p, r)
            /\ walk' = [NoWalk EXCEPT !.by = p, !.network = network,
                                      !.query = [route |-> "/feed/:id"], !.shown = {r}]
      BY <1>8 DEF IsOneRecord
    <2>2. walk'.by = p /\ walk'.network = network /\ walk'.shown = {r} /\ ~walk'.open
      BY <2>1 DEF NoWalk
    <2>3. network \in Networks
      BY <2>1, <1>1 DEF Serves, Networks, Pods
    <2>4. IsOfEstate(r, network)
      BY <2>1, <2>3, HandlesKeepEstates
    <2>5. IsFor(r, p)
      BY <2>1 DEF hasReadAccess, isAdmin, IsFor
    <2> QED
      BY <2>2, <2>3, <2>4, <2>5, <1>8 DEF Admitted, QueryIsLetIn, IsFor, IsOfEstate
  <1>9. CASE UNCHANGED vars
    BY <1>9, <1>2 DEF vars, Admitted
  <1> QED
    BY <1>1, <1>3, <1>4, <1>5, <1>6, <1>7, <1>8, <1>9, Steps

LEMMA AdmittedAtFirst == Init => Admitted
  BY DEF Init, Admitted, QueryIsLetIn, NoWalk, Networks

LEMMA AdmittedAlways == Spec => [](TypeOK /\ RowsAreFiled /\ Admitted)
  <1>1. Init => TypeOK /\ RowsAreFiled /\ Admitted
    BY FiledAtFirst, AdmittedAtFirst
  <1>2. TypeOK /\ RowsAreFiled /\ Admitted /\ [Next]_vars => (TypeOK /\ RowsAreFiled /\ Admitted)'
    BY FiledNext, AdmittedNext
  <1> QED
    BY <1>1, <1>2, PTL DEF Spec

(* Nobody is shown activity of another estate than the one asked for.                              *)
THEOREM EstatesApart == Spec => []EstatesAreKeptApart
  <1>1. Admitted => EstatesAreKeptApart
    BY DEF Admitted, EstatesAreKeptApart, IsOfEstate
  <1> QED
    BY <1>1, AdmittedAlways, PTL

(* A user is shown and marks what is his.                                                          *)
THEOREM OwnersRead == Spec => []OwnersReadTheirOwn
  <1>1. Admitted => OwnersReadTheirOwn
    BY DEF Admitted, OwnersReadTheirOwn, IsFor
  <1> QED
    BY <1>1, AdmittedAlways, PTL

-----------------------------------------------------------------------------
LEMMA OrderOfRows ==
    /\ \A a, b \in [at : Nat, id : Nat] : ~Before(a, b) \/ ~Before(b, a)
    /\ \A r \in Row, s \in Row, c \in [at : Nat, id : Nat] :
        ~IsPast(r, c) /\ IsPast(s, c) => Before(s.post, r.post)
  BY DEF Before, IsPast, Row, Post

LEMMA CursorOfLast ==
    ASSUME NEW last \in Row, NEW r \in Row
    PROVE  LET c == encodeCursor(last)
           IN  /\ c \in [at : Nat, id : Nat]
               /\ r = last \/ Before(last.post, r.post) => ~IsPast(r, c)
               /\ Before(r.post, last.post) /\ ~IsPast(r, c) => c.at <= r.post.at
               /\ Before(r.post, last.post) /\ last.post.at % Micros = 0 => IsPast(r, c)
  <1> DEFINE c == encodeCursor(last)
  <1>1. /\ c.at \in Nat /\ c.at <= last.post.at /\ c.id = last.post.id
        /\ last.post.at % Micros = 0 => c.at = last.post.at
    BY CursorIsEarlier
  <1>2. c = [at |-> c.at, id |-> c.id]
    BY DEF encodeCursor
  <1> HIDE DEF c
  <1>3. /\ last.post.at \in Nat /\ last.post.id \in Nat /\ r.post.at \in Nat /\ r.post.id \in Nat
    BY DEF Row, Post
  <1>4. c \in [at : Nat, id : Nat]
    BY <1>1, <1>2, <1>3
  <1>5. r = last \/ Before(last.post, r.post) => ~IsPast(r, c)
    BY <1>1, <1>3 DEF Before, IsPast
  <1>6. Before(r.post, last.post) /\ ~IsPast(r, c) => c.at <= r.post.at
    BY <1>1, <1>3 DEF Before, IsPast
  <1>7. Before(r.post, last.post) /\ last.post.at % Micros = 0 => IsPast(r, c)
    BY <1>1, <1>3 DEF Before, IsPast
  <1> QED
    BY <1>4, <1>5, <1>6, <1>7 DEF c

LEMMA TurnParts ==
    ASSUME NEW q, NEW w, NEW of \in SUBSET Row, Turns(q, w, of),
           w.again = {}, w.shown \in SUBSET Row,
           \A r \in w.shown, s \in of : Before(s.post, r.post),
           \A r, s \in of : r.db = s.db,
           \A r \in of : r.db # "notify" => r.post.at % Micros = 0
    PROVE  /\ CursorParts'
           /\ w.shown \subseteq walk'.shown /\ w.ends \subseteq walk'.ends
           /\ \A r \in of : r \in walk'.shown \/ IsToCome(r)' \/ IsLost(r)'
  <1>1. PICK page \in SUBSET of, limit \in Limits :
            IsPage(page, of, limit) /\ walk' \in Turned(w, page, of)
    BY DEF Turns
  <1>2. w.shown \cap page = {}
    <2>1. ASSUME NEW r \in w.shown \cap page PROVE FALSE
      <3>1. Before(r.post, r.post) /\ r.post.at \in Nat /\ r.post.id \in Nat
        BY DEF Row, Post
      <3> QED
        BY <3>1 DEF Before
    <2> QED
      BY <2>1
  <1>3. /\ walk'.shown = w.shown \cup page /\ w.ends \subseteq walk'.ends
        /\ walk'.again = {}
    BY <1>1, <1>2 DEF Turned
  <1>4. CASE page = of
    <2>1. ~walk'.open
      BY <1>4, <1>1 DEF Turned
    <2> QED
      BY <2>1, <1>3, <1>4 DEF CursorParts
  <1>5. CASE page # of
    <2>1. PICK last \in page : /\ IsLast(last, page) /\ walk'.cursor = {encodeCursor(last)}
                               /\ walk'.open /\ last \in walk'.ends
      BY <1>5, <1>1 DEF Turned
    <2> DEFINE c == encodeCursor(last)
    <2>2. c \in [at : Nat, id : Nat]
      BY CursorOfLast
    <2>3. ASSUME NEW r \in walk'.shown PROVE ~IsPast(r, c)
      <3>1. r \in Row /\ last \in Row
        BY <1>3
      <3>2. r = last \/ Before(last.post, r.post)
        BY <2>1, <1>3 DEF IsLast
      <3> QED
        BY <3>1, <3>2, CursorOfLast
    <2>4. ASSUME NEW r \in of, r \notin page PROVE IsToCome(r)' \/ IsLost(r)'
      <3>1. Before(r.post, last.post) /\ r \in Row /\ last \in Row
        BY <2>4, <1>1, <2>1 DEF IsPage
      <3>2. CASE IsPast(r, c)
        BY <3>2, <2>1 DEF IsToCome, IsPast, Before
      <3>3. CASE ~IsPast(r, c)
        <4>1. c.at <= r.post.at
          BY <3>1, <3>3, CursorOfLast
        <4>2. r.db = "notify"
          BY <3>1, <3>3, CursorOfLast
        <4> QED
          BY <4>1, <4>2, <3>1, <2>1 DEF IsLost, LostToTheCursor, Before, encodeCursor
      <3> QED
        BY <3>2, <3>3
    <2>5. CursorParts'
      BY <2>1, <2>2, <2>3, <1>3 DEF CursorParts, IsPast, Before
    <2> QED
      BY <2>4, <2>5, <1>3
  <1> QED
    BY <1>4, <1>5

LEMMA ListedNow ==
    ASSUME TypeOK, RowsAreFiled, NEW q, NEW cursor
    PROVE  LET of == Candidates(q, cursor)
           IN  /\ of \subseteq Row /\ of \subseteq rows
               /\ \A r, s \in of : r.db = s.db
               /\ \A r \in of : r.db # "notify" => r.post.at % Micros = 0
               /\ \A r \in of : IsListed(q, r) /\ r.post \notin due
               /\ \A r \in of, c \in cursor : IsPast(r, c)
               /\ \A r \in rows : IsListed(q, r) /\ (\A c \in cursor : IsPast(r, c))
                    => r \in of \/ (q.unread /\ IsRead(r))
  BY DEF TypeOK, RowsAreFiled, Candidates, Matches, IsListed

LEMMA ForgottenNext ==
    TypeOK /\ RowsAreFiled /\ CursorParts /\ NothingIsForgotten /\ [Next]_vars
        => CursorParts' /\ NothingIsForgotten'
  <1> SUFFICES ASSUME TypeOK, RowsAreFiled, CursorParts, NothingIsForgotten, [Next]_vars
               PROVE  CursorParts' /\ NothingIsForgotten'
    OBVIOUS
  <1>1. pod \in Pods
    BY DEF TypeOK
  <1>2. ASSUME UNCHANGED walk, due' \subseteq due,
               \A r \in walk.first \cap rows' : r \in rows /\ (IsRead(r) => IsRead(r)')
        PROVE  CursorParts' /\ NothingIsForgotten'
    <2>1. CursorParts'
      BY <1>2 DEF CursorParts, IsPast, Before
    <2>2. \A r : (IsToCome(r) => IsToCome(r)') /\ (IsLost(r) => IsLost(r)')
      BY <1>2 DEF IsToCome, IsLost, LostToTheCursor, IsPast, Before, encodeCursor
    <2>3. NothingIsForgotten'
      BY <1>2, <2>2 DEF NothingIsForgotten, IsListed
    <2> QED
      BY <2>1, <2>3
  <1>3. ASSUME NEW p \in due, NEW row, Arrives(p, row)
        PROVE  CursorParts' /\ NothingIsForgotten'
    <2>1. row.post = p /\ row \notin walk.first
      BY <1>3 DEF Arrives, NothingIsForgotten
    <2> QED
      BY <2>1, <1>2, <1>3 DEF Arrives, IsRead
  <1>4. ASSUME NEW kept \in SUBSET rows, Leaves(kept)
        PROVE  CursorParts' /\ NothingIsForgotten'
    <2>1. /\ rows' = kept /\ kept \subseteq rows /\ UNCHANGED <<walk, due>>
          /\ readAt' = {m \in readAt : m.row \in kept}
      BY <1>4 DEF Leaves, Keeps
    <2>2. \A r \in rows' : r \in rows /\ (IsRead(r) => IsRead(r)')
      BY <2>1 DEF IsRead
    <2> QED
      BY <2>1, <2>2, <1>2
  <1>5. CASE Marks
    BY <1>5, <1>2 DEF Marks, IsRead
  <1>6. CASE IsFirstPage /\ UNCHANGED <<pod, due, rows, readAt>>
    <2>1. PICK p, q, network : Turns(q, Fresh(p, network, q, Candidates(q, {})), Candidates(q, {}))
      BY <1>6 DEF IsFirstPage
    <2> DEFINE of == Candidates(q, {})
               w == Fresh(p, network, q, of)
    <2>2. /\ w.query = q /\ w.first = of /\ w.again = {} /\ w.shown = {}
      BY DEF Fresh, NoWalk
    <2>3. Turns(q, w, of)
      BY <2>1
    <2>4. /\ of \subseteq Row /\ \A r, s \in of : r.db = s.db
          /\ \A r \in of : r.db # "notify" => r.post.at % Micros = 0
          /\ \A r \in of : IsListed(q, r) /\ r.post \notin due
      BY ListedNow
    <2> HIDE DEF w, of
    <2>5. walk'.query = q /\ walk'.first = of
      BY <2>2, <2>3, TurnKeeps
    <2>6. /\ CursorParts'
          /\ \A r \in of : r \in walk'.shown \/ IsToCome(r)' \/ IsLost(r)'
      <3>1. of \in SUBSET Row /\ w.shown \in SUBSET Row
            /\ \A r \in w.shown, s \in of : Before(s.post, r.post)
        BY <2>2, <2>4
      <3> QED
        BY <3>1, <2>2, <2>3, <2>4, TurnParts
    <2>7. NothingIsForgotten'
      BY <2>4, <2>5, <2>6, <1>6 DEF NothingIsForgotten, IsListed
    <2> QED
      BY <2>6, <2>7
  <1>7. CASE IsNextPage /\ UNCHANGED <<pod, due, rows, readAt>>
    <2> DEFINE q == walk.query
               of == Candidates(q, walk.cursor)
    <2>1. walk.open /\ Turns(q, walk, of)
      BY <1>7 DEF IsNextPage
    <2>2. PICK c \in [at : Nat, id : Nat] : walk.cursor = {c} /\ \A r \in walk.shown : ~IsPast(r, c)
      BY <2>1 DEF CursorParts
    <2>3. /\ of \subseteq Row /\ \A r, s \in of : r.db = s.db
          /\ \A r \in of : r.db # "notify" => r.post.at % Micros = 0
          /\ \A r \in of : IsPast(r, c)
          /\ \A r \in rows : IsListed(q, r) /\ IsToCome(r) => r \in of \/ (q.unread /\ IsRead(r))
      BY <2>1, <2>2, ListedNow DEF IsToCome
    <2> HIDE DEF of
    <2>4. \A r \in walk.shown, s \in of : Before(s.post, r.post)
      BY <2>2, <2>3, OrderOfRows DEF CursorParts
    <2>5. walk'.query = q /\ walk'.first = walk.first
      BY <2>1, TurnKeeps
    <2>6. /\ CursorParts'
          /\ walk.shown \subseteq walk'.shown /\ walk.ends \subseteq walk'.ends
          /\ \A r \in of : r \in walk'.shown \/ IsToCome(r)' \/ IsLost(r)'
      <3>1. of \in SUBSET Row /\ walk.shown \in SUBSET Row /\ walk.again = {}
        BY <2>3 DEF CursorParts
      <3> QED
        BY <3>1, <2>1, <2>3, <2>4, TurnParts
    <2>7. \A r : (IsLost(r) => IsLost(r)') /\ (IsRead(r) => IsRead(r)')
      BY <2>6, <1>7 DEF IsLost, LostToTheCursor, Before, encodeCursor, IsRead
    <2>8. NothingIsForgotten'
      <3>1. \A r \in walk'.first : IsListed(walk'.query, r) /\ r.post \notin due'
        BY <2>5, <1>7 DEF NothingIsForgotten
      <3>2. ASSUME NEW r \in walk'.first \cap rows'
            PROVE  \/ r \in walk'.shown
                   \/ walk'.query.unread /\ IsRead(r)'
                   \/ IsToCome(r)' \/ IsLost(r)'
        <4>1. r \in walk.first \cap rows /\ IsListed(q, r)
          BY <2>5, <1>7 DEF NothingIsForgotten
        <4>2. r \in walk.shown \/ (q.unread /\ IsRead(r)) \/ IsToCome(r) \/ IsLost(r)
          BY <4>1 DEF NothingIsForgotten
        <4>3. CASE IsToCome(r)
          BY <4>1, <4>3, <2>3, <2>5, <2>6, <2>7
        <4> QED
          BY <4>2, <4>3, <2>5, <2>6, <2>7
      <3> QED
        BY <3>1, <3>2 DEF NothingIsForgotten
    <2> QED
      BY <2>6, <2>8
  <1>8. CASE IsOneRecord /\ UNCHANGED <<pod, due, rows, readAt>>
    <2>1. PICK r \in rows : walk'.shown = {r} /\ walk'.first = {} /\ walk'.again = {} /\ ~walk'.open
      BY <1>8 DEF IsOneRecord, NoWalk
    <2> QED
      BY <2>1 DEF CursorParts, NothingIsForgotten, TypeOK
  <1>9. CASE UNCHANGED vars
    BY <1>9, <1>2 DEF vars, IsRead
  <1> QED
    BY <1>1, <1>3, <1>4, <1>5, <1>6, <1>7, <1>8, <1>9, Steps

(* Following the cursors shows every row once, however rows arrive and leave between the pages,    *)
(* but for those of a millisecond that a page of notifications ends inside.                        *)
THEOREM EveryRowOnce == Spec => []WalksShowEveryRowOnce
  <1> DEFINE Inv == TypeOK /\ RowsAreFiled /\ CursorParts /\ NothingIsForgotten
  <1>1. Init => Inv
    <2>1. Init => CursorParts /\ NothingIsForgotten
      BY DEF Init, NoWalk, CursorParts, NothingIsForgotten
    <2> QED
      BY <2>1, FiledAtFirst
  <1>2. Inv /\ [Next]_vars => Inv'
    BY FiledNext, ForgottenNext
  <1>3. Inv => WalksShowEveryRowOnce
    BY DEF CursorParts, NothingIsForgotten, IsToCome, IsLost, WalksShowEveryRowOnce
  <1> HIDE DEF Inv
  <1> QED
    BY <1>1, <1>2, <1>3, PTL DEF Spec
=============================================================================
