------------------------------ MODULE Serving ------------------------------
(***************************************************************************)
(* What one process answers its readers.  The kernel attributes a request  *)
(* to an estate and picks a database by the route; the feed and the        *)
(* notifications are read page by page while rows arrive, are erased and   *)
(* are pruned.  Activity keeps a database for each estate, notify one for  *)
(* both; inboxes and jobs hold one handle each, whatever a request says.   *)
(* Between two pages the server keeps nothing, so one reader at a time is  *)
(* all that is needed.                                                     *)
(***************************************************************************)
EXTENDS Integers, FiniteSets

CONSTANTS
    Users,
    Nobody,         \* the owner of what is nobody's; also a parameter left out
    Principals,     \* who presents a token
    Stories,        \* sets of what producers may have for the two inboxes
    Inherited,      \* what the second database was given before it was read from here
    Micros,         \* microseconds in a millisecond
    Limits          \* sizes of a page

Networks == {"mainnet", "testnet"}
Unstamped == "unstamped"    \* no CF-Network header
Databases == {"primary", "second", "notify"}

(* A post is a row to be: `at' is occurred_at, or when the transaction of a notification began.    *)
Post == [id : Nat, to : {"activity", "notify"}, user : Users \cup {Nobody}, internal : BOOLEAN,
         at : Nat]
Row == [post : Post, for : Networks, db : Databases]
Principal == [kind : {"user", "admin", "service"}, user : Users \cup {Nobody}, scoped : BOOLEAN]

(* An event's instant reaches its column through a Date, which counts milliseconds; now() does not.*)
ASSUME PostsAreDelivered ==
    /\ Micros \in Nat \ {0} /\ Limits \subseteq Nat \ {0} /\ Nobody \notin Users
    /\ Principals \subseteq Principal
    /\ \A story \in Stories : \A p, q \in story :
        /\ p \in Post
        /\ p.id = q.id => p = q
        /\ IF p.to = "activity" THEN p.at % Micros = 0 ELSE p.user \in Users
    /\ \A p \in Principals : p.kind # "service" => p.user \in Users
ASSUME InheritanceIsOfTestnet ==
    /\ Inherited \subseteq Row
    /\ \A r \in Inherited :
        /\ r.for = "testnet" /\ r.db = "second" /\ r.post.at % Micros = 0
        /\ \A s \in Inherited : r.post.id = s.post.id => r = s
        /\ \A story \in Stories : \A p \in story : p.id # r.post.id

VARIABLES
    pod,        \* the estate this process is of, and whether it was given a second database
    due,        \* what is still to be delivered
    rows,       \* activity_records, twice, and notifications
    readAt,     \* who marked which notification read
    walk        \* history: the pages one reader has followed
vars == <<pod, due, rows, readAt, walk>>

-----------------------------------------------------------------------------
(* The estate of a request is what the gateway stamped, and the process's own where nobody did.    *)
requestNetwork(stamp) == IF stamp = Unstamped THEN pod.own ELSE stamp
(* Fault: an estate without a handle is answered with the one there is.                            *)
ServesAll(module) == Networks
(* The estates that the selector of a module has a handle for.                                     *)
Serves(module) == IF module = "notify" \/ pod.both THEN Networks ELSE {pod.own}
(* The kernel answers 500 where there is none, before any route runs.                              *)
Resolves(module, stamp) == requestNetwork(stamp) \in Serves(module)
handleFor(module, network) ==
    CASE module = "notify" -> "notify"
      [] module = "activity" /\ pod.both /\ network # pod.own -> "second"
      [] OTHER -> "primary"

(* `both' is of a mainnet process: a testnet one makes no second entry of its own name.            *)
Pods == [own : Networks, both : BOOLEAN] \ {[own |-> "testnet", both |-> TRUE]}

-----------------------------------------------------------------------------
isAdmin(p) == p.kind = "admin"

(* Fault: a user who names another is given the other.                                             *)
feedOwnerNamed(p, requested) == {IF requested = Nobody THEN p.user ELSE requested} \ {Nobody}
(* Whose feed is read: one user, or none where the request is refused.                             *)
feedOwner(p, requested) ==
    CASE p.kind = "service" -> {requested} \ {Nobody}
      [] p.kind = "admin" -> {IF requested = Nobody THEN p.user ELSE requested}
      [] p.kind = "user" -> {p.user} \cap (IF requested = Nobody THEN Users ELSE {requested})

(* An administrator who names nobody is shown everybody's records, by a query of its own.          *)
FeedQueries(p, requested, network) ==
    LET Asks(user, everybody) ==
            [route |-> "/feed", of |-> user, everybody |-> everybody, internal |-> isAdmin(p),
             unread |-> FALSE, db |-> handleFor("activity", network)]
    IN  IF isAdmin(p) /\ requested = Nobody THEN {Asks(Nobody, TRUE)}
        ELSE {Asks(user, FALSE) : user \in feedOwner(p, requested)}

(* Of @cloudsforge/auth: the user himself, or whom a service names.                                *)
subjectUserId(p, requested) ==
    IF p.kind = "service" THEN {requested} \ {Nobody}
    ELSE {p.user} \cap (IF requested = Nobody THEN Users ELSE {requested})
NotificationQueries(p, requested, unread) ==
    LET owners == IF isAdmin(p) /\ requested # Nobody THEN {requested}
                  ELSE IF p.kind = "service" /\ ~p.scoped THEN {}
                  ELSE subjectUserId(p, requested)
    IN  {[route |-> "/notifications", of |-> user, everybody |-> FALSE, internal |-> TRUE,
          unread |-> unread, db |-> "notify"] : user \in owners}

(* The where clause, the cursor apart. *)
IsRead(r) == \E m \in readAt : m.row = r
Matches(q, r) ==
    /\ r.db = q.db
    /\ q.everybody \/ r.post.user = q.of
    /\ q.internal \/ ~r.post.internal
    /\ q.unread => ~IsRead(r)

-----------------------------------------------------------------------------
(* Of the keyset order, (at, id) descending: a is listed after b.                                  *)
Before(a, b) == a.at < b.at \/ (a.at = b.at /\ a.id < b.id)
(* A cursor is a Date and an id: the milliseconds of the last row, without the rest.               *)
encodeCursor(r) == [at |-> r.post.at - (r.post.at % Micros), id |-> r.post.id]

(* Fault: the cursor is an instant alone.                                                          *)
IsPastInstant(r, c) == r.post.at < c.at
IsPast(r, c) == Before(r.post, c)
(* What is left to list: everything without a cursor, what comes after it with one.                *)
Candidates(q, cursor) == {r \in rows : Matches(q, r) /\ \A c \in cursor : IsPast(r, c)}
(* order by ... desc limit n + 1, of which n are the page. *)
IsPage(page, of, limit) ==
    /\ page \subseteq of
    /\ \/ page = of /\ Cardinality(of) <= limit
       \/ page # of /\ Cardinality(page) = limit
    /\ \A r \in page, s \in of \ page : Before(s.post, r.post)
(* The last of its rows is the cursor of a page that is not the last. *)
IsLast(r, page) == r \in page /\ \A s \in page \ {r} : Before(r.post, s.post)

NoWalk == [by |-> Nobody, network |-> "mainnet", query |-> [route |-> "none"], cursor |-> {},
           open |-> FALSE, first |-> {}, shown |-> {}, again |-> {}, ends |-> {}]

(* One page appended to what the reader has seen. *)
Turned(w, page, of) ==
    LET Ends(cursor, open, last) ==
            [by |-> w.by, network |-> w.network, query |-> w.query, first |-> w.first,
             cursor |-> cursor, open |-> open, shown |-> w.shown \cup page,
             again |-> w.again \cup (w.shown \cap page), ends |-> w.ends \cup last]
    IN  IF page = of THEN {Ends(w.cursor, FALSE, {})}
        ELSE {Ends({encodeCursor(r)}, TRUE, {r}) : r \in {s \in page : IsLast(s, page)}}

Init ==
    /\ pod \in Pods /\ due \in Stories
    /\ rows = IF pod.both THEN Inherited ELSE {}
    /\ readAt = {} /\ walk = NoWalk

-----------------------------------------------------------------------------
(* POST /ingest/activity: the inbox was built with the primary handle, whatever the stamp. *)
IngestActivity(p, stamp) ==
    /\ p \in due /\ p.to = "activity" /\ Resolves("activity", stamp)
    /\ rows' = rows \cup {[post |-> p, for |-> requestNetwork(stamp), db |-> "primary"]}
    /\ due' = due \ {p}
    /\ UNCHANGED <<pod, readAt, walk>>

IngestNotify(p, stamp) ==
    /\ p \in due /\ p.to = "notify" /\ Resolves("notify", stamp)
    /\ rows' = rows \cup {[post |-> p, for |-> requestNetwork(stamp), db |-> "notify"]}
    /\ due' = due \ {p}
    /\ UNCHANGED <<pod, readAt, walk>>

(* Erasure and the prunes, which hold the same handles. *)
Keeps(kept) ==
    /\ kept # rows /\ rows' = kept
    /\ readAt' = {m \in readAt : m.row \in kept}
    /\ UNCHANGED <<pod, due, walk>>
eraseUser(u, db) == db # "second" /\ Keeps({r \in rows : ~(r.db = db /\ r.post.user = u)})
pruneRecords(gone) == gone.db = "primary" /\ Keeps(rows \ {gone})

(* GET of either list, without a cursor. *)
Open(p, q, stamp) ==
    LET of == Candidates(q, {})
        fresh == [NoWalk EXCEPT !.by = p, !.network = requestNetwork(stamp), !.query = q, !.first = of]
    IN  /\ \E page \in SUBSET of, limit \in Limits :
            IsPage(page, of, limit) /\ walk' \in Turned(fresh, page, of)
        /\ UNCHANGED <<pod, due, rows, readAt>>
listFeed(p, requested, stamp) ==
    /\ Resolves("activity", stamp)
    /\ \E q \in FeedQueries(p, requested, requestNetwork(stamp)) : Open(p, q, stamp)
listNotifications(p, requested, stamp, unread) ==
    /\ Resolves("notify", stamp)
    /\ \E q \in NotificationQueries(p, requested, unread) : Open(p, q, stamp)

(* The same request with the cursor that the page before it gave. *)
NextPage ==
    /\ walk.open
    /\ LET of == Candidates(walk.query, walk.cursor)
       IN  \E page \in SUBSET of, limit \in Limits :
            IsPage(page, of, limit) /\ walk' \in Turned(walk, page, of)
    /\ UNCHANGED <<pod, due, rows, readAt>>

(* GET /feed/:id. *)
hasReadAccess(p, r) ==
    \/ isAdmin(p)
    \/ ~r.post.internal /\ (p.kind = "service" \/ r.post.user = p.user)
getRecord(p, r, stamp) ==
    /\ Resolves("activity", stamp)
    /\ r.db = handleFor("activity", requestNetwork(stamp)) /\ hasReadAccess(p, r)
    /\ walk' = [NoWalk EXCEPT !.by = p, !.network = requestNetwork(stamp),
                              !.query = [route |-> "/feed/:id"], !.shown = {r}]
    /\ UNCHANGED <<pod, due, rows, readAt>>

(* Fault: of the row that has the id.                                                              *)
IsAnyones(r, u) == TRUE
(* POST /notifications/:id/read: the update is of the row that has the id and the user. *)
IsMine(r, u) == r.post.user = u
markRead(p, r, stamp) ==
    /\ Resolves("notify", stamp) /\ r.db = "notify"
    /\ \E u \in subjectUserId(p, Nobody) :
        /\ IsMine(r, u) /\ ~IsRead(r)
        /\ readAt' = readAt \cup {[row |-> r, by |-> u]}
    /\ UNCHANGED <<pod, due, rows, walk>>

Deliver == \E p \in due, stamp \in Networks \cup {Unstamped} :
    IngestActivity(p, stamp) \/ IngestNotify(p, stamp)
Remove == \/ \E u \in Users, db \in Databases : eraseUser(u, db)
          \/ \E r \in rows : pruneRecords(r)
Serve == \E p \in Principals, stamp \in Networks \cup {Unstamped} :
    \/ \E requested \in Users \cup {Nobody} :
        \/ listFeed(p, requested, stamp)
        \/ \E unread \in BOOLEAN : listNotifications(p, requested, stamp, unread)
    \/ \E r \in rows : getRecord(p, r, stamp) \/ markRead(p, r, stamp)
Next == Deliver \/ Remove \/ Serve \/ NextPage
Spec == Init /\ [][Next]_vars

-----------------------------------------------------------------------------
(* Type invariant: a row is where the handles of this process put it, once. *)
TypeOK ==
    /\ pod \in Pods /\ due \subseteq Post /\ rows \subseteq Row
    /\ \A p, q \in due : p.id = q.id => p = q
    /\ \A r, s \in rows : r.post.id = s.post.id => r = s
    /\ \A r \in rows, p \in due : r.post.id # p.id
    /\ \A m \in readAt : m.row \in rows /\ m.row.db = "notify" /\ m.by \in Users
    /\ \A r \in rows : r.db = "second" => r \in Inherited

(* What the cursor of a page may lose: it names the millisecond of the page's last row, which the  *)
(* older rows of that millisecond need not come after.                                             *)
LostToTheCursor(r) ==
    \E last \in walk.ends : Before(r.post, last.post) /\ encodeCursor(last).at <= r.post.at

(* A reader who follows the cursors to the end is shown, once, every row that was there when he    *)
(* began and is there when he ends, whatever arrives or leaves meanwhile; all but the              *)
(* notifications of one millisecond that a page ends inside.                                       *)
WalksShowEveryRowOnce ==
    /\ walk.again = {}
    /\ ~walk.open =>
        \A r \in walk.first \cap rows :
            \/ r \in walk.shown
            \/ walk.query.unread /\ IsRead(r)
            \/ r.db = "notify" /\ LostToTheCursor(r)

(* A reader is never shown activity of another estate than the one asked for: not by a process     *)
(* that has one database, and not out of the second one.  (What a process with both takes in it    *)
(* files in the primary one, also what is stamped for the other estate.)                           *)
EstatesAreKeptApart ==
    \A r \in walk.shown :
        r.db # "notify" /\ r.for # walk.network => pod.both /\ walk.network = pod.own

(* Whatever a user asks for, by list or by id, he is shown his own and nothing internal; and a     *)
(* notification is marked read by nobody but its user.                                             *)
OwnersReadTheirOwn ==
    /\ \A r \in walk.shown :
        walk.by.kind = "user" => r.post.user = walk.by.user /\ (r.db = "notify" \/ ~r.post.internal)
    /\ \A m \in readAt : m.by = m.row.post.user
=============================================================================
