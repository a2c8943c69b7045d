------------------------------ MODULE BellProofs ------------------------------
(***************************************************************************)
(* Theorems about Bell, for any number of users, notifications, sessions   *)
(* and faults.                                                             *)
(***************************************************************************)
EXTENDS Bell, FiniteSetTheorems, TLAPS

USE BellAssumption

-----------------------------------------------------------------------------
(* The shape of everything.  `pushes` is counted for each session apart.   *)

Link == [stopped : BOOLEAN, timer : BOOLEAN, pushes : Nat,
         socket : {"none", "connecting", "open", "dropped", "closing"}]
Query == [known : BOOLEAN, stale : BOOLEAN, data : Inboxes, of : Users \cup {None},
          fetch : {"idle", "sent", "answered"}, by : Users \cup {None}, answer : Inboxes]
Mark == [phase : {"idle", "sent", "answered"}, by : Users \cup {None}]

ServerType == inbox \in [Users -> Inboxes] /\ owed \subseteq Users \X Notes /\ dead \subseteq Sessions
SessionType == owner \in [Sessions -> Users \cup {None}] /\ auth \in Sessions \cup {None}
TabType ==
    /\ link \in [Sessions -> Link] /\ query \in [Queries -> Query]
    /\ mark \in [Marks -> Mark] /\ mounted \in BOOLEAN /\ markingAll \in Marks \cup {None} /\ behind \subseteq Queries
BellType == ServerType /\ SessionType /\ TabType

(* A session that has a socket, or had one, is somebody's; so is a request *)
(* under way, whose user may have signed out.                              *)
Owned ==
    /\ auth # None => owner[auth] \in Users
    /\ \A s \in Sessions : owner[s] = None => link[s] = NoLink
    /\ \A x \in Marks : mark[x].phase # "idle" => mark[x].by \in Users
    /\ \A q \in Queries : query[q].fetch # "idle" => query[q].by \in Users

(* A socket's effect is cleaned up when its session ends, not before.      *)
Stopped ==
    \A s \in Sessions :
        /\ s = auth => ~link[s].stopped
        /\ (s # auth /\ link[s].socket = "closing") => link[s].stopped

(* Every fetch is the signed-in user's.                                    *)
OwnFetches ==
    /\ \A q \in Queries : query[q].fetch # "idle" => auth # None /\ query[q].by = owner[auth]
    /\ auth = None => ~mounted

SessionInv == Stopped /\ OneSocketOrTimer /\ OwnFetches /\ BellShowsOwnRows

(* A change of his rows the bell has not heard of yet.                     *)
Awaited ==
    \/ \E n \in Notes : <<owner[auth], n>> \in owed
    \/ link[auth].pushes > 0
    \/ \E x \in Marks : mark[x].phase = "answered"

(* A query that shows his rows or is about to; one that nobody looks at is *)
(* fetched when somebody does.                                             *)
UpToDate(q, rows) ==
    \/ q.fetch = "sent"
    \/ q.fetch = "answered" /\ q.answer = rows
    \/ q.fetch = "idle" /\ q.known /\ q.data = rows
Dormant(q) == q.fetch = "idle" /\ (~q.known \/ q.stale)

NothingIsMissed ==
    auth # None /\ ~Awaited =>
        \A q \in Queries \ behind :
            UpToDate(query[q], inbox[owner[auth]]) \/ (~mounted /\ Dormant(query[q]))

-----------------------------------------------------------------------------
(* What the steps of the cache, the socket and the marks do.               *)

LEMMA Empty ==
    /\ NewQuery \in Query /\ NoLink \in Link /\ NoMark \in Mark
    /\ NewQuery.fetch = "idle" /\ ~NewQuery.known /\ ~NoLink.stopped
    /\ NoLink.socket = "none" /\ ~NoLink.timer /\ NoLink.pushes = 0 /\ NoMark.phase = "idle"
<1>1. [n \in Notes |-> "absent"] \in Inboxes
  BY DEF Inboxes, RowStatus
<1> QED
  BY <1>1 DEF NewQuery, NoLink, NoMark, Query, Link, Mark

(* An answer that is received.                                             *)
LEMMA ReceivedQuery ==
    ASSUME NEW old \in Query
    PROVE  LET new == [NewQuery EXCEPT !.known = TRUE, !.data = old.answer, !.of = old.by]
           IN  new \in Query /\ new.fetch = "idle" /\ new.known /\ new.data = old.answer /\ new.of = old.by
<1>1. NewQuery \in Query /\ NewQuery.fetch = "idle"
  BY Empty
<1> QED
  BY <1>1 DEF Query

LEMMA Fetched ==
    ASSUME NEW old \in Query, NEW u \in Users
    PROVE  /\ Fetch(old, u) \in Query /\ Fetch(old, u).fetch = "sent" /\ Fetch(old, u).by = u
           /\ Fetch(old, u).known = old.known /\ Fetch(old, u).of = old.of
BY DEF Fetch, Query

(* An invalidated query: fetched, or stale.                                *)
LEMMA InvalidatedQuery ==
    ASSUME mounted \in BOOLEAN, NEW old \in Query, NEW u \in Users
    PROVE  LET new == Invalidate(old, u)
           IN  /\ new \in Query /\ new.known = old.known /\ new.of = old.of
               /\ \/ new.fetch = "sent" /\ new.by = u
                  \/ /\ new.fetch = old.fetch /\ new.by = old.by
                     /\ ~(mounted /\ (old.known \/ old.fetch = "idle"))
                     /\ new.stale = (old.known \/ old.fetch # "idle")
<1> DEFINE stale == [old EXCEPT !.stale = old.known \/ old.fetch # "idle"]
<1>1. /\ stale \in Query /\ stale.known = old.known /\ stale.of = old.of
      /\ stale.fetch = old.fetch /\ stale.by = old.by
      /\ stale.stale = (old.known \/ old.fetch # "idle")
  BY DEF Query
<1>2. Invalidate(old, u) =
         IF mounted /\ (old.known \/ old.fetch = "idle") THEN Fetch(stale, u) ELSE stale
  BY DEF Invalidate
<1> HIDE DEF stale
<1> QED
  BY <1>1, <1>2, Fetched

LEMMA Invalidated ==
    ASSUME BellType, Owned, InvalidateNotifications
    PROVE  /\ query' \in [Queries -> Query] /\ behind' \subseteq Queries
           /\ behind' = behind \cup {q \in Queries : query[q].fetch # "idle" /\ ~(mounted /\ query[q].known)}
           /\ \A q \in Queries :
                 /\ auth = None => query'[q] = query[q]
                 /\ auth # None =>
                       /\ query'[q].known = query[q].known /\ query'[q].of = query[q].of
                       /\ \/ query'[q].fetch = "sent" /\ query'[q].by = owner[auth]
                          \/ /\ query'[q].fetch = query[q].fetch /\ query'[q].by = query[q].by
                             /\ ~(mounted /\ (query[q].known \/ query[q].fetch = "idle"))
                             /\ query'[q].stale = (query[q].known \/ query[q].fetch # "idle")
<1>1. /\ query \in [Queries -> Query] /\ mounted \in BOOLEAN
      /\ behind' = behind \cup {q \in Queries : query[q].fetch # "idle" /\ ~(mounted /\ query[q].known)}
      /\ behind' \subseteq Queries
  BY DEF BellType, TabType, InvalidateNotifications, Overtaken
<1>2. CASE auth = None
  BY <1>1, <1>2 DEF InvalidateNotifications
<1>3. CASE auth # None
  <2>1. owner[auth] \in Users
    BY <1>3 DEF Owned
  <2>2. query' = [q \in Queries |-> Invalidate(query[q], owner[auth])]
    BY <1>3 DEF InvalidateNotifications, Notified
  <2>3. PICK u \in Users : u = owner[auth]
    BY <2>1
  <2>4. \A q \in Queries : query'[q] = Invalidate(query[q], u) /\ query[q] \in Query
    BY <1>1, <2>2, <2>3
  <2>5. ASSUME NEW q \in Queries
        PROVE  /\ query'[q] \in Query /\ query'[q].known = query[q].known /\ query'[q].of = query[q].of
               /\ \/ query'[q].fetch = "sent" /\ query'[q].by = owner[auth]
                  \/ /\ query'[q].fetch = query[q].fetch /\ query'[q].by = query[q].by
                     /\ ~(mounted /\ (query[q].known \/ query[q].fetch = "idle"))
                     /\ query'[q].stale = (query[q].known \/ query[q].fetch # "idle")
    BY <1>1, <2>3, <2>4, InvalidatedQuery
  <2>6. query' \in [Queries -> Query]
    BY <2>2, <2>5
  <2> QED
    BY <1>1, <1>3, <2>5, <2>6
<1> QED
  BY <1>2, <1>3

LEMMA Links ==
    ASSUME NEW l \in Link
    PROVE  /\ Connect(l) \in Link /\ Cleanup(l) \in Link /\ Closed(l) \in Link
           /\ Connect(l).stopped = l.stopped /\ Connect(l).socket = "connecting"
           /\ Connect(l).timer = FALSE /\ Connect(l).pushes = l.pushes
           /\ Cleanup(l).stopped /\ ~Cleanup(l).timer /\ Cleanup(l).pushes = 0
           /\ Cleanup(l).socket \in {"none", "closing"}
           /\ Closed(l).stopped = l.stopped /\ Closed(l).socket = "none"
           /\ Closed(l).timer = ~l.stopped /\ Closed(l).pushes = l.pushes
BY DEF Link, Connect, Cleanup, Closed

(* Rows that are marked are read, in one user's inbox.                     *)
LEMMA Committed ==
    ASSUME BellType, Owned, NEW x \in Marks, mark[x].phase # "idle", CommitMark(x)
    PROVE  inbox' \in [Users -> Inboxes]
<1>1. mark[x].by \in Users
  BY DEF Owned
<1>2. [n \in Notes |-> IF n \in Marked(x[1], mark[x].by) THEN "read" ELSE inbox[mark[x].by][n]] \in Inboxes
  BY <1>1 DEF BellType, ServerType, Inboxes, RowStatus
<1> QED
  BY <1>1, <1>2 DEF BellType, ServerType, CommitMark

-----------------------------------------------------------------------------
(* Type correctness.                                                       *)

Types == BellType /\ Owned

LEMMA TypeInit == Init => Types
<1> SUFFICES ASSUME Init PROVE Types
  OBVIOUS
<1>1. \A u \in Users : [n \in Notes |-> IF n \in OldNotes THEN "unread" ELSE "absent"] \in Inboxes
  BY DEF Inboxes, RowStatus
<1>2. ServerType /\ SessionType
  BY <1>1 DEF Init, ServerType, SessionType
<1>3. TabType
  BY Empty DEF Init, TabType
<1>4. Owned
  BY Empty DEF Init, Owned
<1> QED
  BY <1>2, <1>3, <1>4 DEF Types, BellType

LEMMA TypeSocket ==
    ASSUME Types, NEW s \in Sessions,
           Handshake(s) \/ ReceivePush(s) \/ OnClose(s) \/ Reconnect(s) \/ Drop(s)
    PROVE  Types'
<1>1. link \in [Sessions -> Link] /\ link[s] \in Link
  BY DEF Types, BellType, TabType
<1>2. UNCHANGED <<server, session, mark, mounted, markingAll>>
  BY DEF Handshake, ReceivePush, OnClose, Reconnect, Drop
<1>3. PICK new \in Link : link' = [link EXCEPT ![s] = new] /\ link[s] # NoLink
  <2>1. NoLink.socket = "none" /\ NoLink.pushes = 0 /\ ~NoLink.timer
    BY Empty
  <2>2. CASE Handshake(s)
    <3>1. \A k \in {"dropped", "open"} : [link[s] EXCEPT !.socket = k] \in Link
      BY <1>1 DEF Link
    <3> QED
      BY <2>1, <2>2, <3>1 DEF Handshake
  <2>3. CASE ReceivePush(s)
    <3>1. [link[s] EXCEPT !.pushes = @ - 1] \in Link
      BY <1>1, <2>3 DEF Link, ReceivePush
    <3> QED
      BY <2>1, <2>3, <3>1 DEF ReceivePush
  <2>4. CASE OnClose(s)
    BY <1>1, <2>1, <2>4, Links DEF OnClose
  <2>5. CASE Reconnect(s)
    BY <1>1, <2>1, <2>5, Links DEF Reconnect
  <2>6. CASE Drop(s)
    <3>1. [link[s] EXCEPT !.socket = "dropped", !.pushes = 0] \in Link
      BY <1>1 DEF Link
    <3>2. link' = [link EXCEPT ![s] = [link[s] EXCEPT !.socket = "dropped", !.pushes = 0]]
      BY <1>1, <2>6 DEF Drop
    <3> QED
      BY <2>1, <2>6, <3>1, <3>2 DEF Drop
  <2> QED
    BY <2>2, <2>3, <2>4, <2>5, <2>6
<1>4. /\ query' \in [Queries -> Query] /\ behind' \subseteq Queries
      /\ \A q \in Queries : query'[q].fetch # "idle" => query'[q].by \in Users
  <2>1. CASE ReceivePush(s)
    BY <2>1, Invalidated DEF Types, Owned, ReceivePush
  <2>2. CASE ~ReceivePush(s)
    BY <2>2 DEF Types, BellType, TabType, Owned, Handshake, OnClose, Reconnect, Drop
  <2> QED
    BY <2>1, <2>2
<1>5. BellType'
  BY <1>1, <1>2, <1>3, <1>4 DEF Types, BellType, ServerType, SessionType, TabType, server, session
<1>6. Owned'
  BY <1>1, <1>2, <1>3, <1>4 DEF Types, Owned, session
<1> QED
  BY <1>5, <1>6 DEF Types

LEMMA TypeFetch ==
    ASSUME Types, NEW q \in Queries,
           AnswerFetch(q) \/ ReceiveFetch(q) \/ FetchFails(q) \/ Ages(q)
    PROVE  Types'
<1>1. query \in [Queries -> Query] /\ query[q] \in Query
  BY DEF Types, BellType, TabType
<1>2. UNCHANGED <<server, session, link, mark, mounted, markingAll>> /\ behind' \subseteq Queries
  BY DEF Types, BellType, TabType, AnswerFetch, ReceiveFetch, FetchFails, Ages
<1>3. PICK new \in Query : /\ query' = [query EXCEPT ![q] = new]
                           /\ \/ new.fetch = "idle"
                              \/ query[q].fetch # "idle" /\ new.by = query[q].by
  <2>1. CASE AnswerFetch(q)
    <3>1. inbox[query[q].by] \in Inboxes
      BY <2>1 DEF AnswerFetch, Types, BellType, ServerType, Owned
    <3>2. /\ [query[q] EXCEPT !.fetch = "answered", !.answer = inbox[query[q].by]] \in Query
          /\ [query[q] EXCEPT !.fetch = "answered", !.answer = inbox[query[q].by]].by = query[q].by
      BY <1>1, <3>1 DEF Query
    <3>3. query' = [query EXCEPT ![q] = [query[q] EXCEPT !.fetch = "answered",
                                                         !.answer = inbox[query[q].by]]]
      BY <1>1, <2>1 DEF AnswerFetch
    <3> QED
      BY <2>1, <3>2, <3>3 DEF AnswerFetch
  <2>2. CASE ReceiveFetch(q)
    BY <1>1, <2>2, ReceivedQuery DEF ReceiveFetch
  <2>3. CASE FetchFails(q)
    <3>1. /\ [query[q] EXCEPT !.fetch = "idle"] \in Query
          /\ [query[q] EXCEPT !.fetch = "idle"].fetch = "idle"
      BY <1>1 DEF Query
    <3> QED
      BY <2>3, <3>1 DEF FetchFails
  <2>4. CASE Ages(q)
    <3>1. /\ [query[q] EXCEPT !.stale = TRUE] \in Query
          /\ [query[q] EXCEPT !.stale = TRUE].fetch = query[q].fetch
          /\ [query[q] EXCEPT !.stale = TRUE].by = query[q].by
      BY <1>1 DEF Query
    <3> QED
      BY <2>4, <3>1 DEF Ages
  <2> QED
    BY <2>1, <2>2, <2>3, <2>4
<1>4. BellType'
  BY <1>1, <1>2, <1>3 DEF Types, BellType, ServerType, SessionType, TabType, server, session
<1>5. Owned'
  BY <1>1, <1>2, <1>3 DEF Types, Owned, session
<1> QED
  BY <1>4, <1>5 DEF Types

LEMMA TypeMark ==
    ASSUME Types, NEW x \in Marks,
           Click(x) \/ AnswerMark(x) \/ ReceiveMark(x) \/ MarkFails(x), OwnFetches
    PROVE  Types'
<1>1. mark \in [Marks -> Mark] /\ mark[x] \in Mark
  BY DEF Types, BellType, TabType
<1>2. UNCHANGED <<owed, dead, session, link, mounted>>
  BY DEF Click, AnswerMark, ReceiveMark, MarkFails, server
<1>3. inbox' \in [Users -> Inboxes]
  <2>1. CASE UNCHANGED inbox
    BY <2>1 DEF Types, BellType, ServerType
  <2>2. CASE CommitMark(x) /\ mark[x].phase # "idle"
    BY <2>2, Committed DEF Types
  <2> QED
    BY <2>1, <2>2 DEF Click, AnswerMark, ReceiveMark, MarkFails, server
<1>4. PICK new \in Mark : /\ mark' = [mark EXCEPT ![x] = new]
                          /\ new.phase # "idle" => new.by \in Users
  <2>1. CASE Click(x)
    <3>1. owner[auth] \in Users
      BY <2>1 DEF Click, CanMarkAllRead, CanMarkRead, OwnFetches, Types, Owned
    <3>2. [phase |-> "sent", by |-> owner[auth]] \in Mark
      BY <3>1 DEF Mark
    <3> QED
      BY <2>1, <3>1, <3>2 DEF Click
  <2>2. CASE AnswerMark(x)
    <3>1. /\ [mark[x] EXCEPT !.phase = "answered"] \in Mark
          /\ [mark[x] EXCEPT !.phase = "answered"].by = mark[x].by
      BY <1>1 DEF Mark
    <3> QED
      BY <2>2, <3>1 DEF AnswerMark, Types, Owned
  <2>3. CASE ReceiveMark(x) \/ MarkFails(x)
    BY <2>3, Empty DEF ReceiveMark, MarkFails, Settle
  <2> QED
    BY <2>1, <2>2, <2>3
<1>5. /\ query' \in [Queries -> Query] /\ behind' \subseteq Queries
      /\ \A q \in Queries : query'[q].fetch # "idle" => query'[q].by \in Users
  <2>1. CASE ReceiveMark(x)
    BY <2>1, Invalidated DEF Types, Owned, ReceiveMark
  <2>2. CASE ~ReceiveMark(x)
    BY <2>2 DEF Types, BellType, TabType, Owned, Click, AnswerMark, MarkFails
  <2> QED
    BY <2>1, <2>2
<1>a. markingAll' \in Marks \cup {None}
  BY DEF Types, BellType, TabType, Click, AnswerMark, ReceiveMark, MarkFails, Settle
<1>6. BellType'
  BY <1>a, <1>1, <1>2, <1>3, <1>4, <1>5 DEF Types, BellType, ServerType, SessionType, TabType, session
<1>7. Owned'
  BY <1>1, <1>2, <1>4, <1>5 DEF Types, Owned, session
<1> QED
  BY <1>6, <1>7 DEF Types

LEMMA TypeServer ==
    ASSUME Types, AccessDies \/ \E u \in Users, n \in Notes : Notify(u, n) \/ Push(u, n)
    PROVE  Types'
<1>1. CASE AccessDies
  <2>1. BellType'
    BY <1>1 DEF AccessDies, Types, BellType, ServerType, SessionType, TabType, session
  <2>2. Owned'
    BY <1>1 DEF AccessDies, Types, Owned, session
  <2> QED
    BY <2>1, <2>2 DEF Types
<1>2. ASSUME NEW u \in Users, NEW n \in Notes, Notify(u, n) PROVE Types'
  <2>1. inbox' \in [Users -> Inboxes]
    <3>1. [inbox[u] EXCEPT ![n] = "unread"] \in Inboxes
      BY DEF Types, BellType, ServerType, Inboxes, RowStatus
    <3>2. inbox' = [inbox EXCEPT ![u] = [inbox[u] EXCEPT ![n] = "unread"]]
      BY <1>2 DEF Notify
    <3> QED
      BY <3>1, <3>2 DEF Types, BellType, ServerType
  <2>2. BellType'
    BY <1>2, <2>1 DEF Notify, Types, BellType, ServerType, SessionType, TabType, session
  <2>3. Owned'
    BY <1>2 DEF Notify, Types, Owned, session
  <2> QED
    BY <2>2, <2>3 DEF Types
<1>3. ASSUME NEW u \in Users, NEW n \in Notes, Push(u, n) PROVE Types'
  <2>1. link' \in [Sessions -> Link] /\ \A s \in Sessions : owner[s] = None => link'[s] = link[s]
    <3>1. \A s \in Sessions : [link[s] EXCEPT !.pushes = @ + 1] \in Link
      BY DEF Types, BellType, TabType, Link
    <3>2. link' = [s \in Sessions |->
                     IF s \in Listeners(u) THEN [link[s] EXCEPT !.pushes = @ + 1] ELSE link[s]]
      BY <1>3 DEF Push
    <3>3. link \in [Sessions -> Link]
      BY DEF Types, BellType, TabType
    <3> QED
      BY <3>1, <3>2, <3>3 DEF Listeners
  <2>2. BellType'
    BY <1>3, <2>1 DEF Push, Types, BellType, ServerType, SessionType, TabType, session
  <2>3. Owned'
    BY <1>3, <2>1 DEF Push, Types, Owned, session
  <2> QED
    BY <2>2, <2>3 DEF Types
<1> QED
  BY <1>1, <1>2, <1>3

LEMMA TypeUser ==
    ASSUME Types, (\E u \in Users : SignIn(u)) \/ SignOut \/ Mount \/ Unmount
    PROVE  Types'
<1>1. ASSUME NEW u \in Users, SignIn(u) PROVE Types'
  <2>1. PICK s \in Sessions : /\ auth' = s /\ owner' = [owner EXCEPT ![s] = u]
                              /\ link' = [link EXCEPT ![s] = Connect(@)]
    BY <1>1 DEF SignIn
  <2>2. Connect(link[s]) \in Link
    BY Links DEF Types, BellType, TabType
  <2>3. BellType'
    BY <1>1, <2>1, <2>2 DEF SignIn, Types, BellType, ServerType, SessionType, TabType, server
  <2>4. Owned'
    BY <1>1, <2>1 DEF SignIn, Types, BellType, SessionType, TabType, Owned
  <2> QED
    BY <2>3, <2>4 DEF Types
<1>2. CASE SignOut
  <2>1. auth \in Sessions /\ Cleanup(link[auth]) \in Link /\ owner[auth] # None
    BY <1>2, Links DEF SignOut, Types, BellType, SessionType, TabType, Owned
  <2>2. query' \in [Queries -> Query] /\ \A q \in Queries : query'[q].fetch = "idle"
    BY <1>2, Empty DEF SignOut, Cleared
  <2>3. BellType'
    BY <1>2, <2>1, <2>2 DEF SignOut, Types, BellType, ServerType, SessionType, TabType, server
  <2>4. Owned'
    BY <1>2, <2>1, <2>2 DEF SignOut, Types, BellType, TabType, Owned
  <2> QED
    BY <2>3, <2>4 DEF Types
<1>3. CASE Mount
  <2>1. PICK u \in Users : u = owner[auth]
    BY <1>3 DEF Mount, Types, Owned
  <2>2. ASSUME NEW q \in Queries
        PROVE  /\ Fetch(query[q], u) \in Query /\ query[q] \in Query /\ Fetch(query[q], u).by = u
    BY Fetched DEF Types, BellType, TabType
  <2>3. PICK fetched \in SUBSET Queries :
           query' = [q \in Queries |-> IF q \in fetched THEN Fetch(query[q], u) ELSE query[q]]
    BY <1>3, <2>1 DEF Mount
  <2>4. query' \in [Queries -> Query]
    BY <2>2, <2>3
  <2>5. BellType'
    BY <1>3, <2>4 DEF Mount, Types, BellType, ServerType, SessionType, TabType, server, session
  <2>6. Owned'
    BY <1>3, <2>2, <2>3 DEF Mount, Types, Owned, session
  <2> QED
    BY <2>5, <2>6 DEF Types
<1>4. CASE Unmount
  <2>1. BellType'
    BY <1>4 DEF Unmount, Types, BellType, ServerType, SessionType, TabType, server, session
  <2>2. Owned'
    BY <1>4 DEF Unmount, Types, Owned, session
  <2> QED
    BY <2>1, <2>2 DEF Types
<1> QED
  BY <1>1, <1>2, <1>3, <1>4

-----------------------------------------------------------------------------
(* Nothing outlives the session.                                           *)

LEMMA SessionInit == Init => SessionInv
<1> SUFFICES ASSUME Init PROVE SessionInv
  OBVIOUS
<1>1. auth = None /\ ~mounted
  BY DEF Init
<1>2. \A s \in Sessions : s # auth /\ link[s] = NoLink
  BY DEF Init, Sessions
<1>3. \A q \in Queries : query[q] = NewQuery
  BY DEF Init
<1> QED
  BY <1>1, <1>2, <1>3, Empty DEF SessionInv, Stopped, OneSocketOrTimer, OwnFetches, BellShowsOwnRows

(* The socket of one session.                                              *)
LEMMA SessionSocket ==
    ASSUME Types, SessionInv, NEW s \in Sessions,
           Handshake(s) \/ ReceivePush(s) \/ OnClose(s) \/ Reconnect(s) \/ Drop(s)
    PROVE  SessionInv'
<1>1. link \in [Sessions -> Link] /\ link[s] \in Link
  BY DEF Types, BellType, TabType
<1>2. UNCHANGED <<owner, auth, mounted>>
  BY DEF Handshake, ReceivePush, OnClose, Reconnect, Drop, session
<1>3. \A t \in Sessions : t # s => link'[t] = link[t]
  BY <1>1 DEF Handshake, ReceivePush, OnClose, Reconnect, Drop
<1>4. /\ s = auth => ~link[s].stopped
      /\ (s # auth /\ link[s].socket = "closing") => link[s].stopped
      /\ s = auth => link[s].timer = (link[s].socket = "none") /\ link[s].socket # "closing"
      /\ s # auth => ~link[s].timer /\ link[s].socket \in {"none", "closing"}
  BY DEF SessionInv, Stopped, OneSocketOrTimer
<1>5. /\ s = auth => ~link'[s].stopped
      /\ (s # auth /\ link'[s].socket = "closing") => link'[s].stopped
      /\ s = auth => link'[s].timer = (link'[s].socket = "none") /\ link'[s].socket # "closing"
      /\ s # auth => ~link'[s].timer /\ link'[s].socket \in {"none", "closing"}
  <2>1. CASE Handshake(s)
    <3>1. /\ link'[s].stopped = link[s].stopped /\ link'[s].timer = link[s].timer
          /\ link'[s].socket \in {"dropped", "open"} /\ link[s].socket = "connecting"
      BY <1>1, <2>1 DEF Handshake, Link
    <3> QED
      BY <1>4, <3>1
  <2>2. CASE ReceivePush(s)
    <3>1. /\ link'[s].stopped = link[s].stopped /\ link'[s].timer = link[s].timer
          /\ link'[s].socket = link[s].socket
      BY <1>1, <2>2 DEF ReceivePush, Link
    <3> QED
      BY <1>4, <3>1
  <2>3. CASE OnClose(s)
    <3>1. link'[s] = Closed(link[s])
      BY <1>1, <2>3 DEF OnClose
    <3> QED
      BY <1>1, <1>4, <2>3, <3>1, Links DEF OnClose
  <2>4. CASE Reconnect(s)
    <3>1. link'[s] = Connect(link[s]) /\ link[s].timer
      BY <1>1, <2>4 DEF Reconnect
    <3>2. s = auth
      BY <1>4, <3>1
    <3>3. /\ Connect(link[s]).stopped = link[s].stopped /\ Connect(link[s]).socket = "connecting"
          /\ Connect(link[s]).timer = FALSE
      BY <1>1, Links
    <3> QED
      BY <1>4, <3>1, <3>2, <3>3
  <2>5. CASE Drop(s)
    <3>1. /\ link'[s].stopped = link[s].stopped /\ link'[s].timer = link[s].timer
          /\ link'[s].socket = "dropped" /\ link[s].socket = "open"
      BY <1>1, <2>5 DEF Drop, Link
    <3> QED
      BY <1>4, <3>1
  <2> QED
    BY <2>1, <2>2, <2>3, <2>4, <2>5
<1>6. Stopped' /\ OneSocketOrTimer'
  BY <1>2, <1>3, <1>5 DEF SessionInv, Stopped, OneSocketOrTimer
<1>7. OwnFetches' /\ BellShowsOwnRows'
  <2>1. CASE ReceivePush(s)
    BY <1>2, <2>1, Invalidated DEF ReceivePush, Types, SessionInv, OwnFetches, BellShowsOwnRows
  <2>2. CASE ~ReceivePush(s)
    <3>1. query' = query
      BY <2>2 DEF Handshake, OnClose, Reconnect, Drop
    <3> QED
      BY <1>2, <3>1 DEF SessionInv, OwnFetches, BellShowsOwnRows
  <2> QED
    BY <2>1, <2>2
<1> QED
  BY <1>6, <1>7 DEF SessionInv

LEMMA SessionFetch ==
    ASSUME Types, SessionInv, NEW q \in Queries,
           AnswerFetch(q) \/ ReceiveFetch(q) \/ FetchFails(q) \/ Ages(q)
    PROVE  SessionInv'
<1>1. query \in [Queries -> Query] /\ query[q] \in Query
  BY DEF Types, BellType, TabType
<1>2. UNCHANGED <<owner, auth, link, mounted>>
  BY DEF AnswerFetch, ReceiveFetch, FetchFails, Ages, session
<1>3. \A r \in Queries : r # q => query'[r] = query[r]
  BY <1>1 DEF AnswerFetch, ReceiveFetch, FetchFails, Ages
<1>4. /\ query'[q].fetch # "idle" => query[q].fetch # "idle" /\ query'[q].by = query[q].by
      /\ query'[q].known =>
            \/ query[q].known /\ query'[q].of = query[q].of
            \/ query[q].fetch # "idle" /\ query'[q].of = query[q].by
  <2>1. CASE ReceiveFetch(q)
    BY <1>1, <2>1, ReceivedQuery DEF ReceiveFetch
  <2>2. CASE AnswerFetch(q) \/ FetchFails(q) \/ Ages(q)
    BY <1>1, <2>2 DEF AnswerFetch, FetchFails, Ages, Query
  <2> QED
    BY <2>1, <2>2
<1>5. OwnFetches' /\ BellShowsOwnRows'
  BY <1>2, <1>3, <1>4 DEF SessionInv, OwnFetches, BellShowsOwnRows
<1> QED
  BY <1>2, <1>5 DEF SessionInv, Stopped, OneSocketOrTimer

LEMMA SessionMark ==
    ASSUME Types, SessionInv, NEW x \in Marks,
           Click(x) \/ AnswerMark(x) \/ ReceiveMark(x) \/ MarkFails(x)
    PROVE  SessionInv'
<1>1. UNCHANGED <<owner, auth, link, mounted>>
  BY DEF Click, AnswerMark, ReceiveMark, MarkFails, session
<1>2. OwnFetches' /\ BellShowsOwnRows'
  <2>1. CASE ReceiveMark(x)
    BY <1>1, <2>1, Invalidated DEF ReceiveMark, Types, SessionInv, OwnFetches, BellShowsOwnRows
  <2>2. CASE ~ReceiveMark(x)
    <3>1. query' = query
      BY <2>2 DEF Click, AnswerMark, MarkFails
    <3> QED
      BY <1>1, <3>1 DEF SessionInv, OwnFetches, BellShowsOwnRows
  <2> QED
    BY <2>1, <2>2
<1> QED
  BY <1>1, <1>2 DEF SessionInv, Stopped, OneSocketOrTimer

LEMMA SessionServer ==
    ASSUME Types, SessionInv, AccessDies \/ \E u \in Users, n \in Notes : Notify(u, n) \/ Push(u, n)
    PROVE  SessionInv'
<1>1. UNCHANGED <<owner, auth, query, mounted>>
  BY DEF AccessDies, Notify, Push, session
<1>2. ASSUME NEW s \in Sessions
      PROVE  /\ link'[s].stopped = link[s].stopped /\ link'[s].timer = link[s].timer
             /\ link'[s].socket = link[s].socket
  <2>1. link[s] \in Link
    BY DEF Types, BellType, TabType
  <2>2. link'[s] = link[s] \/ link'[s] = [link[s] EXCEPT !.pushes = @ + 1]
    BY DEF AccessDies, Notify, Push
  <2> QED
    BY <2>1, <2>2 DEF Link
<1> QED
  BY <1>1, <1>2 DEF SessionInv, Stopped, OneSocketOrTimer, OwnFetches, BellShowsOwnRows

LEMMA SessionUser ==
    ASSUME Types, SessionInv, (\E u \in Users : SignIn(u)) \/ SignOut \/ Mount \/ Unmount
    PROVE  SessionInv'
<1>0. link \in [Sessions -> Link] /\ query \in [Queries -> Query] /\ auth \in Sessions \cup {None}
  BY DEF Types, BellType, SessionType, TabType
<1>a. \A s \in Sessions : s # None
  BY DEF Sessions
<1>1. ASSUME NEW u \in Users, SignIn(u) PROVE SessionInv'
  <2>1. PICK s \in Sessions : /\ auth' = s /\ owner' = [owner EXCEPT ![s] = u]
                              /\ link' = [link EXCEPT ![s] = Connect(@)] /\ owner[s] = None
    BY <1>1 DEF SignIn
  <2>2. auth = None /\ UNCHANGED <<query, mounted>>
    BY <1>1 DEF SignIn
  <2>3. link[s] = NoLink /\ link'[s] = Connect(link[s]) /\ link[s] \in Link
    BY <1>0, <2>1 DEF Types, Owned
  <2>4. ~link'[s].stopped /\ link'[s].socket = "connecting" /\ link'[s].timer = FALSE
    <3>1. /\ Connect(link[s]).stopped = link[s].stopped /\ Connect(link[s]).socket = "connecting"
          /\ Connect(link[s]).timer = FALSE
      BY <2>3, Links
    <3> QED
      BY <2>3, <3>1, Empty
  <2>5. \A t \in Sessions : t # s => link'[t] = link[t] /\ t # auth
    BY <1>0, <1>a, <2>1, <2>2
  <2>6. Stopped' /\ OneSocketOrTimer'
    BY <2>1, <2>4, <2>5 DEF SessionInv, Stopped, OneSocketOrTimer
  <2>7. OwnFetches' /\ BellShowsOwnRows'
    BY <1>a, <2>1, <2>2 DEF SessionInv, OwnFetches, BellShowsOwnRows
  <2> QED
    BY <2>6, <2>7 DEF SessionInv
<1>2. CASE SignOut
  <2>1. auth \in Sessions /\ auth' = None /\ ~mounted' /\ link' = [link EXCEPT ![auth] = Cleanup(@)]
    BY <1>0, <1>2 DEF SignOut
  <2>2. link'[auth] = Cleanup(link[auth]) /\ link[auth] \in Link
    BY <1>0, <2>1
  <2>3. link'[auth].stopped /\ ~link'[auth].timer /\ link'[auth].socket \in {"none", "closing"}
    BY <2>2, Links
  <2>4. Stopped' /\ OneSocketOrTimer'
    BY <1>0, <1>a, <2>1, <2>3 DEF SessionInv, Stopped, OneSocketOrTimer
  <2>5. \A q \in Queries : query'[q].fetch = "idle" /\ ~query'[q].known
    BY <1>2, Empty DEF SignOut, Cleared
  <2> QED
    BY <2>1, <2>4, <2>5 DEF SessionInv, OwnFetches, BellShowsOwnRows
<1>3. CASE Mount
  <2>1. PICK u \in Users : u = owner[auth]
    BY <1>3 DEF Mount, Types, Owned
  <2>2. UNCHANGED <<owner, auth, link>> /\ auth # None
    BY <1>3 DEF Mount, session
  <2>3. PICK fetched \in SUBSET Queries :
           query' = [q \in Queries |-> IF q \in fetched THEN Fetch(query[q], u) ELSE query[q]]
    BY <1>3, <2>1 DEF Mount
  <2>4. ASSUME NEW q \in Queries
        PROVE  /\ query'[q].known = query[q].known /\ query'[q].of = query[q].of
               /\ query'[q].fetch # "idle" => query'[q].by = owner[auth]
    <3>1. /\ Fetch(query[q], u).by = u /\ Fetch(query[q], u).known = query[q].known
          /\ Fetch(query[q], u).of = query[q].of
      BY <1>0, Fetched
    <3> QED
      BY <2>1, <2>3, <3>1 DEF SessionInv, OwnFetches
  <2> QED
    BY <2>2, <2>4 DEF SessionInv, Stopped, OneSocketOrTimer, OwnFetches, BellShowsOwnRows
<1>4. CASE Unmount
  BY <1>4 DEF Unmount, session, SessionInv, Stopped, OneSocketOrTimer, OwnFetches, BellShowsOwnRows
<1> QED
  BY <1>1, <1>2, <1>3, <1>4

LEMMA SessionStep == Types /\ SessionInv /\ [Next]_vars => Types' /\ SessionInv'
<1> SUFFICES ASSUME Types, SessionInv, [Next]_vars PROVE Types' /\ SessionInv'
  OBVIOUS
<1>a. OwnFetches
  BY DEF SessionInv
<1>1. CASE SocketStep
  BY <1>1, TypeSocket, SessionSocket DEF SocketStep
<1>2. CASE FetchStep \/ \E q \in Queries : Ages(q)
  BY <1>2, TypeFetch, SessionFetch DEF FetchStep
<1>3. CASE MarkStep
  BY <1>3, <1>a, TypeMark, SessionMark DEF MarkStep
<1>4. CASE Faults
  BY <1>4, <1>a, TypeSocket, TypeFetch, TypeMark, SessionSocket, SessionFetch, SessionMark DEF Faults
<1>5. CASE UserStep
  BY <1>5, <1>a, TypeUser, TypeMark, SessionUser, SessionMark DEF UserStep
<1>6. CASE ServerStep
  BY <1>6, TypeServer, SessionServer DEF ServerStep
<1>7. CASE UNCHANGED vars
  <2> USE <1>7 DEF vars, server, session, bounds
  <2>1. Types'
    BY DEF Types, BellType, ServerType, SessionType, TabType, Owned
  <2>2. SessionInv'
    BY DEF SessionInv, Stopped, OneSocketOrTimer, OwnFetches, BellShowsOwnRows
  <2> QED
    BY <2>1, <2>2
<1> QED
  BY <1>1, <1>2, <1>3, <1>4, <1>5, <1>6, <1>7 DEF Next

LEMMA SessionsHold == Spec => [](Types /\ SessionInv)
<1>1. Init => Types /\ SessionInv
  BY TypeInit, SessionInit
<1> QED
  BY <1>1, SessionStep, PTL DEF Spec

(* Whenever a drop, a reconnect timer, an answer or a logout falls between *)
(* the others: the session Redux knows has one socket or one timer, every  *)
(* other has neither, and what the bell shows was fetched for the user who *)
(* is signed in.  The effect of a session is cleaned up exactly when it    *)
(* ends, and the logout leaves no fetch behind to answer for its user.     *)
(* (useNotificationSocket.ts:21-63, useAuth.ts:44-50)                          *)
THEOREM NothingIsLeft == Spec => []NothingOutlivesTheSession
<1>1. SessionInv => NothingOutlivesTheSession
  BY DEF SessionInv, NothingOutlivesTheSession
<1> QED
  BY <1>1, SessionsHold, PTL

-----------------------------------------------------------------------------
(* Nothing is missed.                                                      *)

Safe == Types /\ SessionInv
FreshQuery(q) ==
    UpToDate(query[q], inbox[owner[auth]]) \/ (~mounted /\ Dormant(query[q]))

LEMMA Refetched ==
    ASSUME Types, InvalidateNotifications, auth # None, NEW q \in Queries \ behind'
    PROVE  query'[q].fetch = "sent" \/ (~mounted /\ Dormant(query'[q]))
<1>1. /\ q \notin {r \in Queries : query[r].fetch # "idle" /\ ~(mounted /\ query[r].known)}
      /\ query'[q].known = query[q].known
      /\ \/ query'[q].fetch = "sent"
         \/ /\ query'[q].fetch = query[q].fetch
            /\ ~(mounted /\ (query[q].known \/ query[q].fetch = "idle"))
            /\ query'[q].stale = (query[q].known \/ query[q].fetch # "idle")
  BY Invalidated DEF Types
<1> QED
  BY <1>1 DEF Dormant

(* Nobody signs in, no page comes or goes, no row changes.                 *)
LEMMA MissKeeps ==
    ASSUME NothingIsMissed, UNCHANGED <<auth, owner, inbox, query, mounted>>,
           auth # None => (Awaited => Awaited'), behind \subseteq behind'
    PROVE  NothingIsMissed'
BY DEF NothingIsMissed, UpToDate, Dormant

LEMMA MissSocket ==
    ASSUME Safe, NothingIsMissed, NEW s \in Sessions,
           Handshake(s) \/ ReceivePush(s) \/ OnClose(s) \/ Reconnect(s) \/ Drop(s)
    PROVE  NothingIsMissed'
<1>1. /\ link \in [Sessions -> Link] /\ link[s] \in Link /\ auth \in Sessions \cup {None}
      /\ behind \subseteq Queries
  BY DEF Safe, Types, BellType, SessionType, TabType
<1>2. UNCHANGED <<server, session, mark, mounted>>
  BY DEF Handshake, ReceivePush, OnClose, Reconnect, Drop
<1>3. \A t \in Sessions : t # s => link'[t] = link[t]
  BY <1>1 DEF Handshake, ReceivePush, OnClose, Reconnect, Drop
<1>4. CASE ReceivePush(s)
  <2>1. ASSUME auth # None, NEW q \in Queries \ behind' PROVE FreshQuery(q)'
    <3>1. query'[q].fetch = "sent" \/ (~mounted' /\ Dormant(query'[q]))
      BY <1>2, <1>4, <2>1, Refetched DEF ReceivePush, Safe
    <3> QED
      BY <3>1 DEF FreshQuery, UpToDate, Dormant
  <2> QED
    BY <1>2, <2>1 DEF NothingIsMissed, FreshQuery, session
<1>5. CASE Drop(s) /\ link[s].pushes > 0
  BY <1>5 DEF Drop, NothingIsMissed
<1>6. CASE Handshake(s) \/ OnClose(s) \/ Reconnect(s) \/ (Drop(s) /\ ~(link[s].pushes > 0))
  <2>1. query' = query /\ behind' = behind
    BY <1>6 DEF Handshake, OnClose, Reconnect, Drop
  <2>2. link'[s].pushes = link[s].pushes
    <3>1. CASE Handshake(s)
      BY <1>1, <3>1 DEF Handshake, Link
    <3>2. CASE OnClose(s)
      BY <1>1, <3>2, Links DEF OnClose
    <3>3. CASE Reconnect(s)
      BY <1>1, <3>3, Links DEF Reconnect
    <3>4. CASE Drop(s) /\ ~(link[s].pushes > 0)
      BY <1>1, <3>4 DEF Drop, Link
    <3> QED
      BY <1>6, <3>1, <3>2, <3>3, <3>4
  <2>3. auth # None => (Awaited => Awaited')
    BY <1>1, <1>2, <1>3, <2>2 DEF Awaited, server, session
  <2> QED
    BY <1>2, <2>1, <2>3, MissKeeps DEF server, session
<1> QED
  BY <1>4, <1>5, <1>6

LEMMA MissFetch ==
    ASSUME Safe, NothingIsMissed, NEW q \in Queries,
           AnswerFetch(q) \/ ReceiveFetch(q) \/ FetchFails(q) \/ Ages(q)
    PROVE  NothingIsMissed'
<1>1. query \in [Queries -> Query] /\ query[q] \in Query /\ behind \subseteq behind'
  BY DEF Safe, Types, BellType, TabType, AnswerFetch, ReceiveFetch, FetchFails, Ages
<1>2. UNCHANGED <<server, session, link, mark, mounted>>
  BY DEF AnswerFetch, ReceiveFetch, FetchFails, Ages
<1>3. \A r \in Queries : r # q => query'[r] = query[r]
  BY <1>1 DEF AnswerFetch, ReceiveFetch, FetchFails, Ages
<1>4. Awaited' = Awaited
  BY <1>2 DEF Awaited, server, session
<1>5. ASSUME auth # None, q \notin behind', FreshQuery(q) PROVE FreshQuery(q)'
  <2>1. CASE AnswerFetch(q)
    <3>1. query[q].by = owner[auth]
      BY <2>1 DEF AnswerFetch, Safe, SessionInv, OwnFetches
    <3>2. query'[q].fetch = "answered" /\ query'[q].answer = inbox[owner[auth]]
      BY <1>1, <2>1, <3>1 DEF AnswerFetch, Query
    <3> QED
      BY <1>2, <3>2 DEF FreshQuery, UpToDate, server, session
  <2>2. CASE ReceiveFetch(q)
    <3>1. query[q].answer = inbox[owner[auth]]
      BY <1>5, <2>2 DEF ReceiveFetch, FreshQuery, UpToDate, Dormant
    <3>2. query'[q].fetch = "idle" /\ query'[q].known /\ query'[q].data = query[q].answer
      BY <1>1, <2>2, ReceivedQuery DEF ReceiveFetch
    <3> QED
      BY <1>2, <3>1, <3>2 DEF FreshQuery, UpToDate, server, session
  <2>3. CASE FetchFails(q)
    BY <1>5, <2>3 DEF FetchFails
  <2>4. CASE Ages(q)
    <3>1. /\ ~mounted /\ query'[q].fetch = query[q].fetch /\ query'[q].answer = query[q].answer
          /\ query'[q].known = query[q].known /\ query'[q].data = query[q].data /\ query'[q].stale
      BY <1>1, <2>4 DEF Ages, Query
    <3> QED
      BY <1>2, <1>5, <3>1 DEF FreshQuery, UpToDate, Dormant, server, session
  <2> QED
    BY <2>1, <2>2, <2>3, <2>4
<1>6. ASSUME NEW r \in Queries, r # q, FreshQuery(r) PROVE FreshQuery(r)'
  BY <1>2, <1>3, <1>6 DEF FreshQuery, UpToDate, Dormant, server, session
<1>7. auth' # None /\ ~Awaited' => auth # None /\ ~Awaited
  BY <1>2, <1>4 DEF session
<1> QED
  BY <1>1, <1>5, <1>6, <1>7 DEF NothingIsMissed, FreshQuery

LEMMA MissMark ==
    ASSUME Safe, NothingIsMissed, NEW x \in Marks,
           Click(x) \/ AnswerMark(x) \/ ReceiveMark(x) \/ MarkFails(x)
    PROVE  NothingIsMissed'
<1>1. mark \in [Marks -> Mark] /\ mark[x] \in Mark /\ behind \subseteq Queries
  BY DEF Safe, Types, BellType, TabType
<1>2. UNCHANGED <<owed, session, link, mounted>>
  BY DEF Click, AnswerMark, ReceiveMark, MarkFails, server
<1>3. CASE AnswerMark(x)
  <2>1. mark'[x].phase = "answered"
    BY <1>1, <1>3 DEF AnswerMark, Mark
  <2> QED
    BY <2>1 DEF NothingIsMissed, Awaited
<1>4. CASE ReceiveMark(x)
  <2>1. ASSUME auth # None, NEW q \in Queries \ behind' PROVE FreshQuery(q)'
    <3>1. query'[q].fetch = "sent" \/ (~mounted' /\ Dormant(query'[q]))
      BY <1>2, <1>4, <2>1, Refetched DEF ReceiveMark, Safe
    <3> QED
      BY <3>1 DEF FreshQuery, UpToDate, Dormant
  <2> QED
    BY <1>2, <2>1 DEF NothingIsMissed, FreshQuery, session
<1>5. CASE Click(x) \/ (MarkFails(x) /\ UNCHANGED <<inbox, behind>>)
  <2>1. UNCHANGED <<inbox, query, behind>>
    BY <1>5 DEF Click, MarkFails, server
  <2>2. mark[x].phase # "answered" /\ \A y \in Marks : y # x => mark'[y] = mark[y]
    BY <1>1, <1>5 DEF Click, MarkFails, Settle
  <2>3. Awaited => Awaited'
    BY <1>2, <2>2 DEF Awaited, session
  <2> QED
    BY <1>2, <2>1, <2>3, MissKeeps DEF session
<1>6. CASE MarkFails(x) /\ behind' = Queries
  BY <1>6 DEF NothingIsMissed
<1> QED
  BY <1>3, <1>4, <1>5, <1>6 DEF MarkFails

LEMMA MissServer ==
    ASSUME Safe, NothingIsMissed,
           AccessDies \/ \E u \in Users, n \in Notes : Notify(u, n) \/ Push(u, n)
    PROVE  NothingIsMissed'
<1>1. CASE AccessDies
  <2>1. Awaited => Awaited'
    BY <1>1 DEF AccessDies, Awaited, session
  <2> QED
    BY <1>1, <2>1, MissKeeps DEF AccessDies, session
<1>2. ASSUME NEW u \in Users, NEW n \in Notes, Notify(u, n) PROVE NothingIsMissed'
  <2>1. UNCHANGED <<owner, auth, link, query, mark, mounted, behind>>
    BY <1>2 DEF Notify, session
  <2>2. owed' = owed \cup {<<u, n>>}
    BY <1>2 DEF Notify
  <2>3. CASE owner[auth] = u
    BY <2>1, <2>2, <2>3 DEF NothingIsMissed, Awaited
  <2>4. CASE owner[auth] # u
    <3>1. auth # None => inbox'[owner[auth]] = inbox[owner[auth]]
      BY <1>2, <2>4 DEF Notify, Safe, Types, BellType, ServerType, Owned
    <3>2. Awaited => Awaited'
      BY <2>1, <2>2 DEF Awaited
    <3> QED
      BY <2>1, <3>1, <3>2 DEF NothingIsMissed, UpToDate, Dormant
  <2> QED
    BY <2>3, <2>4
<1>3. ASSUME NEW u \in Users, NEW n \in Notes, Push(u, n) PROVE NothingIsMissed'
  <2>1. UNCHANGED <<inbox, owner, auth, query, mark, mounted>> /\ behind \subseteq Queries
    BY <1>3 DEF Push, session, Safe, Types, BellType, TabType
  <2>2. CASE auth \in Listeners(u)
    <3>1. auth \in Sessions /\ link[auth] \in Link
      BY <2>2 DEF Listeners, Safe, Types, BellType, TabType
    <3>2. link'[auth].pushes = link[auth].pushes + 1 /\ link[auth].pushes \in Nat
      BY <1>3, <2>2, <3>1 DEF Push, Link
    <3>3. link'[auth'].pushes > 0
      BY <2>1, <3>2
    <3> QED
      BY <3>3 DEF NothingIsMissed, Awaited
  <2>3. CASE auth \notin Listeners(u)
    BY <1>3, <2>1, <2>3 DEF Push, NothingIsMissed
  <2> QED
    BY <2>2, <2>3
<1> QED
  BY <1>1, <1>2, <1>3

LEMMA MissUser ==
    ASSUME Safe, NothingIsMissed, (\E u \in Users : SignIn(u)) \/ SignOut \/ Mount \/ Unmount
    PROVE  NothingIsMissed'
<1>1. ASSUME NEW u \in Users, SignIn(u) PROVE NothingIsMissed'
  <2>1. \A q \in Queries : query[q].fetch = "idle" /\ ~query[q].known
    BY <1>1 DEF SignIn, Safe, SessionInv, OwnFetches, BellShowsOwnRows
  <2>2. ~mounted /\ UNCHANGED <<query, mounted>>
    BY <1>1 DEF SignIn, Safe, SessionInv, OwnFetches
  <2> QED
    BY <2>1, <2>2 DEF NothingIsMissed, Dormant
<1>2. CASE SignOut
  BY <1>2 DEF SignOut, NothingIsMissed
<1>3. CASE Mount
  <2> DEFINE fetched == {q \in Queries : query[q].fetch = "idle" /\ (query[q].stale \/ ~query[q].known)}
  <2>1. PICK u \in Users : u = owner[auth]
    BY <1>3 DEF Mount, Safe, Types, Owned
  <2>2. /\ UNCHANGED <<server, session, link, mark>> /\ auth # None
        /\ query' = [q \in Queries |-> IF q \in fetched THEN Fetch(query[q], u) ELSE query[q]]
        /\ behind' = behind \ fetched
    BY <1>3, <2>1 DEF Mount
  <2>3. Awaited' = Awaited
    BY <2>2 DEF Awaited, server, session
  <2>4. ASSUME NEW q \in Queries, q \in fetched PROVE FreshQuery(q)'
    <3>1. query'[q].fetch = "sent"
      <4>1. query[q] \in Query
        BY DEF Safe, Types, BellType, TabType
      <4>2. query'[q] = Fetch(query[q], u)
        BY <2>2, <2>4
      <4> QED
        BY <4>1, <4>2, Fetched
    <3> QED
      BY <3>1 DEF FreshQuery, UpToDate
  <2>5. ASSUME NEW q \in Queries, q \notin fetched, q \notin behind', ~Awaited PROVE FreshQuery(q)'
    <3>1. q \notin behind /\ query'[q] = query[q] /\ ~Dormant(query[q])
      BY <2>2, <2>5 DEF Dormant
    <3>2. UpToDate(query[q], inbox[owner[auth]])
      BY <2>2, <2>5, <3>1 DEF NothingIsMissed
    <3> QED
      BY <2>2, <3>1, <3>2 DEF FreshQuery, UpToDate, server, session
  <2> HIDE DEF fetched
  <2> QED
    BY <2>2, <2>3, <2>4, <2>5 DEF NothingIsMissed, FreshQuery, session
<1>4. CASE Unmount
  <2>1. UNCHANGED <<server, session, link, query, mark, behind>> /\ ~mounted'
    BY <1>4 DEF Unmount
  <2>2. Awaited' = Awaited
    BY <2>1 DEF Awaited, server, session
  <2> QED
    BY <1>4, <2>1, <2>2 DEF Unmount, NothingIsMissed, UpToDate, Dormant, server, session
<1> QED
  BY <1>1, <1>2, <1>3, <1>4

LEMMA MissStep == Safe /\ NothingIsMissed /\ [Next]_vars => NothingIsMissed'
<1> SUFFICES ASSUME Safe, NothingIsMissed, [Next]_vars PROVE NothingIsMissed'
  OBVIOUS
<1>1. CASE SocketStep
  BY <1>1, MissSocket DEF SocketStep
<1>2. CASE FetchStep \/ \E q \in Queries : Ages(q)
  BY <1>2, MissFetch DEF FetchStep
<1>3. CASE MarkStep
  BY <1>3, MissMark DEF MarkStep
<1>4. CASE Faults
  BY <1>4, MissSocket, MissFetch, MissMark DEF Faults
<1>5. CASE UserStep
  BY <1>5, MissUser, MissMark DEF UserStep
<1>6. CASE ServerStep
  BY <1>6, MissServer DEF ServerStep
<1>7. CASE UNCHANGED vars
  <2>1. Awaited => Awaited'
    BY <1>7 DEF Awaited, vars, server, session
  <2> QED
    BY <1>7, <2>1, MissKeeps DEF vars, server, session
<1> QED
  BY <1>1, <1>2, <1>3, <1>4, <1>5, <1>6, <1>7 DEF Next

(* When nothing is in flight the badge and the dropdown are the server's   *)
(* rows: every push and every mark reaches both queries, whatever is under *)
(* way, unless the change is one that `behind` records.  A row the bell    *)
(* has not heard of is awaited, in the queue of pushes, in the socket or   *)
(* in the answer of a mark; and a message that arrives leaves no query     *)
(* with an answer from before it that is not fetched again or recorded.    *)
(* (useNotificationSocket.ts:33-36, useMarkNotificationRead.ts,            *)
(* useMarkAllNotificationsRead.ts)                                         *)
THEOREM BellIsUpToDate == Spec => []BellCatchesUp
<1>1. Init => NothingIsMissed
  BY DEF Init, NothingIsMissed
<1>2. Spec => []NothingIsMissed
  <2>1. Spec => [][Next]_vars /\ Init
    BY DEF Spec
  <2>2. Types /\ SessionInv => Safe
    BY DEF Safe
  <2> QED
    BY <1>1, <2>1, <2>2, SessionsHold, MissStep, PTL
<1>3. Types /\ NothingIsMissed => BellCatchesUp
  <2> SUFFICES ASSUME Types, NothingIsMissed, AtRest, NEW q \in Queries \ behind
               PROVE  query[q].known /\ query[q].data = inbox[owner[auth]]
    BY DEF BellCatchesUp
  <2>1. /\ auth # None /\ mounted /\ query[q].fetch = "idle" /\ link[auth].pushes = 0
        /\ \A n \in Notes : <<owner[auth], n>> \notin owed
        /\ \A x \in Marks : mark[x].phase = "idle"
    BY DEF AtRest
  <2>2. ~(link[auth].pushes > 0)
    BY <2>1
  <2>3. ~Awaited
    BY <2>1, <2>2 DEF Awaited
  <2> QED
    BY <2>1, <2>3 DEF NothingIsMissed, UpToDate
<1> QED
  BY <1>2, <1>3, SessionsHold, PTL

-----------------------------------------------------------------------------
(* A push is counted once: there are never more than notifications.        *)

(* The rows of a user whose push was published.                            *)
Announced(u) == {n \in Notes : inbox[u][n] # "absent" /\ <<u, n>> \notin owed}
Counted ==
    /\ \A u \in Users, n \in Notes : <<u, n>> \in owed => inbox[u][n] # "absent"
    /\ \A s \in Sessions, u \in Users : owner[s] = u => link[s].pushes <= Cardinality(Announced(u))

LEMMA Sizes ==
    ASSUME NEW A \in SUBSET Notes, NEW B \in SUBSET Notes
    PROVE  /\ Cardinality(A) \in Nat /\ Cardinality(A) <= Cardinality(Notes)
           /\ A \subseteq B => Cardinality(A) <= Cardinality(B)
           /\ \A n \in Notes : (n \notin A /\ A \cup {n} \subseteq B) => Cardinality(A) + 1 <= Cardinality(B)
<1>1. IsFiniteSet(A) /\ IsFiniteSet(B) /\ IsFiniteSet(Notes)
  BY FS_Subset
<1>2. /\ Cardinality(A) \in Nat /\ Cardinality(A) <= Cardinality(Notes)
      /\ A \subseteq B => Cardinality(A) <= Cardinality(B)
  BY <1>1, FS_Subset, FS_CardinalityType
<1>3. ASSUME NEW n \in Notes, n \notin A, A \cup {n} \subseteq B
      PROVE  Cardinality(A) + 1 <= Cardinality(B)
  <2>1. Cardinality(A \cup {n}) = Cardinality(A) + 1
    BY <1>1, <1>3, FS_AddElement
  <2>2. Cardinality(A \cup {n}) <= Cardinality(B)
    BY <1>1, <1>3, FS_Subset
  <2> QED
    BY <2>1, <2>2
<1> QED
  BY <1>2, <1>3

(* Rows and published pushes only grow, and no socket gets a push.         *)
LEMMA CountKeeps ==
    ASSUME Safe, Counted,
           \A u \in Users, n \in Notes :
              /\ <<u, n>> \in owed' => inbox'[u][n] # "absent"
              /\ (inbox[u][n] # "absent" /\ <<u, n>> \notin owed) =>
                    (inbox'[u][n] # "absent" /\ <<u, n>> \notin owed'),
           \A s \in Sessions :
              /\ owner[s] # None => owner'[s] = owner[s]
              /\ link'[s].pushes \in {0, link[s].pushes, link[s].pushes - 1}
    PROVE  Counted'
<1>1. \A u \in Users, n \in Notes : <<u, n>> \in owed' => inbox'[u][n] # "absent"
  OBVIOUS
<1>2. ASSUME NEW s \in Sessions, NEW u \in Users, owner'[s] = u
      PROVE  link'[s].pushes <= Cardinality(Announced(u)')
  <2>1. link[s].pushes \in Nat
    BY DEF Safe, Types, BellType, TabType, Link
  <2>2. Announced(u) \in SUBSET Notes /\ Announced(u)' \in SUBSET Notes /\ Announced(u) \subseteq Announced(u)'
    BY DEF Announced
  <2>3. /\ Cardinality(Announced(u)) <= Cardinality(Announced(u)')
        /\ Cardinality(Announced(u)) \in Nat /\ Cardinality(Announced(u)') \in Nat
    BY <2>2, Sizes
  <2>4. link[s].pushes <= Cardinality(Announced(u))
    <3>1. CASE owner[s] = None
      <4>1. link[s].pushes = 0
        BY <3>1, Empty DEF Safe, Types, Owned
      <4> QED
        BY <2>3, <4>1
    <3>2. CASE owner[s] # None
      BY <1>2, <3>2 DEF Counted
    <3> QED
      BY <3>1, <3>2
  <2> QED
    BY <2>1, <2>3, <2>4
<1> QED
  BY <1>1, <1>2 DEF Counted

(* The rows do not change, and no push is published.                       *)
LEMMA CountLinks ==
    ASSUME Safe, Counted, UNCHANGED <<inbox, owed>>,
           \A s \in Sessions :
              /\ owner[s] # None => owner'[s] = owner[s]
              /\ link'[s].pushes \in {0, link[s].pushes, link[s].pushes - 1}
    PROVE  Counted'
BY CountKeeps DEF Counted

LEMMA CountSocket ==
    ASSUME Safe, Counted, NEW s \in Sessions,
           Handshake(s) \/ ReceivePush(s) \/ OnClose(s) \/ Reconnect(s) \/ Drop(s)
    PROVE  Counted'
<1>1. link \in [Sessions -> Link] /\ link[s] \in Link
  BY DEF Safe, Types, BellType, TabType
<1>2. UNCHANGED <<inbox, owed, owner>>
  BY DEF Handshake, ReceivePush, OnClose, Reconnect, Drop, server, session
<1>3. \A t \in Sessions : t # s => link'[t] = link[t]
  BY <1>1 DEF Handshake, ReceivePush, OnClose, Reconnect, Drop
<1>4. link'[s].pushes \in {0, link[s].pushes, link[s].pushes - 1}
  <2>1. CASE Handshake(s) \/ ReceivePush(s) \/ Drop(s)
    BY <1>1, <2>1 DEF Handshake, ReceivePush, Drop, Link
  <2>2. CASE OnClose(s)
    BY <1>1, <2>2, Links DEF OnClose
  <2>3. CASE Reconnect(s)
    BY <1>1, <2>3, Links DEF Reconnect
  <2> QED
    BY <2>1, <2>2, <2>3
<1> QED
  BY <1>2, <1>3, <1>4, CountLinks

LEMMA CountMark ==
    ASSUME Safe, Counted, NEW x \in Marks,
           Click(x) \/ AnswerMark(x) \/ ReceiveMark(x) \/ MarkFails(x)
    PROVE  Counted'
<1>1. UNCHANGED <<owed, owner, link>>
  BY DEF Click, AnswerMark, ReceiveMark, MarkFails, server, session
<1>2. ASSUME NEW u \in Users, NEW n \in Notes, inbox[u][n] # "absent" PROVE inbox'[u][n] # "absent"
  <2>1. CASE UNCHANGED inbox
    BY <1>2, <2>1
  <2>2. CASE CommitMark(x)
    BY <1>2, <2>2 DEF CommitMark, Safe, Types, BellType, ServerType, Inboxes
  <2> QED
    BY <2>1, <2>2 DEF Click, AnswerMark, ReceiveMark, MarkFails, server
<1> QED
  BY <1>1, <1>2, CountKeeps DEF Counted

LEMMA CountServer ==
    ASSUME Safe, Counted, AccessDies \/ \E u \in Users, n \in Notes : Notify(u, n) \/ Push(u, n)
    PROVE  Counted'
<1>1. CASE AccessDies
  BY <1>1, CountLinks DEF AccessDies, session
<1>2. ASSUME NEW u \in Users, NEW n \in Notes, Notify(u, n) PROVE Counted'
  <2>1. /\ UNCHANGED <<owner, link>> /\ owed' = owed \cup {<<u, n>>} /\ inbox[u][n] = "absent"
        /\ inbox' = [inbox EXCEPT ![u][n] = "unread"]
    BY <1>2 DEF Notify, session
  <2>2. \A v \in Users, m \in Notes :
           /\ inbox[v][m] # "absent" => inbox'[v][m] = inbox[v][m] /\ <<v, m>> # <<u, n>>
           /\ <<v, m>> = <<u, n>> => inbox'[v][m] = "unread"
    BY <2>1 DEF Safe, Types, BellType, ServerType, Inboxes
  <2> QED
    BY <2>1, <2>2, CountKeeps DEF Counted
<1>3. ASSUME NEW u \in Users, NEW n \in Notes, Push(u, n) PROVE Counted'
  <2>1. /\ UNCHANGED <<inbox, owner>> /\ owed' = owed \ {<<u, n>>} /\ <<u, n>> \in owed
        /\ link' = [s \in Sessions |->
                       IF s \in Listeners(u) THEN [link[s] EXCEPT !.pushes = @ + 1] ELSE link[s]]
    BY <1>3 DEF Push, session
  <2>2. ASSUME NEW s \in Sessions, NEW v \in Users, owner'[s] = v
        PROVE  link'[s].pushes <= Cardinality(Announced(v)')
    <3>1. link[s] \in Link /\ link[s].pushes \in Nat /\ link[s].pushes <= Cardinality(Announced(v))
      BY <2>1, <2>2 DEF Safe, Types, BellType, TabType, Link, Counted
    <3>2. /\ Announced(v) \in SUBSET Notes /\ Announced(v)' \in SUBSET Notes
          /\ Announced(v) \subseteq Announced(v)'
      BY <2>1 DEF Announced
    <3>3. /\ Cardinality(Announced(v)) <= Cardinality(Announced(v)')
          /\ Cardinality(Announced(v)) \in Nat /\ Cardinality(Announced(v)') \in Nat
      BY <3>2, Sizes
    <3>4. CASE s \in Listeners(u)
      <4>1. v = u
        BY <2>1, <2>2, <3>4 DEF Listeners
      <4>2. n \notin Announced(v) /\ Announced(v) \cup {n} \subseteq Announced(v)'
        BY <2>1, <3>2, <4>1 DEF Announced, Counted
      <4>3. Cardinality(Announced(v)) + 1 <= Cardinality(Announced(v)')
        BY <3>2, <4>2, Sizes
      <4>4. link'[s].pushes = link[s].pushes + 1
        BY <2>1, <3>1, <3>4 DEF Link
      <4> QED
        BY <3>1, <3>3, <4>3, <4>4
    <3>5. CASE s \notin Listeners(u)
      BY <2>1, <3>1, <3>3, <3>5
    <3> QED
      BY <3>4, <3>5
  <2> QED
    BY <2>1, <2>2 DEF Counted
<1> QED
  BY <1>1, <1>2, <1>3

LEMMA CountStep == Safe /\ Counted /\ [Next]_vars => Counted'
<1> SUFFICES ASSUME Safe, Counted, [Next]_vars PROVE Counted'
  OBVIOUS
<1>1. CASE SocketStep
  BY <1>1, CountSocket DEF SocketStep
<1>2. ASSUME NEW q \in Queries, AnswerFetch(q) \/ ReceiveFetch(q) \/ FetchFails(q) \/ Ages(q)
      PROVE  Counted'
  BY <1>2, CountLinks DEF AnswerFetch, ReceiveFetch, FetchFails, Ages, server, session
<1>3. CASE MarkStep
  BY <1>3, CountMark DEF MarkStep
<1>4. CASE Faults
  BY <1>4, <1>2, CountSocket, CountMark DEF Faults
<1>5. ASSUME NEW u \in Users, SignIn(u) PROVE Counted'
  <2>1. PICK s \in Sessions : /\ owner[s] = None /\ owner' = [owner EXCEPT ![s] = u]
                              /\ link' = [link EXCEPT ![s] = Connect(@)]
    BY <1>5 DEF SignIn
  <2>2. link \in [Sessions -> Link] /\ link[s] \in Link
    BY DEF Safe, Types, BellType, TabType
  <2>3. link'[s].pushes = link[s].pushes
    BY <2>1, <2>2, Links
  <2>4. \A t \in Sessions : t # s => link'[t] = link[t] /\ owner'[t] = owner[t]
    BY <2>1, <2>2 DEF Safe, Types, BellType, SessionType
  <2> QED
    BY <1>5, <2>1, <2>3, <2>4, CountLinks DEF SignIn, server
<1>6. CASE SignOut
  <2>1. link \in [Sessions -> Link] /\ auth \in Sessions /\ link[auth] \in Link
    BY <1>6 DEF SignOut, Safe, Types, BellType, SessionType, TabType
  <2>2. link' = [link EXCEPT ![auth] = Cleanup(link[auth])]
    BY <1>6 DEF SignOut
  <2>3. link'[auth].pushes = 0
    BY <2>1, <2>2, Links
  <2>4. \A t \in Sessions : t # auth => link'[t] = link[t]
    BY <2>1, <2>2
  <2> QED
    BY <1>6, <2>3, <2>4, CountLinks DEF SignOut, server
<1>7. CASE Mount \/ Unmount
  BY <1>7, CountLinks DEF Mount, Unmount, server, session
<1>8. CASE UserStep
  BY <1>5, <1>6, <1>7, <1>8, CountMark DEF UserStep
<1>9. CASE ServerStep
  BY <1>9, CountServer DEF ServerStep
<1>10. CASE UNCHANGED vars
  BY <1>10, CountLinks DEF vars, server, session
<1> QED
  BY <1>1, <1>2, <1>3, <1>4, <1>8, <1>9, <1>10 DEF Next, FetchStep

(* Every variable keeps its type; a socket never holds more pushes than    *)
(* there are notifications, because a row is pushed once.                  *)
THEOREM TypeCorrect == Spec => []TypeOK
<1>1. Init => Counted
  <2> SUFFICES ASSUME Init PROVE Counted
    OBVIOUS
  <2>1. \A s \in Sessions, u \in Users : owner[s] # u
    BY DEF Init
  <2> QED
    BY <2>1 DEF Init, Counted
<1>2. Types /\ SessionInv => Safe
  BY DEF Safe
<1>3. Safe /\ Counted => TypeOK
  <2> SUFFICES ASSUME Safe, Counted PROVE TypeOK
    OBVIOUS
  <2>1. Cardinality(Notes) \in Nat
    BY FS_CardinalityType
  <2>2. ASSUME NEW s \in Sessions PROVE link[s].pushes \in 0 .. Cardinality(Notes)
    <3>1. link[s].pushes \in Nat
      BY DEF Safe, Types, BellType, TabType, Link
    <3>2. CASE owner[s] = None
      BY <2>1, <3>2, Empty DEF Safe, Types, Owned
    <3>3. CASE owner[s] # None
      <4>1. PICK u \in Users : owner[s] = u
        BY <3>3 DEF Safe, Types, BellType, SessionType
      <4>2. link[s].pushes <= Cardinality(Announced(u))
        BY <4>1 DEF Counted
      <4>3. Cardinality(Announced(u)) \in Nat /\ Cardinality(Announced(u)) <= Cardinality(Notes)
        BY Sizes DEF Announced
      <4> QED
        BY <2>1, <3>1, <4>2, <4>3
    <3> QED
      BY <3>2, <3>3
  <2>3. link \in [Sessions -> [stopped : BOOLEAN, timer : BOOLEAN, pushes : 0..Cardinality(Notes),
                              socket : {"none", "connecting", "open", "dropped", "closing"}]]
    BY <2>2 DEF Safe, Types, BellType, TabType, Link
  <2> QED
    BY <2>3 DEF Safe, Types, BellType, ServerType, SessionType, TabType, Query, Mark, TypeOK
<1> QED
  BY <1>1, <1>2, <1>3, SessionsHold, CountStep, PTL DEF Spec
=============================================================================
