-------------------------------- MODULE Bell --------------------------------
(***************************************************************************)
(* The notification bell of one browser tab                                *)
(* (src/frontend/src/features/notification): the WebSocket that            *)
(* AuthInitializer keeps open for the session Redux knows, the two cached  *)
(* queries behind the badge and the dropdown, and the mutations that mark  *)
(* notifications as read.  The server commits a row, then pushes it to the *)
(* sockets of its user (module Notifications), and checks the token of a   *)
(* socket at the handshake only.                                           *)
(*                                                                         *)
(* An action is one callback of the browser or one step of the server.     *)
(* Sessions are numbered as they sign in; a session stands for the access  *)
(* token Redux holds, which the interceptor's refreshes do not replace     *)
(* there.  The requests carry the refreshed one and are not refused.       *)
(***************************************************************************)
EXTENDS Naturals, FiniteSets

CONSTANTS Users, Notes,
          OldNotes,     \* every user's unread rows from before the behaviour
          MaxSessions,  \* bound: sign-ins of a behaviour
          MaxFaults,    \* bound: dropped sockets and requests that fail
          MaxActs,      \* bound: what the user does
          MaxSame,      \* bound: marks of one target in flight at once
          None

ASSUME BellAssumption ==
    /\ OldNotes \subseteq Notes /\ IsFiniteSet(Notes)
    /\ MaxSessions \in Nat /\ MaxFaults \in Nat /\ MaxActs \in Nat /\ MaxSame \in Nat
    /\ None \notin Users /\ None \notin 1..MaxSessions

Sessions == 1..MaxSessions
\* The bell's two queries: unread_only for the badge, the latest for the list.
Queries == {"badge", "list"}
\* What a mutation marks: one notification, or all of them.
Targets == Notes \cup {"all"}
Marks == Targets \X (1..MaxSame)

VARIABLES
    \* the server
    inbox,      \* inbox[u][n]: the row of a notification
    owed,       \* rows committed whose push is not sent: <<user, note>>
    dead,       \* sessions whose first access token has expired
    \* the browser
    owner,      \* owner[s]: who signed in
    auth,       \* Redux: the session, or None
    link,       \* link[s]: the socket effect of session s
    query,      \* query[q]: the cache entry and its fetch
    mark,       \* mark[m]: a mutation in flight for the target m[1]
    mounted,    \* the bell is on the page
    markingAll, \* the "all" mutation that this bell has pending, or None
    acts, faults,
    \* history, read by properties only
    behind      \* queries that miss a change nothing will announce again

server == <<inbox, owed, dead>>
session == <<owner, auth>>
bounds == <<acts, faults>>
vars == <<server, session, link, query, mark, mounted, markingAll, bounds, behind>>

RowStatus == {"absent", "unread", "read"}
Inboxes == [Notes -> RowStatus]
Unread(snapshot) == {n \in Notes : snapshot[n] = "unread"}

NoLink == [stopped |-> FALSE, socket |-> "none", timer |-> FALSE, pushes |-> 0]
NewQuery == [known |-> FALSE, stale |-> FALSE, data |-> [n \in Notes |-> "absent"], of |-> None,
             fetch |-> "idle", by |-> None, answer |-> [n \in Notes |-> "absent"]]
NoMark == [phase |-> "idle", by |-> None]

Init ==
    /\ inbox = [u \in Users |-> [n \in Notes |-> IF n \in OldNotes THEN "unread" ELSE "absent"]]
    /\ owed = {} /\ dead = {}
    /\ owner = [s \in Sessions |-> None] /\ auth = None
    /\ link = [s \in Sessions |-> NoLink]
    /\ query = [q \in Queries |-> NewQuery]
    /\ mark = [m \in Marks |-> NoMark] /\ markingAll = None
    /\ mounted = FALSE /\ acts = 0 /\ faults = 0 /\ behind = {}

Fault == faults < MaxFaults /\ faults' = faults + 1 /\ UNCHANGED acts
Act == acts < MaxActs /\ acts' = acts + 1 /\ UNCHANGED faults
-----------------------------------------------------------------------------
(* The query cache.                                                        *)

\* A fetch carries the session's user; it is sent when none is in flight, and
\* in place of one that is when the entry already holds data.
Fetch(query_q, user) == [query_q EXCEPT !.fetch = "sent", !.by = user]

\* invalidateQueries: the entry is stale.  With an observer it is fetched
\* anew; its first fetch is joined instead, and that answer counts as fresh.
Invalidate(query_q, user) ==
    LET stale == [query_q EXCEPT !.stale = query_q.known \/ query_q.fetch # "idle"]
    IN IF mounted /\ (query_q.known \/ query_q.fetch = "idle") THEN Fetch(stale, user) ELSE stale

\* mutant: the push refreshes the badge and leaves the list
NotifiedOnlyBadge == {"badge"}
\* NOTIFICATIONS_QUERY_KEY is the prefix of both keys.
Notified == Queries

\* What an invalidation does not reach: a fetch answered earlier and received
\* later takes the mark away again.
Overtaken == {q \in Queries : query[q].fetch # "idle" /\ ~(mounted /\ query[q].known)}

InvalidateNotifications ==
    /\ query' = [q \in Queries |->
                    IF q \in Notified /\ auth # None THEN Invalidate(query[q], owner[auth])
                    ELSE query[q]]
    /\ behind' = behind \cup Overtaken

\* The endpoint reads the caller's rows.
AnswerFetch(q) ==
    /\ query[q].fetch = "sent"
    /\ query' = [query EXCEPT ![q].fetch = "answered", ![q].answer = inbox[query[q].by]]
    /\ UNCHANGED <<server, session, link, mark, mounted, markingAll, bounds, behind>>

ReceiveFetch(q) ==
    /\ query[q].fetch = "answered"
    /\ query' = [query EXCEPT ![q] = [NewQuery EXCEPT !.known = TRUE, !.data = query[q].answer,
                                                      !.of = query[q].by]]
    /\ UNCHANGED <<server, session, link, mark, mounted, markingAll, bounds, behind>>

\* The request and its one retry fail: the entry keeps what it has.
FetchFails(q) ==
    /\ query[q].fetch = "sent" /\ Fault
    /\ query' = [query EXCEPT ![q].fetch = "idle"]
    /\ behind' = behind \cup {q}
    /\ UNCHANGED <<server, session, link, mark, mounted, markingAll>>

\* 30 seconds pass.  It matters to the next page with the bell only.
Ages(q) ==
    /\ ~mounted /\ query[q].known /\ ~query[q].stale
    /\ query' = [query EXCEPT ![q].stale = TRUE]
    /\ UNCHANGED <<server, session, link, mark, mounted, markingAll, bounds, behind>>
-----------------------------------------------------------------------------
(* The server: a row is committed, then its push is published.             *)

Notify(u, n) ==
    /\ \A v \in Users : inbox[v][n] = "absent"
    /\ inbox' = [inbox EXCEPT ![u][n] = "unread"]
    /\ owed' = owed \cup {<<u, n>>}
    /\ UNCHANGED <<dead, session, link, query, mark, mounted, markingAll, bounds, behind>>

\* The sockets the connection manager knows for the user.
Listeners(u) == {s \in Sessions : owner[s] = u /\ link[s].socket = "open"}

Push(u, n) ==
    /\ <<u, n>> \in owed
    /\ owed' = owed \ {<<u, n>>}
    /\ link' = [s \in Sessions |->
                   IF s \in Listeners(u) THEN [link[s] EXCEPT !.pushes = @ + 1] ELSE link[s]]
    /\ behind' = IF auth \in Listeners(u) THEN behind ELSE behind \cup Queries
    /\ UNCHANGED <<inbox, dead, session, query, mark, mounted, markingAll, bounds>>

\* The access token expires; an open socket stays open.
AccessDies ==
    /\ auth # None /\ auth \notin dead /\ dead' = dead \cup {auth}
    /\ UNCHANGED <<inbox, owed, session, link, query, mark, mounted, markingAll, bounds, behind>>
-----------------------------------------------------------------------------
(* The socket (useNotificationSocket).                                     *)

Connect(l) == [l EXCEPT !.socket = "connecting", !.timer = FALSE]

\* mutant: the cleanup leaves the reconnect timer running
CleanupKeepsTimer(l) ==
    [l EXCEPT !.stopped = TRUE, !.pushes = 0,
              !.socket = IF l.socket = "none" THEN "none" ELSE "closing"]
\* The effect's cleanup.  After close() nothing more is received.
Cleanup(l) ==
    [l EXCEPT !.stopped = TRUE, !.timer = FALSE, !.pushes = 0,
              !.socket = IF l.socket = "none" THEN "none" ELSE "closing"]

\* The handshake: the token must be alive, else close code 4401.
Handshake(s) ==
    /\ link[s].socket = "connecting"
    /\ link' = [link EXCEPT ![s].socket = IF s \in dead THEN "dropped" ELSE "open"]
    /\ UNCHANGED <<server, session, query, mark, mounted, markingAll, bounds, behind>>

\* onmessage.
ReceivePush(s) ==
    /\ link[s].socket = "open" /\ link[s].pushes > 0
    /\ link' = [link EXCEPT ![s].pushes = @ - 1]
    /\ InvalidateNotifications
    /\ UNCHANGED <<server, session, mark, mounted, markingAll, bounds>>

\* The connection breaks, with the pushes under way.
Drop(s) ==
    /\ link[s].socket = "open" /\ Fault
    /\ link' = [link EXCEPT ![s].socket = "dropped", ![s].pushes = 0]
    /\ behind' = IF link[s].pushes > 0 THEN Queries ELSE behind
    /\ UNCHANGED <<server, session, query, mark, mounted, markingAll>>

\* mutant: a refused or broken connection is not tried again
ClosedForGood(l) == [l EXCEPT !.socket = "none"]
\* onclose: the delay starts unless the effect was cleaned up.
Closed(l) == [l EXCEPT !.socket = "none", !.timer = ~l.stopped]

OnClose(s) ==
    /\ link[s].socket \in {"dropped", "closing"}
    /\ link' = [link EXCEPT ![s] = Closed(@)]
    /\ UNCHANGED <<server, session, query, mark, mounted, markingAll, bounds, behind>>

\* RECONNECT_DELAY_MS pass.  Nothing is invalidated when the socket is back.
Reconnect(s) ==
    /\ link[s].timer
    /\ link' = [link EXCEPT ![s] = Connect(@)]
    /\ UNCHANGED <<server, session, query, mark, mounted, markingAll, bounds, behind>>
-----------------------------------------------------------------------------
(* The session, as the bell sees it.                                       *)

\* setCredentials: the effect runs for the new token.
SignIn(u) ==
    /\ auth = None /\ Act
    /\ \E s \in Sessions :
         /\ owner[s] = None /\ \A r \in 1..(s - 1) : owner[r] # None
         /\ auth' = s /\ owner' = [owner EXCEPT ![s] = u]
         /\ link' = [link EXCEPT ![s] = Connect(@)]
    /\ UNCHANGED <<server, query, mark, mounted, markingAll, behind>>

\* queryClient.clear() forgets the entries and their fetches.
Cleared == [q \in Queries |-> NewQuery]

\* The logout settles: credentials, socket, cache and page go.
SignOut ==
    /\ auth # None /\ Act
    /\ auth' = None /\ mounted' = FALSE /\ markingAll' = None
    /\ link' = [link EXCEPT ![auth] = Cleanup(@)]
    /\ query' = Cleared
    /\ behind' = {}
    /\ UNCHANGED <<server, owner, mark>>
-----------------------------------------------------------------------------
(* The bell.                                                               *)

\* A page with the bell: an entry without data or with stale data is fetched,
\* unless a fetch of it is in flight.
Mount ==
    /\ auth # None /\ ~mounted /\ Act
    /\ mounted' = TRUE
    /\ LET fetched == {q \in Queries : query[q].fetch = "idle" /\ (query[q].stale \/ ~query[q].known)}
       IN /\ query' = [q \in Queries |-> IF q \in fetched THEN Fetch(query[q], owner[auth]) ELSE query[q]]
          /\ behind' = behind \ fetched
    /\ UNCHANGED <<server, session, link, mark, markingAll>>

\* What it has pending is answered all the same; the next bell is told nothing.
Unmount ==
    /\ mounted /\ Act
    /\ mounted' = FALSE /\ markingAll' = None
    /\ UNCHANGED <<server, session, link, query, mark, behind>>

\* The badge counts its own query's rows; the dropdown shows the other's.
UnreadCount == Cardinality(Unread(query["badge"].data))
CanMarkAllRead == mounted /\ UnreadCount > 0 /\ markingAll = None
\* handleItemClick: a mark in flight does not keep it from another.
CanMarkRead(n) == mounted /\ n \in Unread(query["list"].data)

Click(m) ==
    /\ mark[m].phase = "idle" /\ \A k \in 1..(m[2] - 1) : mark[<<m[1], k>>].phase # "idle"
    /\ Act
    /\ IF m[1] = "all" THEN CanMarkAllRead ELSE CanMarkRead(m[1])
    /\ mark' = [mark EXCEPT ![m] = [phase |-> "sent", by |-> owner[auth]]]
    /\ markingAll' = IF m[1] = "all" THEN m ELSE markingAll
    /\ UNCHANGED <<server, session, link, query, mounted, behind>>

\* The rows an UPDATE of the endpoint reaches: the caller's own, unread ones.
Marked(x, u) == {n \in Unread(inbox[u]) : x \in {n, "all"}}
CommitMark(m) ==
    inbox' = [inbox EXCEPT ![mark[m].by] =
                 [n \in Notes |-> IF n \in Marked(m[1], mark[m].by) THEN "read" ELSE @[n]]]

AnswerMark(m) ==
    /\ mark[m].phase = "sent"
    /\ CommitMark(m)
    /\ mark' = [mark EXCEPT ![m].phase = "answered"]
    /\ UNCHANGED <<owed, dead, session, link, query, mounted, markingAll, bounds, behind>>

Settle(m) ==
    /\ mark' = [mark EXCEPT ![m] = NoMark]
    /\ markingAll' = IF markingAll = m THEN None ELSE markingAll

\* onSuccess.  A failed mutation has no handler: its rows may have been
\* marked, and nothing is fetched.
ReceiveMark(m) ==
    /\ mark[m].phase = "answered" /\ Settle(m)
    /\ InvalidateNotifications
    /\ UNCHANGED <<server, session, link, mounted, bounds>>

MarkFails(m) ==
    /\ mark[m].phase = "sent" /\ Fault /\ Settle(m)
    /\ \/ UNCHANGED <<inbox, behind>>
       \/ CommitMark(m) /\ behind' = Queries
    /\ UNCHANGED <<owed, dead, session, link, query, mounted>>
-----------------------------------------------------------------------------
SocketStep == \E s \in Sessions : Handshake(s) \/ ReceivePush(s) \/ OnClose(s) \/ Reconnect(s)
FetchStep == \E q \in Queries : AnswerFetch(q) \/ ReceiveFetch(q)
MarkStep == \E m \in Marks : AnswerMark(m) \/ ReceiveMark(m)
Faults == (\E s \in Sessions : Drop(s)) \/ (\E q \in Queries : FetchFails(q))
          \/ (\E m \in Marks : MarkFails(m))
UserStep == (\E u \in Users : SignIn(u)) \/ SignOut \/ Mount \/ Unmount
            \/ (\E m \in Marks : Click(m))
ServerStep == AccessDies \/ \E u \in Users, n \in Notes : Notify(u, n) \/ Push(u, n)

Next == SocketStep \/ FetchStep \/ MarkStep \/ Faults \/ UserStep \/ ServerStep
        \/ (\E q \in Queries : Ages(q))

\* Timers fire and handshakes are answered; each session's apart.
Fairness == \A s \in Sessions : WF_vars(Handshake(s)) /\ WF_vars(OnClose(s)) /\ WF_vars(Reconnect(s))

Spec == Init /\ [][Next]_vars /\ Fairness
-----------------------------------------------------------------------------
(* Properties.                                                             *)

\* TypeOK: every variable keeps its type.
TypeOK ==
    /\ inbox \in [Users -> Inboxes] /\ owed \subseteq Users \X Notes /\ dead \subseteq Sessions
    /\ owner \in [Sessions -> Users \cup {None}] /\ auth \in Sessions \cup {None}
    /\ link \in [Sessions -> [stopped : BOOLEAN, timer : BOOLEAN, pushes : 0..Cardinality(Notes),
                              socket : {"none", "connecting", "open", "dropped", "closing"}]]
    /\ query \in [Queries -> [known : BOOLEAN, stale : BOOLEAN, data : Inboxes, of : Users \cup {None},
                              fetch : {"idle", "sent", "answered"}, by : Users \cup {None},
                              answer : Inboxes]]
    /\ mark \in [Marks -> [phase : {"idle", "sent", "answered"}, by : Users \cup {None}]]
    /\ mounted \in BOOLEAN /\ markingAll \in Marks \cup {None} /\ behind \subseteq Queries

\* OneSocketOrTimer: the session Redux knows has exactly one of a socket
\* and a reconnect timer; one that ended has neither, except a socket that is
\* closing (the effect of useNotificationSocket and its cleanup).
OneSocketOrTimer ==
    \A s \in Sessions :
        IF s = auth THEN link[s].timer = (link[s].socket = "none") /\ link[s].socket # "closing"
        ELSE ~link[s].timer /\ link[s].socket \in {"none", "closing"}

\* BellShowsOwnRows: whatever the bell shows was fetched for the user who is
\* signed in, though the query keys do not name a user (useNotifications and
\* the clear of the logout).
BellShowsOwnRows ==
    \A q \in Queries : query[q].known => auth # None /\ query[q].of = owner[auth]

\* NothingOutlivesTheSession: whenever a drop, a reconnect timer, an answer or
\* a logout falls between the others, no socket and no row of one session is
\* left to the next.
NothingOutlivesTheSession == OneSocketOrTimer /\ BellShowsOwnRows

\* BellCatchesUp: when nothing is in flight, badge and dropdown are the
\* server's rows: every push and every mark reaches both queries, unless the
\* change is one of those that `behind` records.
AtRest ==
    /\ auth # None /\ mounted
    /\ \A n \in Notes : <<owner[auth], n>> \notin owed
    /\ link[auth].pushes = 0
    /\ \A q \in Queries : query[q].fetch = "idle"
    /\ \A m \in Marks : mark[m].phase = "idle"
BellCatchesUp ==
    AtRest => \A q \in Queries \ behind : query[q].known /\ query[q].data = inbox[owner[auth]]

\* SocketComesBackWhileTokenLives: as long as the first access token lives, a
\* session that lasts has its socket open again and again.
SocketComesBackWhileTokenLives ==
    \A s \in Sessions :
        (auth = s /\ s \notin dead) ~> (link[s].socket = "open" \/ auth # s \/ s \in dead)

\* SocketComesBack: src/frontend/src/features/notification/hooks/
\* useNotificationSocket.ts:19 says the socket reconnects automatically if it
\* drops.  The token it reconnects with is the one of the sign-in.
SocketComesBack ==
    \A s \in Sessions : (auth = s) ~> (link[s].socket = "open" \/ auth # s)
=============================================================================
