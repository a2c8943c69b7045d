------------------------------ MODULE Session ------------------------------
(***************************************************************************)
(* The browser's side of a session (src/frontend/src): the access token    *)
(* kept in a module variable, the axios interceptor that refreshes it, the *)
(* Redux copy of it, the two queries 'auth/init' and 'user', and the       *)
(* routes that render from all four.  The server is what its endpoints     *)
(* answer: login issues a pair, refresh answers for a live cookie, logout  *)
(* blacklists both and deletes the cookie.                                 *)
(*                                                                         *)
(* JavaScript runs to completion, so an action is one callback, one click  *)
(* or one render; a request is three of them: sent, answered by the        *)
(* server, received.  Tokens are pairs numbered as the server issues them. *)
(***************************************************************************)
EXTENDS Naturals, Sequences, FiniteSets

CONSTANTS Users,        \* accounts
          Superusers,   \* those with is_superuser
          Calls,        \* identities for ordinary API calls in flight
          Pages,        \* the routes the user opens by URL or link
          MaxTokens,    \* bound: tokens issued in a behaviour
          MaxClicks,    \* bound: what the user does in a behaviour
          None          \* null / undefined

\* Routes: the URL's classes, as the router groups them.
PublicRoutes == {"landing", "login", "register"}
GuardedRoutes == {"dashboard", "admin"}
Routes == PublicRoutes \cup GuardedRoutes \cup {"jobs"}

ASSUME SessionAssumption ==
    /\ Superusers \subseteq Users
    /\ Pages \subseteq Routes
    /\ MaxTokens \in Nat \ {0} /\ MaxClicks \in Nat
    /\ None \notin Users \cup Calls \cup [user : Users, n : 1..MaxTokens]

VARIABLES
    \* the server
    issued,          \* tokens issued so far
    deadAccess,      \* access tokens it refuses: expired or blacklisted
    deadRefresh,     \* refresh tokens it refuses: expired, blacklisted, suspended
    \* the browser
    cookie,          \* the httpOnly refresh_token cookie
    accessToken,     \* apiClient's module variable
    defaultAuth,     \* apiClient.defaults.headers.common.Authorization
    isRefreshing,    \* apiClient's flag
    failedQueue,     \* apiClient's queue, as calls
    call,            \* call[c]: an ordinary request and its interceptor
    init,            \* the request of the query ['auth', 'init']
    login,           \* the login mutation
    logout,          \* the logout mutation
    auth,            \* Redux: [token, isAuthenticated]
    initQ,           \* query ['auth', 'init']: status and last `enabled`
    userQ,           \* query ['user']: data, error, the call it waits for
    route, view,     \* the URL, and what the last render shows
    dirty,           \* a render is due
    clicks,          \* what the user has done so far
    \* history, read by properties only
    signedOut,       \* since the last logout: "asked", or "confirmed" by the server
    tainted          \* a session ended in a way that leaves its traces

server == <<issued, deadAccess, deadRefresh>>
client == <<accessToken, defaultAuth, isRefreshing, failedQueue>>
history == <<signedOut, tainted>>
vars == <<server, cookie, client, call, init, login, logout, auth, initQ, userQ,
          route, view, dirty, clicks, history>>

Tokens == [user : Users, n : 1..MaxTokens]

\* A request: where it is, the token or cookie it carries, then what came back.
Idle == [phase |-> "idle", tok |-> None, status |-> "none", retry |-> FALSE]
Sent(tok, retry) == [phase |-> "sent", tok |-> tok, status |-> "none", retry |-> retry]
Answered(r, status, tok) == [r EXCEPT !.phase = "answered", !.status = status, !.tok = tok]

SignedOutAuth == [token |-> None, isAuthenticated |-> FALSE]
Credentials(tok) == [token |-> tok, isAuthenticated |-> TRUE]
NewInitQ == [status |-> "new", enabled |-> FALSE]
NewUserQ == [data |-> None, error |-> FALSE, waitsFor |-> None]

\* setAccessToken is an assignment; its falsy values are null only.
HasToken == accessToken # None

\* The request interceptor: the token in memory wins over the default header.
AuthorizationHeader == IF HasToken THEN accessToken ELSE defaultAuth

Refreshers == {c \in Calls : call[c].phase \in {"refreshing", "refreshed"}}
RefreshOut == Refreshers # {} \/ init.phase # "idle"

\* What the user does, up to a bound.
Click == clicks < MaxClicks /\ clicks' = clicks + 1

Init ==
    /\ \E user \in Users, back \in BOOLEAN :
         /\ cookie = IF back THEN [user |-> user, n |-> 1] ELSE None
         /\ issued = IF back THEN 1 ELSE 0
    /\ deadAccess = {} /\ deadRefresh = {}
    /\ accessToken = None /\ defaultAuth = None
    /\ isRefreshing = FALSE /\ failedQueue = <<>>
    /\ call = [c \in Calls |-> Idle]
    /\ init = Idle /\ login = Idle /\ logout = Idle
    /\ auth = SignedOutAuth
    /\ initQ = NewInitQ /\ userQ = NewUserQ
    /\ route \in Pages /\ view = "blank" /\ dirty = TRUE
    /\ clicks = 0 /\ signedOut = "no" /\ tainted = FALSE
-----------------------------------------------------------------------------
(* The server. *)

\* An access token expires, or its owner is suspended.
AccessDies ==
    /\ \E n \in 1..issued \ deadAccess : deadAccess' = deadAccess \cup {n}
    /\ UNCHANGED <<clicks, issued, deadRefresh, cookie, client, call, init, login, logout,
                   auth, initQ, userQ, route, view, dirty, history>>

\* The refresh token expires or its owner is suspended.
RefreshDies ==
    /\ cookie # None /\ cookie.n \notin deadRefresh
    /\ deadRefresh' = deadRefresh \cup {cookie.n}
    /\ UNCHANGED <<clicks, issued, deadAccess, cookie, client, call, init, login, logout,
                   auth, initQ, userQ, route, view, dirty, history>>

\* get_current_user: 401 without a live access token; or no answer at all.
Verdicts(tok) ==
    {"failed"} \cup {IF tok = None \/ tok.n \in deadAccess THEN "401" ELSE "ok"}

AnswerCall(c) ==
    /\ call[c].phase = "sent"
    /\ \E status \in Verdicts(call[c].tok) :
         call' = [call EXCEPT ![c] = Answered(@, status, @.tok)]
    /\ UNCHANGED <<clicks, server, cookie, client, init, login, logout, auth, initQ, userQ,
                   route, view, dirty, history>>

\* POST /auth/refresh: a new access token for a live cookie, which stays as it
\* is.  A refusal and a lost answer are one case to the client: no token.
Granted(tok) == tok # None /\ tok.n \notin deadRefresh /\ issued < MaxTokens
Fresh(user) == [user |-> user, n |-> issued + 1]

AnswerRefresh(c) ==
    /\ call[c].phase = "refreshing"
    /\ \/ /\ Granted(call[c].tok)
          /\ issued' = issued + 1
          /\ call' = [call EXCEPT ![c].phase = "refreshed", ![c].tok = Fresh(call[c].tok.user)]
       \/ /\ UNCHANGED issued
          /\ call' = [call EXCEPT ![c].phase = "refreshed", ![c].tok = None]
    /\ UNCHANGED <<clicks, deadAccess, deadRefresh, cookie, client, init, login, logout, auth,
                   initQ, userQ, route, view, dirty, history>>

AnswerInit ==
    /\ init.phase = "sent"
    /\ \/ /\ Granted(init.tok)
          /\ issued' = issued + 1
          /\ init' = Answered(init, "ok", Fresh(init.tok.user))
       \/ /\ UNCHANGED issued
          /\ init' = Answered(init, "failed", None)
    /\ UNCHANGED <<clicks, deadAccess, deadRefresh, cookie, client, call, login, logout, auth,
                   initQ, userQ, route, view, dirty, history>>

\* POST /auth/login: a pair for the account, or a refusal.
AnswerLogin ==
    /\ login.phase = "sent"
    /\ \/ /\ issued < MaxTokens
          /\ issued' = issued + 1
          /\ \E user \in Users : login' = Answered(login, "ok", Fresh(user))
       \/ /\ UNCHANGED issued
          /\ login' = Answered(login, "failed", None)
    /\ UNCHANGED <<clicks, deadAccess, deadRefresh, cookie, client, call, init, logout, auth,
                   initQ, userQ, route, view, dirty, history>>

\* mutant: logout blacklists the refresh token only
AnswerLogoutRefreshOnly ==
    /\ logout.phase = "sent"
    /\ \/ /\ logout' = Answered(logout, "failed", logout.tok)
          /\ UNCHANGED deadRefresh
       \/ /\ logout.tok # None /\ cookie # None
          /\ logout' = Answered(logout, "ok", logout.tok)
          /\ deadRefresh' = deadRefresh \cup {cookie.n}
    /\ UNCHANGED <<clicks, issued, deadAccess, cookie, client, call, init, login, auth,
                   initQ, userQ, route, view, dirty, history>>

\* POST /auth/logout asks for a bearer token and a cookie that can be decoded
\* and are not blacklisted yet, not for a live session: a suspended account
\* logs out as well.  It blacklists the two in two commits; a refusal or a
\* failure may fall before, between or after them.
AnswerLogout ==
    /\ logout.phase = "sent"
    /\ \/ /\ logout' = Answered(logout, "failed", logout.tok)
          /\ UNCHANGED <<deadAccess, deadRefresh>>
       \/ /\ logout.tok # None /\ cookie # None
          /\ deadAccess' = deadAccess \cup {logout.tok.n}
          /\ \/ /\ logout' = Answered(logout, "failed", logout.tok)
                /\ UNCHANGED deadRefresh
             \/ /\ \E status \in {"ok", "failed"} : logout' = Answered(logout, status, logout.tok)
                /\ deadRefresh' = deadRefresh \cup {cookie.n}
    /\ UNCHANGED <<clicks, issued, cookie, client, call, init, login, auth, initQ, userQ,
                   route, view, dirty, history>>
-----------------------------------------------------------------------------
(* Ordinary calls and the response interceptor. *)

\* Any component sends a request; pages open to everyone do too.
Send(c) ==
    /\ Click
    /\ ~dirty /\ view \in Routes /\ call[c].phase = "idle"
    /\ call' = [call EXCEPT ![c] = Sent(AuthorizationHeader, FALSE)]
    /\ UNCHANGED <<server, cookie, client, init, login, logout, auth, initQ, userQ,
                   route, view, dirty, history>>

\* What the calls in S tell the query that waits for one of them.
Settled(S, data) ==
    IF userQ.waitsFor \in S
    THEN [data |-> IF data = None THEN userQ.data ELSE data,
          error |-> data = None, waitsFor |-> None]
    ELSE userQ

\* A request that succeeds, or fails with anything but a 401, settles.
ReceivePlain(c) ==
    /\ call[c].phase = "answered"
    /\ call[c].status # "401" \/ call[c].retry
    /\ userQ' = Settled({c}, IF call[c].status = "ok" THEN call[c].tok.user ELSE None)
    /\ dirty' = (dirty \/ userQ.waitsFor = c)
    /\ call' = [call EXCEPT ![c] = Idle]
    /\ UNCHANGED <<clicks, server, cookie, client, init, login, logout, auth, initQ,
                   route, view, history>>

\* A 401 while a refresh is out waits for it.  It is not marked as retried.
ReceiveQueued(c) ==
    /\ call[c].phase = "answered" /\ call[c].status = "401" /\ ~call[c].retry
    /\ isRefreshing
    /\ failedQueue' = Append(failedQueue, c)
    /\ call' = [call EXCEPT ![c].phase = "queued"]
    /\ UNCHANGED <<clicks, server, cookie, accessToken, defaultAuth, isRefreshing, init, login,
                   logout, auth, initQ, userQ, route, view, dirty, history>>

\* mutant: the flag is not read
ReceiveRefreshingAlways(c) ==
    /\ call[c].phase = "answered" /\ call[c].status = "401" /\ ~call[c].retry
    /\ isRefreshing' = TRUE
    /\ call' = [call EXCEPT ![c] = [phase |-> "refreshing", tok |-> cookie,
                                    status |-> "none", retry |-> TRUE]]
    /\ UNCHANGED <<clicks, server, cookie, accessToken, defaultAuth, failedQueue, init,
                   login, logout, auth, initQ, userQ, route, view, dirty, history>>

\* Otherwise it becomes the one that refreshes, with the cookie of now.
ReceiveRefreshing(c) ==
    /\ call[c].phase = "answered" /\ call[c].status = "401" /\ ~call[c].retry
    /\ ~isRefreshing
    /\ isRefreshing' = TRUE
    /\ call' = [call EXCEPT ![c] = [phase |-> "refreshing", tok |-> cookie,
                                    status |-> "none", retry |-> TRUE]]
    /\ UNCHANGED <<clicks, server, cookie, accessToken, defaultAuth, failedQueue, init, login,
                   logout, auth, initQ, userQ, route, view, dirty, history>>

Queued == {failedQueue[i] : i \in 1..Len(failedQueue)}

\* The refresh succeeded: the new token, then the queue, then the call itself.
\* Redux is not told.
RefreshSucceeds(c) ==
    /\ call[c].phase = "refreshed" /\ call[c].tok # None
    /\ accessToken' = call[c].tok /\ defaultAuth' = call[c].tok
    /\ failedQueue' = <<>> /\ isRefreshing' = FALSE
    /\ call' = [d \in Calls |-> IF d \in Queued \cup {c}
                                THEN Sent(call[c].tok, call[d].retry) ELSE call[d]]
    /\ tainted' = (tainted \/ ~auth.isAuthenticated)
    /\ UNCHANGED <<clicks, server, cookie, init, login, logout, auth, initQ, userQ,
                   route, view, dirty, signedOut>>

\* mutant: only the call itself learns that the refresh failed
RefreshFailsSilently(c) ==
    /\ call[c].phase = "refreshed" /\ call[c].tok = None
    /\ accessToken' = None
    /\ failedQueue' = <<>> /\ isRefreshing' = FALSE
    /\ call' = [call EXCEPT ![c] = Idle]
    /\ userQ' = Settled({c}, None)
    /\ dirty' = (dirty \/ userQ.waitsFor = c)
    /\ tainted' = (tainted \/ auth.isAuthenticated \/ userQ # NewUserQ)
    /\ UNCHANGED <<clicks, server, cookie, defaultAuth, init, login, logout, auth, initQ,
                   route, view, signedOut>>

\* It failed: the queue and the call are rejected and the token is dropped.
\* Redux is not told, and nothing renders unless a query was waiting.
RefreshFails(c) ==
    /\ call[c].phase = "refreshed" /\ call[c].tok = None
    /\ accessToken' = None
    /\ failedQueue' = <<>> /\ isRefreshing' = FALSE
    /\ call' = [d \in Calls |-> IF d \in Queued \cup {c} THEN Idle ELSE call[d]]
    /\ userQ' = Settled(Queued \cup {c}, None)
    /\ dirty' = (dirty \/ userQ.waitsFor \in Queued \cup {c})
    /\ tainted' = (tainted \/ auth.isAuthenticated \/ userQ # NewUserQ)
    /\ UNCHANGED <<clicks, server, cookie, defaultAuth, init, login, logout, auth, initQ,
                   route, view, signedOut>>
-----------------------------------------------------------------------------
(* The session hooks. *)

\* The query 'auth/init' settles.  If the cache was cleared meanwhile, its
\* function still has its effects, only the result is dropped.
InitReceived ==
    /\ init.phase = "answered"
    /\ accessToken' = init.tok
    /\ auth' = IF init.tok = None THEN SignedOutAuth ELSE Credentials(init.tok)
    /\ initQ' = IF initQ.status = "fetching"
                THEN [initQ EXCEPT !.status = IF init.tok = None THEN "error" ELSE "success"]
                ELSE initQ
    /\ init' = Idle /\ dirty' = TRUE
    /\ UNCHANGED <<clicks, server, cookie, defaultAuth, isRefreshing, failedQueue, call, login,
                   logout, userQ, route, view, history>>

\* LoginForm: the button is disabled while the mutation is pending.
CanLogin == ~dirty /\ view = "login" /\ login.phase = "idle"
SubmitLogin ==
    /\ Click
    /\ CanLogin
    /\ login' = Sent(AuthorizationHeader, FALSE)
    /\ UNCHANGED <<server, cookie, client, call, init, logout, auth, initQ, userQ,
                   route, view, dirty, history>>

\* onSuccess: both copies of the token, and the dashboard.  The cache is kept.
LoginSucceeds ==
    /\ login.phase = "answered" /\ login.tok # None
    /\ cookie' = login.tok
    /\ accessToken' = login.tok /\ auth' = Credentials(login.tok)
    /\ route' = "dashboard" /\ dirty' = TRUE
    /\ login' = Idle /\ signedOut' = "no" /\ tainted' = (tainted \/ RefreshOut)
    /\ UNCHANGED <<clicks, server, defaultAuth, isRefreshing, failedQueue, call, init, logout,
                   initQ, userQ, view>>

LoginFails ==
    /\ login.phase = "answered" /\ login.tok = None
    /\ login' = Idle
    /\ UNCHANGED <<clicks, server, cookie, client, call, init, logout, auth, initQ, userQ,
                   route, view, dirty, history>>

\* LogoutButton, shown by the layouts of the guarded pages.
CanLogout == ~dirty /\ view \in GuardedRoutes /\ logout.phase = "idle"
SubmitLogout ==
    /\ Click
    /\ CanLogout
    /\ logout' = Sent(AuthorizationHeader, FALSE)
    /\ UNCHANGED <<server, cookie, client, call, init, login, auth, initQ, userQ,
                   route, view, dirty, history>>

\* mutant: the cache is not cleared
LogoutSettlesKeepingCache ==
    /\ logout.phase = "answered"
    /\ cookie' = IF logout.status = "ok" THEN None ELSE cookie
    /\ accessToken' = None /\ auth' = SignedOutAuth
    /\ route' = "login" /\ dirty' = TRUE /\ logout' = Idle
    /\ signedOut' = IF logout.status = "ok" /\ logout.tok = accessToken /\ ~RefreshOut
                    THEN "confirmed" ELSE "asked"
    /\ tainted' = (tainted \/ signedOut' # "confirmed")
    /\ UNCHANGED <<clicks, server, defaultAuth, isRefreshing, failedQueue, call, init,
                   login, initQ, userQ, view>>

\* onSettled, whatever the server answered: tokens, Redux, every query, and
\* the login page.  Requests and refreshes in flight are not aborted.
LogoutSettles ==
    /\ logout.phase = "answered"
    /\ cookie' = IF logout.status = "ok" THEN None ELSE cookie
    /\ accessToken' = None /\ auth' = SignedOutAuth
    /\ initQ' = NewInitQ /\ userQ' = NewUserQ
    /\ route' = "login" /\ dirty' = TRUE /\ logout' = Idle
    /\ signedOut' = IF logout.status = "ok" /\ logout.tok = accessToken /\ ~RefreshOut
                    THEN "confirmed" ELSE "asked"
    /\ tainted' = (tainted \/ signedOut' # "confirmed")
    /\ UNCHANGED <<clicks, server, defaultAuth, isRefreshing, failedQueue, call, init, login, view>>

\* Registration answers with the account and leads to the login page.
CanRegister == ~dirty /\ view = "register"
Register ==
    /\ Click
    /\ CanRegister
    /\ route' = "login" /\ dirty' = TRUE
    /\ UNCHANGED <<server, cookie, client, call, init, login, logout, auth, initQ, userQ,
                   view, history>>

\* The sidebar, a link, the back button.
Navigate(r) ==
    /\ Click
    /\ ~dirty /\ r # route
    /\ route' = r /\ dirty' = TRUE
    /\ UNCHANGED <<server, cookie, client, call, init, login, logout, auth, initQ, userQ,
                   view, history>>

\* A page reload: all that lives in memory is gone, only the cookie stays.
Reload ==
    /\ Click
    /\ accessToken' = None /\ defaultAuth' = None
    /\ isRefreshing' = FALSE /\ failedQueue' = <<>>
    /\ call' = [c \in Calls |-> Idle]
    /\ init' = Idle /\ login' = Idle /\ logout' = Idle
    /\ auth' = SignedOutAuth /\ initQ' = NewInitQ /\ userQ' = NewUserQ
    /\ view' = "blank" /\ dirty' = TRUE
    /\ signedOut' = "no" /\ tainted' = FALSE
    /\ UNCHANGED <<server, cookie, route>>

\* Something invalidates the profile, which is fetched again behind its page.
RefetchUser(c) ==
    /\ Click
    /\ ~dirty /\ view \in GuardedRoutes /\ HasToken
    /\ userQ.data # None /\ userQ.waitsFor = None
    /\ call[c].phase = "idle"
    /\ call' = [call EXCEPT ![c] = Sent(AuthorizationHeader, FALSE)]
    /\ userQ' = [userQ EXCEPT !.waitsFor = c]
    /\ UNCHANGED <<server, cookie, client, init, login, logout, auth, initQ,
                   route, view, dirty, history>>
-----------------------------------------------------------------------------
(* Rendering: AuthInitializer, then what the router mounts inside it. *)

\* useInitAuth fetches when it becomes enabled, or its query is new, without data.
InitStarts ==
    /\ ~HasToken
    /\ initQ.status \in {"new", "error"}
    /\ initQ.status = "new" \/ ~initQ.enabled

RenderInit ==
    IF InitStarts
    THEN /\ init.phase = "idle"
         /\ init' = Sent(cookie, FALSE)
         /\ initQ' = [status |-> "fetching", enabled |-> TRUE]
    ELSE /\ initQ' = [initQ EXCEPT !.enabled = ~HasToken]
         /\ UNCHANGED init

IsAuthenticated == HasToken \/ initQ.status = "success"

\* useUser fetches with a token and no data; at a mount, after an error too.
Mounting == route \in GuardedRoutes /\ view \notin GuardedRoutes \cup {"checking"}
UserStarts ==
    /\ HasToken /\ userQ.waitsFor = None
    /\ IF userQ.error THEN Mounting ELSE userQ.data = None

RenderUser ==
    IF UserStarts
    THEN \E c \in Calls :
           /\ call[c].phase = "idle"
           /\ call' = [call EXCEPT ![c] = Sent(AuthorizationHeader, FALSE)]
           /\ userQ' = [data |-> userQ.data, error |-> userQ.data # None, waitsFor |-> c]
    ELSE UNCHANGED <<call, userQ>>

\* /dashboard sends an administrator to the admin pages.
RoleBasedDashboard == IF userQ'.data \in Superusers THEN "admin" ELSE "dashboard"

\* ProtectedRoute: where to, or what to show.
Guard ==
    IF auth.isAuthenticated /\ userQ'.data = None /\ userQ'.waitsFor # None
    THEN "checking"
    ELSE IF ~auth.isAuthenticated \/ userQ'.error \/ userQ'.data = None
    THEN "login"
    ELSE IF route = "admin" /\ userQ'.data \notin Superusers THEN "landing"
    ELSE IF route = "dashboard" THEN RoleBasedDashboard
    ELSE route

\* AuthInitializer: the loader, the redirect of a signed-in visitor, the outlet.
Outcome ==
    IF initQ'.status = "fetching" THEN "loader"
    ELSE IF IsAuthenticated /\ route \in PublicRoutes THEN "dashboard"
    ELSE IF route \in GuardedRoutes THEN Guard
    ELSE route

\* A redirect is another render; anything else is what the user sees.
Render ==
    /\ dirty
    /\ RenderInit /\ RenderUser
    /\ IF Outcome \in {"loader", "checking", route}
       THEN view' = Outcome /\ dirty' = FALSE /\ UNCHANGED route
       ELSE route' = Outcome /\ view' = "redirecting" /\ UNCHANGED dirty
    /\ UNCHANGED <<clicks, server, cookie, client, login, logout, auth, history>>
-----------------------------------------------------------------------------
ServerStep == AnswerInit \/ AnswerLogin \/ AnswerLogout
                \/ \E c \in Calls : AnswerCall(c) \/ AnswerRefresh(c)
CallStep(c) == ReceivePlain(c) \/ ReceiveQueued(c) \/ ReceiveRefreshing(c)
                 \/ RefreshSucceeds(c) \/ RefreshFails(c)
HookStep == InitReceived \/ LoginSucceeds \/ LoginFails \/ LogoutSettles
UserStep == SubmitLogin \/ SubmitLogout \/ Register \/ Reload
              \/ (\E r \in Pages : Navigate(r))
              \/ (\E c \in Calls : Send(c) \/ RefetchUser(c))

Next == AccessDies \/ RefreshDies \/ ServerStep \/ HookStep \/ UserStep \/ Render
          \/ \E c \in Calls : CallStep(c)

\* The browser runs the callbacks it owes and renders what is due, and every
\* request is answered or fails; nothing obliges the user.
Fairness ==
    /\ WF_vars(Render) /\ WF_vars(HookStep)
    /\ WF_vars(AnswerInit \/ AnswerLogin \/ AnswerLogout)
    /\ \A c \in Calls : /\ WF_vars(CallStep(c))
                       /\ WF_vars(AnswerCall(c) \/ AnswerRefresh(c))

Spec == Init /\ [][Next]_vars /\ Fairness
-----------------------------------------------------------------------------
Views == Routes \cup {"blank", "loader", "checking", "redirecting"}
Requests == [phase : {"idle", "sent", "answered", "queued", "refreshing", "refreshed"},
             tok : Tokens \cup {None}, status : {"none", "ok", "401", "failed"},
             retry : BOOLEAN]

\* Type correctness.
TypeOK ==
    /\ issued \in 0..MaxTokens
    /\ deadAccess \subseteq 1..MaxTokens /\ deadRefresh \subseteq 1..MaxTokens
    /\ {cookie, accessToken, defaultAuth} \subseteq Tokens \cup {None}
    /\ isRefreshing \in BOOLEAN /\ failedQueue \in Seq(Calls)
    /\ call \in [Calls -> Requests] /\ {init, login, logout} \subseteq Requests
    /\ auth \in [token : Tokens \cup {None}, isAuthenticated : BOOLEAN]
    /\ initQ \in [status : {"new", "fetching", "success", "error"}, enabled : BOOLEAN]
    /\ userQ \in [data : Users \cup {None}, error : BOOLEAN, waitsFor : Calls \cup {None}]
    /\ route \in Routes /\ view \in Views
    /\ clicks \in 0..MaxClicks /\ dirty \in BOOLEAN /\ signedOut \in {"no", "asked", "confirmed"} /\ tainted \in BOOLEAN

\* The interceptor's protocol (apiClient.ts:82-114): the flag is up exactly
\* while one call refreshes, and what waits in the queue, each call once, has
\* that refresh to wake it.  A call that refreshes is marked as retried.
RefreshProtocol ==
    /\ isRefreshing <=> Refreshers # {}
    /\ \A c, d \in Refreshers : c = d
    /\ \A c \in Refreshers : call[c].retry
    /\ \A c \in Calls : call[c].phase = "queued" <=> c \in Queued
    /\ \A i, j \in 1..Len(failedQueue) : failedQueue[i] = failedQueue[j] => i = j
    /\ failedQueue # <<>> => isRefreshing

\* As long as every session ended by a confirmed logout with no refresh out,
\* the two copies of the token agree on whether and who is signed in, and the
\* guarded page shows that account and no other (useAuth.ts:44-50,
\* useInitAuth.ts:42, ProtectedRoute.tsx:59-81).
SessionAgrees ==
    ~tainted =>
        /\ HasToken <=> auth.isAuthenticated
        /\ HasToken => accessToken.user = auth.token.user
        /\ (view \in GuardedRoutes /\ ~dirty) =>
               /\ HasToken /\ userQ.data = accessToken.user
               /\ view = "admin" => userQ.data \in Superusers

\* After a confirmed logout that no refresh crossed, nothing signs the visitor in
\* but a login: not the init query that runs again, not a late 401, and what
\* the default header still carries is a token the server refuses.
SignedOutStaysOut ==
    signedOut = "confirmed" =>
        /\ ~HasToken /\ ~auth.isAuthenticated
        /\ userQ = NewUserQ
        /\ (defaultAuth # None /\ ~tainted) => defaultAuth.n \in deadAccess

\* Every request settles, those that waited for a refresh included.
CallsSettle == \A c \in Calls : (call[c].phase # "idle") ~> (call[c].phase = "idle")

\* Redirects between the guard and AuthInitializer come to rest, but for a
\* session that is tainted, above all one whose refresh was refused (its guards
\* may redirect for ever), and for a profile whose refetch failed.
StaleProfile == userQ.error /\ userQ.data # None
RedirectsEnd == (view = "redirecting") ~> (view # "redirecting" \/ tainted \/ StaleProfile)

\* Whatever is refused, refreshed or lost, no request is held for ever by the
\* queue; and as long as no session was refused its refresh or ended with
\* traces, no visitor is held by the two guards either
\* (apiClient.ts:82-114, AuthInitializer.tsx, ProtectedRoute.tsx).
ComesToRest == CallsSettle /\ RedirectsEnd

\* useInitAuth.ts:12-13 and ProtectedRoute.tsx:69-70 say that a session that
\* cannot be refreshed ends at the login page.
RefusedSessionReachesLogin ==
    (view = "redirecting" /\ ~HasToken) ~> (view # "redirecting" \/ HasToken)

\* useAuth.ts:45 says a logout always clears the state, even if the API call
\* fails: whoever logged out has to log in to be signed in again.
LogoutEndsTheSession == signedOut # "no" => ~HasToken
=============================================================================
