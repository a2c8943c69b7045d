# Fixi: TLA+ models and proofs

Fixi is a marketplace for home services: customers publish jobs, workers apply,
one is chosen, does the work, both sides mark it done, the worker owes a flat
commission, and the two review each other.  The backend is a FastAPI application
over PostgreSQL and Redis (`src/src/app`), with an arq worker for its cron jobs;
the frontend is a React application (`src/frontend/src`).

This directory holds TLA+ models of the parts where several requests, crons,
connections and cached answers meet, the TLC configurations that check them on
small instances, and TLAPS proofs of what holds for every instance.

    tlc -workers 2 -config MCJobLifecycle_race.cfg MCJobLifecycle
    tlapm JobLifecycleProofs.tla

Contents: 1. the system · 2. how the code is modelled · 3. the modules ·
4. the runs · 5. the proofs · 6. disagreements with the code's own words ·
7. not modelled · 8. plan

---------------------------------------------------------------------------

## 1. The system

### 1.1 How the parts interact

    pages --hooks--> query cache --axios--> router (api/v1) --> service / crud --commit--> PostgreSQL
      ^                  ^       interceptor      |                                          ^
      |   invalidations  |       (refresh)        +--> notify_user                           | shared rows
      +---- Redux <------+                                | providers                        |
                         +<--- WebSocket --- ConnectionManager     FCM, Mailjet, SMS   arq worker (crons)

* Handlers never call each other.  They meet in rows: the job, its
  applications, the billing row, the worker's profile.
* One HTTP request is one SQLAlchemy session.  It is not one transaction:
  FastCRUD's `create` and `update` commit, and so do the services, so a handler is
  a chain of awaits with commits among them.
* PostgreSQL runs READ COMMITTED.  No model has a version column and no SELECT
  takes a lock (`with_for_update` is never used): a guard on a loaded row says what was
  true, and the UPDATE writes the changed columns `WHERE id = ...`.
* The arq worker is another process over the same database.
* `notify_user` is awaited after the business commit; what it raises it
  swallows.  The WebSocket manager is memory of the one web process.
* In the browser a page shows what the query cache holds.  The only thing the
  server pushes is a notification; everything else is fetched at a mount, after
  `staleTime`, or because a mutation of the same tab invalidated the query.

### 1.2 Components

"Status" is modelled (M), partly (P) or not modelled (-).

| component | state | operations | what is hard | what makes it correct | status |
|---|---|---|---|---|---|
| Job lifecycle and applications (`job_lifecycle_service`, `crud_jobs`, `crud_job_applications`) | `jobs.status`, two completion marks, `is_deleted`; per application `status`, `decline_reason`, `accepted_at`, `worker_confirmed` | apply, decide, confirm, withdraw, start, complete, patch, delete | every guard is on a stale row; confirm writes many rows; completion and commission are two commits | no completion without both marks; one accepted worker from ASSIGNED on; no second handshake; a commission for each completed job, owed by the one who did it | P |
| Job timeout check (`job_timeout_service`) | no-show counters | two scans with a commit each, hourly | races the answer it gave up waiting for; must do all that the handler it stands in for does | counts only silent parties; nobody is stuck | M |
| Worker commission billing (`worker_billing_service`) | `worker_billing` row | create (on completion), mark paid, lists, CSV | the payment is committed before the row that records it | paid means paid once | M |
| Payments (`services/payments`) | `payments` rows, append-only | record_payment through a provider | retry after a crash | the ledger never exceeds what was owed | P |
| Invoices (`invoice_service`) | object in the bucket, `invoice_key` | produce at the first download | file before key; the key saved while an admin marks the row paid | a key always opens a file | P |
| Reviews and rating (`crud_reviews`, `rating_service`) | `reviews`, `average_rating`, `review_count` | submit, aggregate | an aggregate and an UPDATE of another row in one transaction | one review per job and author; the snapshot counts stored reviews, and is stale only if its transaction was overtaken | P |
| Reports and moderation (`review_moderation_service`) | `review_reports`, `is_flagged`, `admin_action_log` | report, approve, remove | an approval deletes whatever reports it finds; two admins on one queue | log and effect land together | M |
| Notification dispatch (`services/notifications`) | `notifications`, `notification_logs`, the manager's sets of sockets | notify_user over in-app, push, email | a set iterated over across awaits; retries; preferences | row before push; the log tells the truth; the caller is never held | P |
| Delivery providers | none (outside systems) | send | fail, raise, time out | bounded attempts | P |
| Device tokens and preferences | `device_tokens`, `notification_preferences` | register, prune, toggle, bounce webhook | unique keys under concurrent first writes; pruning against re-registration | a live token is not pruned | P |
| Phone OTP (`services/otp.py`) | Redis keys with expiry: hash, attempts, cooldown | send, verify | send against verify on the same keys | a code works once and only while valid | - |
| OTP alert, delivery monitoring | cooldown key | cron | the alert is sent before its cooldown is set | one alert per window | - |
| Authentication (`auth.py`, `core/security.py`) | `token_blacklist`, `token_version`, `is_suspended` | login, refresh, logout, verify | logout is two commits; refresh reads, then issues | no token outlives a logout or suspension | P |
| Users and profiles (`api/v1/users.py`) | one row each | own updates | an update without coordinates writes NULL | label and point belong together | P |
| Admin users (`admin_user_service`) | `is_suspended`, `admin_action_log` | suspend, reactivate | two commits; two admins | every suspension is explained | M |
| Worker verification | `is_verified`, `cni_document_key`, log | upload, approve, reject, and the escape hatch `PATCH /worker-profile/{id}/verify` | an upload during a rejection; a rejection during an approval | a verification stays; the log explains it unless it came through the escape hatch, which names no admin and logs nothing | M |
| Worker trades, profile, portfolio | rows, limits of five and ten | assign, remove, save, upload, delete | count, then insert | the page shows what is stored | M, P |
| Rate limiting | Redis counters | INCR, EXPIRE | - | - | - |
| Client: HTTP client and session (`apiClient.ts`, `useAuth`, `useInitAuth`, the guards) | access token, `isRefreshing`, `failedQueue`, Redux, two queries, the route | request, 401, refresh, login, logout, redirect | one refresh for many requests; logout in between; two guards with different sources | every queued request answered; nobody signed in after a logout; redirects end unless the session was refused its refresh (section 6) | M |
| Client: job pages (`features/job`) | cached job, applications, own application; dialogs | every button of the lifecycle, edit, delete | two queries decide on one button; overlapping optimistic decisions | offered is what the server accepts; the list ends as the server's | P |
| Client: notification bell | sockets and timers per session, two queries, mutations | connect, push, mark, sign in and out | pushes crossing fetches; timers outliving a session | feed catches up; nothing left to the next account | M |
| Client: search pages and endless lists | panel filters, URL, timer, cache by key | type, push, load more, leave, come back | three copies of the filters; offsets | the panel decides; rows come once | P |
| Client: worker dashboard, account tab | profile, gallery, forms with copies, switches, language | toggle, save, assign, upload, type, search a place, change language | optimistic updates, cancelled fetches, components gone when answers come | at rest what is shown is what is stored | P |
| Client: admin pages (`features/admin`) | lists, details, logs per tab | decide, move, filter | row buttons that know one call; stale queues | an admin sees what he did; nothing collected twice | P |

Also in the repository, and without a protocol of their own: trade categories (read
only), the cache decorator (no route uses it), analytics (SELECTs), files and
images (I/O), configuration and wiring, the SQLAdmin panel (registers no view),
migrations and seeds, push registration, the review and landing features and the
UI kit of the frontend.  PROJECT.json lists all of them with the reason.

---------------------------------------------------------------------------

## 2. How the code is modelled

**Steps.** A handler is a process in a slot `r` of `Requests`; `req[r]` holds how
far it is and what it has loaded, nothing else.  One action is what runs from one
await whose result matters to the next: *load* (read a row, test the guard),
*check* (read a second thing), *flush* (an UPDATE is sent and its rows are locked),
*commit*.  A guard that fails at the first load leaves no trace, so such a request
is never started; one that fails later returns the slot to `Idle`.

**READ COMMITTED.** Reads see the rows as committed at that moment; a commit
applies the handler's changes to the rows as they are *then*, because the ORM writes
only changed columns.  Where the code flushes before it commits
(`confirm_application`, through the SELECT of the losing applications; the review
handlers), the rows it holds are locked: others that write them wait
(`JobLocked`, `ApplicationLocked`, `ProfileLocked`, `Writing`).

**`Concurrent`.** With FALSE a request or a timeout check starts only when nothing
else is in flight.  The runs with FALSE show what each handler does on its own;
those with TRUE show what is left of it when handlers overlap.  The difference
between the two is the subject of section 6.

**`Aborts`.** A request or a check may die between any two steps (a lost worker
process, a dropped database connection).  What it committed stays.

**`PatchStatuses`.** `PATCH /jobs/{id}` accepts a `status` from the client
(`schemas/job.py:61`).  The pages of the frontend never send one, so the runs and
theorems about the handshake take it as `{}`; `MCJobLifecycle_patched.cfg` shows
what the API allows.

**Time.** A timestamp is `"null"`, `"recent"` (within `JOB_LIFECYCLE_TIMEOUT_HOURS`)
or `"old"`; `TimePasses` ages all of them at once.  No guard of the code tells more
apart.

**The event loop.** `Notifications` runs in one Python process: one action is what
happens between two awaits, and the `set` that is iterated over across awaits is
modelled with CPython's behaviour: a changed size raises at the next step of the
iterator, a change that restores the size may skip or repeat elements
(`ChangeTo` picks any set of tabs still to come).

**The browser.** JavaScript runs to completion: one action is one callback, one
click or one render, and a request is three of them (sent, answered by the
server, received).  A request may be lost on its way there or back, so a call that
failed may have committed.  The server's handlers are one step each in the client
modules, except in `AdminDesk` and for the assignment of trades, where two commits
or a count and an insert matter: `JobLifecycle`, `Reviews` and `WorkerBilling`
take them apart.

**Components that come and go.** A mutation's call outlives the component that sent
it.  The callbacks of its hook run in any case, those handed to `mutate()` only while
the component is mounted, and a component mounted again has new hooks that know
nothing of the earlier call.  Calls therefore carry `mounted`, and `isPending` is
about mounted calls.

**The query cache.** `QueryCache` states the rules of TanStack Query as these hooks
use it: one fetch per query; data outlives its observers; an invalidation restarts
the fetch of a query on the screen, except its first, which it joins, and marks any
other as stale, which a success before the next mount takes back; `setQueryData` is
not heard by a fetch under way; `cancelQueries` drops one.  Two behaviours come of
it that the properties must name: an invalidation that could start no fetch
(`missed`), and an optimistic write that an older fetch overwrites.

**History.** Variables and fields that only properties read (`crossed`, `clean`,
`missed`, `told`, `behind`, `after`, `tainted`, `mixed`, `overtaken`, `outdated`) are
commented as such; no guard tests them.

---------------------------------------------------------------------------

## 3. The modules

### `JobLifecycle` (job, applications, timeout check, creation of the commission)

| model | code |
|---|---|
| `job`, `apps[w]` | one row of `jobs`; the row of `job_applications` of worker `w`, `"absent"` before it exists (`unique_job_application` allows one) |
| `billing` | the worker of the job's `worker_billing` row |
| `noShow` | `no_show_count` of the worker and customer profiles |
| `cron` | the arq job: applications due, then the silent party |
| `Apply*` | `POST /jobs/{id}/apply`, `create_job_application` |
| `Update*` | `PATCH .../applications/{id}`, `update_job_application`: job, application, `exists(ACCEPTED)`, commit |
| `Confirm*` | `confirm_application`, `_reject_other_applications` |
| `Withdraw*`, `Start*` | `withdraw_application`, `start_job` |
| `CompleteLoad` .. `CompleteBill` | `mark_job_complete`; `CompleteBill` is the second transaction, `crud_worker_billing.create` |
| `Patch*`, `Delete*` | `update_job`, `delete_job` |
| `Scan*`, `Expire*` | `expire_unconfirmed_assignments`, `expire_unconfirmed_completions` |

`AcceptedWorkers` is `SELECT ... LIMIT 1` without ORDER BY: with two accepted
applications either may come back.

### `JobHandshake`, `JobLifecycleRefinement`

`JobHandshake` is what the lifecycle promises a user, without rows, requests or
clocks: join, choose, reconsider, leave, confirm, start, mark, charge.
`JobLifecycleRefinement` maps the rows to it (`stage` is the status, `chosen` the
accepted applicant, `marked` the set timestamps) and states `ImplementsHandshake`.

### `WorkerBilling`

One billing row, the ledger `payments`, the `bucket` and requests that mark paid
(`MarkPaidLoad`, `RecordPayment`, `MarkPaid`) or download an invoice
(`InvoiceLoad`, `InvoiceUpload`, `InvoiceSaveKey`).  `req[r].row` is the row as
loaded: the amount is computed from it, the invoice printed from it.  The bucket keeps
the status printed on each file, which is all the properties ask of a PDF.

### `Reviews`

Reviews are `<<job, side>>`; `rated[w]` is the *set of reviews* the profile's
average and count were computed from: two snapshots differ exactly when they count
other reviews.  Each handler is one transaction: `Submit*`, `ReportLoad/Commit`,
`Approve*`, `Remove*`; `CountReviews` and `UpdateProfile` are
`recalculate_worker_rating`, shared by submission and removal.  `overtaken` holds the
requests that have aggregated when another commits about the same worker,
`outdated` the workers whose snapshot such a request has written since.

### `Notifications`

The tabs of one user, the manager's set, the preferences of one event type, and
for each dispatch its row, its pushes, its provider calls and its log.  `Dispatch`
.. `WriteLog` is `notify_user` -> `send` -> `_send_one` -> `_send_in_app` /
`_send_with_retry` -> `_log`; `BeginIteration`, `NextTab`, `Write`, `EndIteration`,
`IterationFails` are `send_to_user`.

### `Session`

The access token of `apiClient` and the copy in its default header, `isRefreshing`
and `failedQueue`, Redux' `auth`, the queries `['auth','init']` and `['user']`, the
route and what the last render shows.  `Receive*`, `Refresh*` are the response
interceptor; `Submit*`, `*Succeeds`, `*Fails`, `LogoutSettles` are `useLogin`,
`useLogout`, `useRegister`; `InitReceived` is `useInitAuth`; `Render` is
`AuthInitializer` and `ProtectedRoute`, which redirect from different sources.
Tokens are pairs numbered as issued; expiry, blacklist and suspension are the sets of
those the server refuses.  `AnswerLogout` asks for a token and a cookie and not that the
session is live, as `/auth/logout` does: a suspended account logs out as well.

### `JobPages`

The customer's and the workers' pages of one job, over a server whose handlers run one
at a time.  `jobOf`, `mine`, `list`, `myJobs` are the cached queries; `Can*` are the
conditions of the buttons, `May*` the guards of the handlers and `Commit*` what they
write (`Accepts` is all the guards together); `Decision*` is
`useUpdateJobApplication` with its optimistic write and rollback.  Users who are
not at a browser call the API directly.  The rows again implement
`JobHandshake`.

### `Bell`

`link[s]` is the effect of `useNotificationSocket` for session `s` with its socket,
its timer and the pushes on their way; `query` holds badge and dropdown; `mark` the
mutations, of which several may be in flight for one notification (a second click on a
row waits for nothing), while "mark all" waits for the one this bell has pending
(`markingAll`).  `behind` records the queries that miss a change nothing will announce: a
push lost with a dropped socket, a mark that failed after it committed.

### `SearchPages`

One machine for the four endless lists: `pending` (panel) -> `timer` (300 ms) ->
`applied` (URL, or the admin's local state) -> key -> `cache`.  A control (`Control`)
offers one criterion at a time and its choice is merged into the filters (`Choose`),
as `updateFilters` does; the button of the panel clears what the controls offer.
The server counts the rows and then selects them; the model lets both see the
same rows.  `Offset` is
`getNextPageParam`; a refetch asks for all pages again, one after the other.
`Matching` numbers the rows that match a filter by how many come before each.

### `QueryCache`, `Dashboard`, `ProfileTab`, `AccountTab`, `WorkerDashboard`

`QueryCache` is the rules of section 2.  `Dashboard` adds the page of tabs and the
calls.  `ProfileTab` is the availability switch (`useAvailabilityToggle`),
`ProfileForm` with the picker's copy of the trades, `CniVerificationField` and
`PortfolioManager`, and the endpoints of `worker_profile.py`, assignment in two
steps.  `AccountTab` is the account form with `LocationSearchField`, the
preference switches and the language.  `WorkerDashboard` composes the two: what a
step of one leaves on the screen decides what is mounted of the other.

### `AdminDesk`

Rows with two bits, `settled` and `pending`, for accounts, workers, reviews and
commissions; `log` holds the calls that `admin_action_log` or the ledger
name.  `SuspendUser` .. `MarkPaid` are the buttons, `Load`, `Commit`, `CommitRest` the
handlers (`admin_user_service`, `worker_verification_service`,
`review_moderation_service`, `worker_billing_service`), `Touched` what each hook
invalidates, `Requeue` the uploads and reports of others.  `VerifyDirectly` is
`PATCH /worker-profile/{id}/verify`, the direct way past the queue: no page sends it, no
query hears of it, and because it passes no `admin_id` nothing is logged
(`Unlogged`).

### MC modules, proof modules

`MC<module>` names the small sets of a run.  The theorems are in eight modules:
`CompletedJobProofs` about what follows a completed job (`WorkerBilling`, `Reviews`),
`BrowserProofs` about `SearchPages` and `Session`, and `<module>Proofs` about
`JobLifecycle` (with the refinement), `Notifications`, `JobPages`, `Bell`,
`WorkerDashboard` and `AdminDesk`.  Where two modules are proved about in one, the
specification of one is prefixed: `BillingSpec`, `SearchSpec`.
Definitions marked
`\* mutant` are variants of a definition with a plausible bug; nothing uses them
but the mutation runs listed in PROJECT.json, one per checked property, which
show that the property notices.

---------------------------------------------------------------------------

## 4. The runs

| run | question | distinct states |
|---|---|---|
| `job_race` | what survives when two requests, the timeout check and crashes interleave freely | 1,480,891 |
| `job_serial` | do the handlers, one at a time, implement the handshake and make progress | 19,904 |
| `billing_race` | what the order of the writes guarantees by itself, with two requests that die anywhere | 1,093 |
| `reviews_race` | what one transaction per handler guarantees under READ COMMITTED | 72,397 |
| `notifications_race` | order, audit trail and termination while tabs come and go | 221,118 |
| `session_race` | refreshes, logins, logouts and redirects of two accounts in one browser | 177,670 |
| `pages_race` | do the job pages offer what the server accepts, and do optimistic decisions end in the truth | 1,341,955 |
| `bell_race` | sockets, timers, pushes and marks through two sessions | 506,897 |
| `search_lists` | three copies of the filters and pages cut by offset | 603,152 |
| `dashboard_tabs` | overlapping updates and fetches on a page whose components come and go | 1,570,126 |
| `admin_desk` | two admins, stale queues and handlers of two commits | 981,474 |
| `job_uncharged` | one sentence of the code's documentation, and a counterexample to it (section 6) | |

Every state machine has a `TypeOK` (`BillingTypeOK`, `SearchTypeOK`).  It is among the
checked properties of `job_race`, and proved of every state machine (section 5).

### 4.1 What the passing runs show

`job_race` (2 workers, 2 requests, `Concurrent`, `Aborts`, no client-chosen status):

* `ReasonIffRejected`: five handlers write `status` and `decline_reason` from what
  they loaded earlier, and the pair stays consistent.
* `CompletionNeedsBothMarks`: nobody completes a job alone, the timeout included.
* `LeavesOpenByHandshake`: a job that is no longer OPEN was confirmed by a worker the
  customer had accepted, even if the acceptance was withdrawn meanwhile.
* `StaleFactsHold`: what a handler read and still acts upon is true when it acts.
* `NeverReopens`: a title edit that was loaded while the job was OPEN and commits
  after the assignment leaves the status alone.

`job_serial` (2 workers, 1 request at a time, crashes between commits):
`AtMostOneAccepted`, `HandshakeComplete`, `BothMarksComplete`, `NoShowIsSilent` are
what the races break and single requests keep; `ImplementsHandshake` says each step
is a step of `JobHandshake` or none; `NobodyIsStuck` is what the timeout check is for:
a job marked by one side completes, an offer nobody answers ends.

`billing_race` (2 requests, 3 payments, 3 files): `PaidHasItsPayment`;
`InvoicesTellTruth`, that a key always opens a file and no stored invoice says paid
before a payment was recorded; `PaidForGood` (saving a key does not write back the
row it was loaded with).

`reviews_race` (two reviews of one worker, 1 reporter, 2 requests, `Aborts`):
`CountsStoredReviews` (a rolled-back submission is never counted),
`RemovalIsLogged`, `NoSecondReview`; `StaleOnlyIfOvertaken`: a worker's rating is that of
his visible reviews, unless the transaction that wrote it was overtaken, that is unless
another about the same worker committed between its aggregate and its own commit;
rollbacks, reports and approvals never make it wrong, and the next transaction that is not
overtaken mends it.  And `EveryRequestEnds`: a submission holds its key and wants the
profile, a removal holds its review and wants the same profile, and no cycle comes of it.

`notifications_race` (2 tabs, 2 dispatches, push preference toggled, 2 attempts):
`OpenTabsAreConnected`; `DispatchTellsTruth`, that no push precedes its row and a log
row says what was tried and became of it; `EveryDispatchEnds`.

`session_race` (two accounts, one an administrator; two calls in flight):
`RefreshProtocol`, one refresh at a time and everything queued behind it;
`SessionAgrees`, that Redux, the client and the guarded page mean the same account
unless a session ended uncleanly; `SignedOutStaysOut`; `ComesToRest`, that every
request settles, always, and that redirects end as long as no session was refused its
refresh or ended with traces (`tainted`) and no refetch of the profile failed.  A refused
session is the one the two guards send back and forth for ever
(`MCSession_refused`, section 6): the qualification is not a formality.

`pages_race` (two workers and the customer, one of them at a browser):
`OffersMatchTheServer`, that with data that is up to date the buttons are exactly
what the server accepts, and that a refused application corrects its page;
`DecisionsEndInTruth`; `ImplementsHandshake`, the server driven by these pages.

`bell_race`: `NothingOutlivesTheSession` (one socket or one timer per session, no row
of another account), `BellCatchesUp` (at rest badge and dropdown are the server's
rows), `SocketComesBackWhileTokenLives`.

`search_lists`: `ListIsWhatWasAsked` (the key is what the panel shows once the debounce
is over; pages cut from the same rows join to a prefix of them, and "load more" is offered
exactly while rows are missing) and `FiltersTakeEffect`, that the last choice reaches the
key unless the page is left.

`dashboard_tabs`: `ProfileTellsTruth` (cache and picker, at rest, unless requests for
the same part of the profile overlapped), `QueriesCatchUp` (portfolio and preferences,
however many changes overlapped), `AccountTellsTruth` (form, language, and a point
that is never another label's).

`admin_desk`: `DeskReadsItsWrites` (whatever an admin was told on a page is done shows in
everything his tab shows from then on), `BooksTellTruth` (log and ledger explain what
is so, a worker verified through the endpoint beside the pages excepted; what they say
was verified, removed or paid is so and stays so; a commission is collected once by an
admin who stays and marks one record at a time).

Several properties are qualified, because without the qualification they do not hold:
`~crossed`, `~mixed`, `~missed`, `behind`, `tainted` say when, and section 6 what
happens otherwise.

### 4.2 Bounds, and why they are enough

| bound | value | why |
|---|---|---|
| `Workers` | 2 | a winner and a loser; all conflicts are between an applicant and the others |
| `Requests` | 2 (job, billing, reviews) | with the timeout check a third process; each property relates two writers |
| `MaxNoShow` | 0 or 1 | the counters saturate and no guard reads them; 1 where `NoShowIsSilent` looks at them |
| `PaymentIds`, `Keys` | 3 | one more than the requests at once, so an aborted or repeated one leaves a row behind |
| `AmountOwed` | 5 | the amounts are 0 or all of it |
| `Reviews` | 2 | both rate one worker, so both want one profile row |
| `Reporters` | 1 | one who reports before an approval, or during it |
| `Tabs`, `Dispatches` | 2 | the smallest set that can change size and be restored under an iterator; two dispatches share it |
| `MaxAttempts` | 2 | a first try and a retry; the code's value is 3 |
| `WithEmail` | none, or the first dispatch | push and email run the same steps; email is added where the missing channels count |
| `Start` (session) | no account remembered | a user logs in, and a reload remembers him; the theorems start from every `Init` |
| `MaxTokens`, `MaxClicks` (session) | 2, 3 | a second pair comes from a refresh or another login; log in, log out and one more step, reloads and links counted as clicks |
| `Calls` (session) | 2 | one refreshes, one waits |
| `Browsers`, `MaxClicks` (pages) | one of three users, 4 | each user's cache is his own; two decisions at once take a decision, leaving, coming back and the other decision; the customer's last click is one of the panel's (`LastClick`) |
| `MaxSessions`, `Notes`, `MaxFaults`, `MaxActs` (bell) | 2, 2, 1, 4 | one session after another, one row old and one pushed, one failure between; who signs in first is called `ann` |
| `MaxSame` (bell) | 2 | a row clicked again while its mark is in flight: the two marks meet each other's answers and fetches; a third meets no more |
| `Rows`, `PageSize`, `MaxActs` (search) | 3, 2, 4 | a full page and one that is not; change, leave, come back, load more |
| `Options`, `Control` (search) | 2, each its own control | a choice must keep the other control's, and a later one must not lose it; alternatives of one control and any other set are in the theorems |
| `MaxChanges`, `MaxFaults` (search) | 1, 1, one of the two (`MCSpec`) | one row appears or goes between two pages, or one request fails; `ListsAreWhatWasAsked` bounds neither and has both at once |
| `MaxCalls`, `MaxFaults`, `MaxMoves` (dashboard) | 2, 1, 2 | two calls overlap or follow; typing, picking, another tab, `staleTime` |
| `MaxTrades`, `MaxImages` (dashboard) | 2, 2 | five and ten in the code; reached with two calls |
| `MaxCalls`, `MaxFaults`, `MaxMoves` (desk) | 2, 1, 1 | two decisions of one or of two admins; a move while one is under way |
| `Admins` and subjects (desk) | 2 in one department, 1 of each kind | departments share no row and no query; the one who moves goes from the users to an account, from a queue to the users, or to the other filter, the other stays |

Reviews written by the worker rate nobody, so they take the short path through the
same actions; TLC's review runs use customers' reviews, the proofs cover both.

`dashboard_tabs` starts in one state of each kind (`Start` in
`MCWorkerDashboard`): another name, language or text is a renaming.  No
behaviour there changes both the language and the worker's profile (`OneOfTheTwo`):
the two share no row and no query.  In `admin_desk`
the admin who stays has his page loaded at the start.  `search_lists` starts with a stored
location or none (an update may lose its coordinates later), and a list opens empty, by a
link with a parameter nobody knows or by one with coordinates.

`job_race`, `billing_race` and `pages_race` use symmetry (workers, requests,
payments, keys are interchangeable, and the properties are safety properties, as is
`ImplementsHandshake` without fairness); the runs with liveness use none.

Deadlock is checked for `job_race`, `job_serial`, `reviews_race` and
`notifications_race`.  The others may stop: a paid commission whose invoice exists has no
operation left, and in the client modules the user does nothing more once the
bounds are used up.

### 4.3 Fairness, and why the code justifies it

* Jobs: `WF(Advance(r))`, a request that was received is served.  `SF` on the four
  steps of the timeout check: the cron starts every hour however many requests
  come, and does not die in every run (arq starts the next one whatever became of
  the last).  `WF(TimePasses)`.  Nobody is ever obliged to send a request: both
  liveness properties are about people who stay silent.
* The offer's half of `NobodyIsStuck` is qualified: a customer who keeps accepting
  again renews `accepted_at`, so it says "unless requests keep coming".
* The liveness of jobs is checked with one request at a time.  With races it fails
  for the reason `MCJobLifecycle_lost_mark.cfg` shows.
* Reviews: `SF(Advance(r))`.  PostgreSQL queues the waiters of a row lock, so one
  that is passed over is not passed over for ever.
* Notifications: `WF(Advance(d))`.  The event loop runs every ready task, and calls
  of providers and sockets return or time out.
* Session: `WF` on the render that is due, on the callbacks of settled requests and on
  the server's answers: React renders after a state change, the browser runs its
  callbacks, and axios requests are answered or fail.  The client sets no timeout, so a server
  that accepts a connection and never answers would hold the queue; that is excluded
  by the fairness of `AnswerRefresh`, and it is an assumption about the
  server, not about the client.
* Bell: `WF` on the handshake, on `onclose` and on the reconnect timer of each session.
* Search: `WF(Push)`, the debounce timer fires.
* `JobPages`, `WorkerDashboard`, `AdminDesk`: none; their properties are about
  states, "at rest" in most of them.

---------------------------------------------------------------------------

## 5. The proofs

Everything below holds for any sets of workers, requests, users, tabs and so on, any
bound and any amount, and, but for 5.2 and the last theorem of 5.4, with `Concurrent` and
`Aborts` either way.  The theorems start from `Init`, not from the `Start` of a run.
The assumptions are the modules' own: `None` is not a value of a column, keys of
different tables differ, the bounds are numbers.  Three say a little more.
`Bell`: a user's notifications are finitely many (`TypeOK` counts the pushes on
their way, and each announces a row).  `Notifications`: the tabs are finitely many
(the set being iterated is compared with its size).  `SearchPages`: the rows are
finitely many numbers, the order the server sorts by.  Where a theorem assumes more than
that, it is a hypothesis of its statement: `PatchStatuses = {}` and
`Concurrent = FALSE` (5.1, 5.2, 5.4) and `"jobs" \notin Lists` (5.6), each of them what a
counterexample of section 6 is about.

| module | theorems | of properties that runs check |
|---|---|---|
| `JobLifecycleProofs` | 15 | 11 |
| `CompletedJobProofs` | 10 | 7 |
| `NotificationsProofs` | 3 | 2 |
| `BrowserProofs` | 6 | 4 |
| `JobPagesProofs` | 4 | 3 |
| `BellProofs` | 3 | 2 |
| `WorkerDashboardProofs` | 5 | 3 |
| `AdminDeskProofs` | 3 | 2 |

Together they state every property of the passing runs but the liveness properties
(5.11).


### 5.1 `JobLifecycleProofs`: requests that interleave

| theorem | says | assumes |
|---|---|---|
| `TypeCorrect` | `TypeOK` | - |
| `ReasonsAgree` | `ReasonIffRejected` | - |
| `HandshakeInvariant` | the inductive invariant | `PatchStatuses = {}` |
| `OpenUntilHandshake` | `LeavesOpenByHandshake` | same |
| `NoUnilateralCompletion` | `CompletionNeedsBothMarks` | same |
| `NoEarlyCommission` | a commission needs both marks (`CommissionNeedsBothMarks`) | same |
| `CommissionHasItsWorker` | who is charged had been accepted, and somebody had confirmed (`ChargesAnAcceptedWorker`) | same |
| `ReadsStayTrue` | `StaleFactsHold` | same |
| `StaysClosed` | `NeverReopens` | same |

`ReasonIffRejected` is inductive given the types: every writer goes through
`Declined` or `Decided`, which set both columns.  The others are not: that a commit is
right depends on what its handler read.  `HandshakeInv` adds those facts
(`StaleFactsHold`).  The argument has two halves.  *Facts last*:
`NothingIsTakenBack` says no step clears a mark, an acceptance's timestamp or a
confirmation, so what a handler established stays true whatever commits meanwhile
(`FactsLast`).  *Facts suffice*: the lemmas named `...Writers` say which steps write the
status, the billing row, a request or the check, and each of them has the fact it
needs when it writes (`OwnFacts`).  This is why the code is right without locks
where it is: its guards test columns that only ever go from NULL to set.  Where a
guard tests something that can be taken back (`status = accepted`), section 6
begins.

`CommissionHasItsWorker` is as much as can be said of the commission when requests
overlap.  It is a transaction of its own and looks the worker up again, `LIMIT 1` and
without an order; between the two commits, decisions and withdrawals that were
loaded while the job was OPEN may rewrite the applications.  Whoever it finds is
accepted, and an acceptance leaves its timestamp.  That it is the worker who
confirmed does not follow: with two accepted applications it may be the other.

### 5.2 `JobLifecycleProofs`: requests that run alone

What needs the handlers to run one at a time, as `MayBegin` with `Concurrent = FALSE`
says, and no client-chosen status (`PatchStatuses = {}`).  Both hypotheses are what
the counterexamples of section 6 are about: without either, the properties fail.

| theorem | says |
|---|---|
| `SerialInvariant` | the inductive invariant |
| `OneAccepted` | `AtMostOneAccepted` |
| `ConfirmedAlone` | `HandshakeComplete` |
| `SecondMarkCompletes` | `BothMarksComplete` |
| `NoShowsAreEarned` | `NoShowIsSilent`, an action property |
| `HandlersImplementHandshake` | `ImplementsHandshake`, the refinement of `JobHandshake` |

The three row properties are not inductive: between a handler's check and its commit
the invariant must say that what it checked is still so.  `SerialInv` is `RowsAgree`
with `Alone` (one request, or one timeout check, is in flight), `StillTrue(r)` (what
the handler of `r` has loaded is what the rows say: the job is OPEN for the five
handlers that ask it, nobody else is accepted when an acceptance is about to be
written, the other mark is as it was seen) and `CheckStillTrue`.  `Alone` keeps
`StillTrue` of everyone who does not move, who is idle.  The refinement takes it one
action at a time: the commit of each handler is one step of `JobHandshake`, because
its guard is true of the rows at that moment, and every other step maps to a stutter.

### 5.3 `CompletedJobProofs`: the commission

`BillingTypeCorrect`, `PaidMeansPaid`, `InvoicesAreTrue`, `PaidStays`.  The invariant adds that
the payment or file a request has made is still there when it names it
(`MadeIsKept`: both are append-only), that a row loaded to be paid carries no
amount, and that a pending row has none (`DueIsUnpaid`); without the last the
amount computed from the loaded row could be a part of what is owed.
`InvoicesAreTrue` needs one more fact, `PrintedIsPaid`: a row loaded as paid, and every
file printed from such a row, has its payment in the ledger.  It is kept because
payments stay (`PaymentsStay`), a file says what it said (`PrintedStays`), and what a
new file says is what its request loaded (`PrintedAtFirst`).

### 5.4 `CompletedJobProofs`: the reviews

`TypeCorrect`, `SnapshotsAreStored`, `RemovalsAreLogged`, `ReviewedOnce`,
`RatingStaleOnlyIfOvertaken`.  The invariant adds, for each request in flight, that a
submission that has inserted finds its review absent until it commits, that the
review being removed exists, and that an aggregate counts stored reviews or the
handler's own (`RequestInv`); and that no two requests have inserted the same
review (`OneInserter`), which is what the wait of `SubmitInsert` on
`unique_job_reviewer` gives.

`RatingStaleOnlyIfOvertaken` is the other side of `MCReviews_lost`.  That run shows that
the rating of a worker can go stale when two transactions overlap; the theorem says
which overlap it takes, and that nothing else does it, with any number of requests and
handlers that die at any step.  `FreshInv` adds to `StaleOnlyIfOvertaken` what a request
has counted: unless it was overtaken, that is what its worker will have once it
commits (`Fresh`).  A commit overtakes every other request that has counted for the
same worker, so those it leaves alone count for other workers (`CommitKeepsFresh`); every
other step changes no review, and forgets nothing of its own request but what a
rollback throws away.

`RatingIsCurrentAlone` follows: with `Concurrent = FALSE` nobody is ever overtaken
(`EveryStepAlone`), so `RatingIsCurrent` always holds.

### 5.5 `NotificationsProofs`

* `OpenTabsStayConnected` (`OpenTabsAreConnected`): the set of connections loses only
  tabs that are closed or dead.  The manager disconnects, after iterating, those
  it failed to write to; `TabsMet` says that such a tab has been open and will not be
  again, whatever connected meanwhile.
* `TrailTellsTruth` (`DispatchTellsTruth`): rows of the log are never changed, so each
  must be true when written and stay true.  `TrailOf(d)` says how far
  the log of a dispatch is when its handler is at a given step, that the channels ahead of
  it have not been called, and that the result it is about to log agrees with the
  calls it made.
* `TypeCorrect`: `TypeOK`.

### 5.6 `BrowserProofs`: the lists

* `SearchTypeCorrect`: `SearchTypeOK`.
* `ListsAreWhatWasAsked` (`ListIsWhatWasAsked`), for every list but the jobs list.  The
  two halves need different things.  `PanelInv`: an armed timer carries the panel's
  filters, and once it is off the URL says the same; a list on the screen has rows, an
  error or a fetch.  `ChainInv`: the pages of an entry, and those a fetch has so far, are
  `Chained`: if they were all cut from one list, they put its beginning together, and the
  last page's `more` says whether that is all; and the answer under way is the page that
  comes next.  `ChainGrows` is the step: the offset is the number of rows so far, so the
  page that starts there continues the prefix.

What the pages amount to is `FlattenSeq` of their rows, which is defined by recursion, so
`ChainGrows` needs what it computes (`FlattenSeqAppend`).  The library's induction
theorems take an operator for a parameter, which the provers cannot instantiate.
`Climb` gets round it: a *set* that has 0 and with each number the next has them all,
because `<` is well founded on the naturals (`NatLessThanWellFounded`, `WFMin`).  With it
`OneBuilds` and `FlattenSeqBuilt` say that the recursion has one solution, and
`EveryRankIsTaken` that `Matching` is a sequence of all the rows that match.

### 5.7 `BrowserProofs`: the session

* `TypeCorrect`: `TypeOK`, with what an answer means (`AnswersAreTrue`: a call was served
  for a token; a confirmed logout has blacklisted its own).
* `OneRefreshAtATime` (`RefreshProtocol`): inductive with the types.
* `OneAccountEverywhere` (`SessionAgrees`) and `LogoutIsFinal`
  (`SignedOutStaysOut`).  The properties relate the two copies of the token
  and the page; that they stay related depends on everything that is on its way.
  `Clean` collects it: a refresh and the init query answer for the cookie, and the
  cookie is the account's (`CookieAgrees`); restore, login and logout never overlap
  (`OneSessionStep`); the profile query waits for a request with the account's token
  (`ProfileIsAsked`); a token left in the default header is one the server refuses
  (`HeaderIsDead`).  `CleanSession` says so of every state that is not `tainted`;
  `NothingCanSignIn` of every state after a confirmed logout.

The proof found an error in the model that TLC's bounds hid.  With four tokens or
more a second late 401 can refresh while a logout that was sent with the older
token is being answered; the logout blacklists the older token, and the default
header keeps a live one.  The ghost variable `tainted`, which marks sessions that ended
with a refresh out, did not notice: `LogoutSettles` looked only at refreshes
still out.  Now every logout that does not end as confirmed sets it, one whose token
was replaced on the way included.  (The code has no part in this: it is about which
logouts the two properties speak of.  What it does in the others is
in section 6.)

### 5.8 `JobPagesProofs`

`NextIsRowStep` first reduces every step to what it does to the rows: one of the
changes a handler makes (`RowStep`), whoever sent the request and however late its
answer is.  From it follows what the rows never take back (`RowsLast`).

* `PagesDriveTheHandshake` (`ImplementsHandshake`).  `RowsInv`: one applicant is taken
  at a time, and none is confirmed while the job is open; then `Chosen` names
  that one and each `RowStep` is a step of `JobHandshake` or none.
* `OffersMatch` (`OffersMatchTheServer`).  A page that is up to date has the rows, but the
  apply dialog has also a memory of its own (`hasApplied`), and a page that was
  turned away relies on a fetch still to come.  `HeardInv` says that what they
  were told is so, the answers on their way included, and stays so.
* `OptimismEndsInTruth` (`DecisionsEndInTruth`).  While a decision is under way the list
  shows what nobody has decided yet.  `Uncrossed`: there is one such decision,
  the list is the one it keeps for its rollback with that one entry changed, and the
  kept list is true (`ListTrue`).  `CleanFetch`: an answer that met no decision is a
  true list.  Both need that the panel acts on a list that is there (`ListIsThere`):
  `onError` restores nothing when there was none.
* `TypeCorrect`: `TypeOK`, with `Fits`: each user sends the mutations his pages offer.

`UndefinedAssumption` says that what is undefined is no status and no list of them.

### 5.9 `BellProofs`

* `NothingIsLeft` (`NothingOutlivesTheSession`).  `SessionInv` adds that the effect
  of a socket is cleaned up when its session ends and not before (`Stopped`), and that
  every fetch is the signed-in user's, the logout having cancelled the others
  (`OwnFetches`).
* `BellIsUpToDate` (`BellCatchesUp`).  `NothingIsMissed`: if no push is owed or on its
  way and no mark is answered, a query that is not in `behind` shows the user's rows, or
  has a fetch under way that will, or is not on the page and will be fetched when it
  is.
* `TypeCorrect`: `TypeOK`; that the pushes on their way are at most the notifications
  needs a count of what has been announced (`Counted`).

### 5.10 `WorkerDashboardProofs`, `AdminDeskProofs`

The dashboard's invariant, `IInv`, has the types, which form is mounted (`ShownInv`) and
one part for each tab; `AccountTabKept` and `ProfileTabKept` say that a step of one tab
leaves the other's part alone, so each action is taken with its own tab only.

* `ProfileIsTrue` (`ProfileTellsTruth`).  An answer writes the cached row, a failure of the
  switch restores the whole profile, and a refetch replaces both, so what the cache
  has is right only if no two of them meet.  `CacheInv` says of the states in which none have
  (`~crossed`): one call for each part of the profile (`OneEach`), an answer on its way
  is what the server has, as is the cache when none is (`RowKnown`, `TradesKnown`), and
  the copy the switch would restore is still true (`Undoes`).  `FetchInv`: a fetch
  that will be believed overlaps no call.  `PickerInv`: a form that missed nothing
  hears of every list of trades.
* `ListsCatchUp` (`QueriesCatchUp`).  `GalleryInv` and `PreferencesInv`: unless an answer is
  still to be heard, whose arrival invalidates the list, data that are fresh are the
  server's, and what is on the screen is or has a fetch that will be.
* `AccountIsTrue` (`AccountTellsTruth`).  `LanguageInv`: one update is under way, and
  the account, the user and the language on the screen differ by what it has done so far;
  `FormInv`: a clean form's base is the user's, and what its update did not send is
  too; `PointInv`: a point is that of its label in the form and in every update sent.
* `TypeCorrect`: `TypeOK`.  (`Inductive` is `Spec => []IInv`.)

The admin's desk:

* `TypeCorrect`: `TypeOK`.
* `BooksAreTrue` (`BooksTellTruth`).  A row and its log are written by two commits, and
  two admins decide on one row, so neither half is inductive.  `RowsExplained` follows
  the calls: what is settled has its record or a handler between its commits
  (`SettledIsExplained`, `ReactivationIsExplained`), a payment is in the ledger before
  its row is marked (`LedgerFirst`), and what a settling call of another kind has done
  is never undone (`DecisionsStay`; only accounts are reactivated).  A worker verified
through `PATCH /worker-profile/{id}/verify` has no record, and the theorem does not say
that he has: `VerifiedBeside` names him.  (The invariant says of his verification too that
no rejection takes it back: `DecisionsStay`.)
  `CollectsOnce` rests on `ButtonWaits`: of two marks of one record by one admin with no
  other record between, the second was sent when the first was done, and comes to
  nothing.
* `AdminsReadTheirWrites` (`DeskReadsItsWrites`).  `CacheKnows` says of each
  query which decisions its admin was told of (`Told`) and that fresh data and an
  answer on its way know them (`Informed`); data that do not are marked stale, and
  are not left on the screen.  The lemma `TouchesAll` says that each hook
  invalidates every query that shows the subject of its decision, which is the list
  of `invalidateQueries` in each hook.

`DeskAssumption` says that accounts, workers, reviews and commissions are keys of four
tables, `ViewsAssumption` that no account is named like a page.

### 5.11 What stays with TLC

Liveness under fairness and anything about ENABLED (`NobodyIsStuck`,
`EveryRequestEnds`, `EveryDispatchEnds`, `ComesToRest`,
`SocketComesBackWhileTokenLives`, `FiltersTakeEffect`): out of the prover's reach.
And, being about one behaviour, the counterexamples.

---------------------------------------------------------------------------

## 6. Disagreements with the code's own words

`job_uncharged` is among the runs of PROJECT.json; each of the others has its cfg
here too, and TLC prints the counterexample:
`tlc -config MCSession_logout.cfg MCSession`.

| cfg | property | the repository says | what happens |
|---|---|---|---|
| `MCJobLifecycle_uncharged` | `CompletedJobIsCharged` | "Exactly one row per job ... created automatically when that job completes" (`models/worker_billing.py:28`) | a completion by timeout creates no commission |
| `MCJobLifecycle_no_worker` | `JobHasItsWorker` | "there's always an accepted worker by this point" (`job_lifecycle_service.py:194`) | a rejection loaded while the job was OPEN commits after confirm and start; nobody can complete the job |
| `MCJobLifecycle_lost_mark` | `BothMarksComplete` | "status flips to COMPLETED once both are set" (`models/job.py:65`) | both sides mark at once, each blind to the other; the job stays IN_PROGRESS, the timeout looks only for one mark |
| `MCJobLifecycle_patched` | `CompletionNeedsBothMarks` | "neither party can force completion unilaterally" (`models/job.py:65`) | `JobUpdate` has a `status` field that `PATCH /jobs/{id}` writes |
| `MCWorkerBilling_twice` | `CollectedAtMostOwed` | "test_pays_only_the_outstanding_balance" (the unit tests of `worker_billing_service`) | two admins at once: the ledger holds the commission twice |
| `MCReviews_lost` | `RatingIsCurrent` | removal "immediately recalculates" the rating, "so both changes land atomically together" | the aggregate is read before the profile row is locked: one of two concurrent writers is lost |
| `MCNotifications_unlogged` | `EveryChannelIsLogged` | "Audit trail of every notification dispatch attempt" (`models/notification_log.py:27`) | a tab that opens during a write makes the iterator raise; no log row, no other channel |
| `MCSession_refused` | `RefusedSessionReachesLogin` | a session that cannot be refreshed ends at the login page (`useInitAuth.ts:12`, `ProtectedRoute.tsx:69`) | a restored session that is refused later is redirected between the two guards for ever |
| `MCSession_logout` | `LogoutEndsTheSession` | "always clears" the state, even if the call fails (`useAuth.ts:45`) | a logout the server did not get leaves the cookie; the cleared cache runs the init query, which signs the visitor in again |
| `MCJobPages_reverted` | `ConfirmedDecisionStays` | the correct data just received is not to be overwritten (`useUpdateJobApplication.ts:41`) | a fetch of the list sent before the decision answers after it |
| `MCBell_reconnect` | `SocketComesBack` | "reconnects automatically" (`useNotificationSocket.ts:19`) | the socket reconnects with the token of the sign-in and is refused once that has expired |
| `MCSearchPages_repeats` | `LoadMoreAppendsNewRows` | "appends new jobs on loadMore" (`useGetJobs.test.tsx:120`) | `jobApi` sends `offset` and `limit`, `GET /jobs` takes `page` and `page_size`: every page is the first |
| `MCWorkerDashboard_wiped` | `LabelHasItsPoint` | label and coordinates go together (`AccountTab.tsx:45`, `userSchema.ts:45`) | an update that sends no coordinates writes NULL over the point (`crud_users.update`) |

Seen while modelling, without a run of their own.

On the server:

* An application inserted between a confirmation's SELECT of the losers and its
  commit stays pending on an assigned job, where update and withdraw both refuse it
  (`crud_job_applications.py:52`).
* A payment whose billing update is lost in a crash is recorded again by the next
  click (`worker_billing_service.py:53`): the second way to break `CollectedAtMostOwed`.
* An invoice produced before the payment says "pending" for good
  (`invoice_service.py:73`).
* Approving a review that another admin has just removed logs both and leaves it
  hidden (`review_moderation_service.py:63`).
* Two admins can suspend one account at once: two suspensions in a row in the log.  A
  crash between the commits leaves a suspension or approval without a log row.
* An approval does not look at `cni_document_key`: sent from a stale queue it verifies a
  worker whose document was rejected.  A rejection clears a document uploaded meanwhile.
* `PATCH /worker-profile/{id}/verify` verifies a worker and leaves no log row
  (`worker_profile.py:443` passes no `admin_id`, `worker_verification_service.py:89` logs
  only if there is one).  It is meant so: "kept as a direct escape hatch", and
  `test_no_audit_log_written_without_an_admin_id`
  (`tests/worker_verification/unit_tests/test_worker_verification_service.py:146-156`)
  asserts it.  So the log alone does not explain who is verified.
* An approval of a review deletes every report its DELETE finds
  (`review_moderation_service.py:67`): one that came in after the admin loaded the queue
  goes with those he saw, and nobody will see it.
* Two assignments at once exceed five trades.  A document is accepted from a worker an
  admin has verified meanwhile.  `GET /jobs` has no ORDER BY.

In the browser:

* Session: a refresh that crosses a logout leaves a live token in the default header; a
  login keeps the cached profile of the account before; a background refetch of the profile
  that keeps failing redirects between dashboard and login; the stored location survives a
  logout.
* Job pages: two overlapping decisions that both fail leave an acceptance nobody
  made on the screen; a refetch wipes what was typed into the edit form; the list offers
  a second acceptance that is refused; `router.tsx:84` navigates to a literal `:id`.
* Bell: a push that joins a first fetch is not fetched again; a reconnect invalidates
  nothing; a logout never unregisters the device.
* Search: a failed "load more" hides all rows of the worker search and the admin's users,
  without a retry; moving only the lower end of the hourly slider sets 500 as the upper.
* Dashboard: `ProfileForm` resets after a failed update too (`ProfileForm.tsx:86`), and what
  is typed during a save is lost; the availability rollback restores the whole profile; a
  failed background refetch hides the dashboard with its unsaved edits; a saved account
  opens without coordinates, so its form is invalid until the place is picked again;
  picking a language and the old one again quickly ends in the first pick.
* Admin: the row buttons know only the hook's last call, so after another row was
  clicked the first is enabled while its call is in flight (one admin can pay twice);
  approve and reject of one worker can both be in flight; an open suspend dialog changes
  its mode when the status flips under it; a refused decision fetches nothing.

---------------------------------------------------------------------------

## 7. Not modelled, and why

* **Inside the modelled parts.**  Columns no guard reads (title, budget, location of a job),
  CSV; creation of jobs and its limit of ten; `refund` and `get_status` of payments (no
  caller); the Chargily provider (raises); PDF layout; the wording of messages and reasons;
  which notification each handler sends (`notify_user` runs after the business commit
  and swallows what it raises, so it changes none of the rows of the other modules).
* **Review eligibility** is taken as given in `Reviews`: its jobs are completed and
  `Doer` names their workers.
* **In the browser.**  Password, deactivation, avatar; pickers no page renders
  (`TradesPicker`, `SkillLevelSelect`, `LocationPicker`); push registration (a service
  worker and Firebase, outside the repository); the job creation form, review dialogs and
  landing pages (one mutation or one query each); the UI kit; charts and analytics.
* **Everything with status "-" in 1.2** has no model yet (section 8) or no protocol.

Hazards that no property covers, beyond the one in PROJECT.json:

| where | what |
|---|---|
| `services/otp.py:83` | two sends find no cooldown key; both messages go out, the first code is void |
| `services/otp.py:140` | a verification compares the hash it read, and its DELETE removes the code stored in between |
| `services/notification_monitoring.py:114` | a crash between the alert and its cooldown repeats the alert |
| `api/v1/auth.py:48` | two registrations of one email; the loser meets the unique constraint unhandled |
| `api/v1/auth.py:134` | a refresh loaded before a logout or suspension issues a token after it |
| `crud/crud_workers_trades.py:229` | the limit of trades is counted before the insert; `ProfileTab` has the two steps, and no property says five |
| `api/v1/worker_profile.py:281` | the limit of ten images is counted seconds before the insert |
| `api/v1/worker_profile.py:284` | a failed insert leaves an object without a row |
| `crud/crud_jobs.py:41` | the limit of ten active jobs is counted before the insert |
| `crud/crud_jobs.py:89` | an edit without coordinates sets the location to NULL |
| `crud/crud_jobs.py:102` | a deleted job keeps its applications, and handlers that ignore `is_deleted` go on; nothing says what should happen |
| `crud/crud_device_tokens.py:22` | two tabs register one token at once |
| `services/notifications/providers.py:178` | a token refused by FCM is pruned after another user registered it |
| `crud/crud_notification_preferences.py:60` | two first toggles of a preference; one fails on the unique key |

---------------------------------------------------------------------------

## 8. Plan

Done: all modules of section 3 and the proofs of section 5.  Next:

| what | models | properties |
|---|---|---|
| `Otp` | keys with expiry, send, verify, attempts, cooldown, the alert cron | a code verifies at most once and within its attempts |
| `AuthSessions` | login, refresh, logout in two commits, blacklist, `token_version`, suspension | a token issued before a logout or suspension does not verify after it |
| `DeviceTokens` | registration, pruning, preferences | a live token is not pruned |
| compositions | `JobLifecycle` with `WorkerBilling` and `Reviews` over one job; several jobs of one customer | eligibility; the limit of ten |

Proofs to come: those of the modules above.
