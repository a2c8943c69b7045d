---------------------------- MODULE Notifications ----------------------------
(***************************************************************************)
(* The notifications of one user: notify_user dispatches an event over     *)
(* several channels while browser tabs open and lose their WebSockets.     *)
(*                                                                         *)
(* Everything runs on one event loop, so a step here is what happens       *)
(* between two awaits.  The manager keeps the tabs in a Python set and     *)
(* iterates over it across awaits: the iterator raises RuntimeError when   *)
(* it finds another size than it started with, and when the size is the    *)
(* same after changes it may skip a tab or meet one again.                 *)
(***************************************************************************)
EXTENDS FiniteSets, Integers, Sequences

CONSTANTS
    Tabs,             \* WebSocket connections of the user; a reconnection is another one
    Dispatches,       \* calls of notify_user
    WithEmail,        \* the dispatches that carry an email_payload
    Toggleable,       \* the entry of the event type in TOGGLEABLE_EVENT_CHANNELS
    MaxAttempts,      \* max_attempts of NotificationService
    None              \* no tab, no channel, no result

ASSUME ConstantsAssumption ==
    /\ WithEmail \subseteq Dispatches
    /\ Toggleable \subseteq {"push", "email"}
    /\ MaxAttempts \in Nat \ {0}
    /\ IsFiniteSet(Tabs) /\ None \notin Tabs

Suppressible == {"push", "email"}    \* _PREFERENCE_CHANNELS
NotificationChannel == {"in_app"} \cup Suppressible
NotificationLogStatus == {"sent", "failed", "skipped"}

ChannelsOf(d) ==
    IF d \in WithEmail THEN <<"in_app", "push", "email">> ELSE <<"in_app", "push">>

VARIABLES
    tab,         \* "away" before it connects, "open", "dead" (the peer is gone), "closed"
    connections, \* the tabs in the manager's set
    enabled,     \* the user's preferences for this event type
    feed,        \* the dispatches whose row is in notifications
    pushed,      \* the tabs each dispatch reached over the WebSocket
    called,      \* how often each dispatch called each provider
    log,         \* rows of notification_logs, by dispatch, oldest first
    task         \* how far each dispatch is

vars == <<tab, connections, enabled, feed, pushed, called, log, task>>

(* "ready" for its next channel; its notification "stored"; "iterating"    *)
(* over the tabs, "writing" to one of them; "trying" a provider; "logging" *)
(* its result; "done", or "dropped" by the except of notify_user.          *)
Task == [step : {"idle", "ready", "stored", "iterating", "writing", "trying", "logging",
                 "done", "dropped"},
         next : 1..3,                           \* position in ChannelsOf(d)
         result : NotificationLogStatus \cup {None},
         todo : SUBSET Tabs,            \* the tabs the iterator has still to meet
         size : 0..Cardinality(Tabs),   \* of the set when the iteration began
         emptied : BOOLEAN,             \* the set was, and the manager forgot it
         current : Tabs \cup {None},
         stale : SUBSET Tabs]

NoTask == [step |-> "idle", next |-> 1, result |-> None, todo |-> {}, size |-> 0,
           emptied |-> FALSE, current |-> None, stale |-> {}]

At(d, step) == task[d].step = step
Channel(d) == ChannelsOf(d)[task[d].next]
Iterating(d) == At(d, "iterating") \/ At(d, "writing")

(* The set becomes ts, under the iterators of the tasks.  An empty set is  *)
(* forgotten, and a task that iterates over it keeps the forgotten object. *)
ChangeTo(ts, tasks) ==
    /\ connections' = ts
    /\ \E ahead \in [{d \in Dispatches : tasks[d].step \in {"iterating", "writing"}} -> SUBSET ts] :
         task' = [d \in Dispatches |->
                    IF d \in DOMAIN ahead /\ ts # connections
                      THEN [tasks[d] EXCEPT !.todo = ahead[d], !.emptied = @ \/ ts = {}]
                      ELSE tasks[d]]

-----------------------------------------------------------------------------
(* WS /notifications/ws: connect, then wait for the peer to go.            *)

Connect(t) ==
    /\ tab[t] = "away"
    /\ tab' = [tab EXCEPT ![t] = "open"]
    /\ ChangeTo(connections \cup {t}, task)
    /\ UNCHANGED <<enabled, feed, pushed, called, log>>

PeerGoes(t) ==
    /\ tab[t] = "open"
    /\ tab' = [tab EXCEPT ![t] = "dead"]
    /\ UNCHANGED <<connections, enabled, feed, pushed, called, log, task>>

(* receive_text raises WebSocketDisconnect and the handler disconnects.    *)
HandlerEnds(t) ==
    /\ tab[t] = "dead"
    /\ tab' = [tab EXCEPT ![t] = "closed"]
    /\ ChangeTo(connections \ {t}, task)
    /\ UNCHANGED <<enabled, feed, pushed, called, log>>

(* PUT /notifications/preferences, for a channel the catalogue lists.      *)
SetEnabled(c) ==
    /\ \E value \in BOOLEAN : enabled' = [enabled EXCEPT ![c] = value]
    /\ UNCHANGED <<tab, connections, feed, pushed, called, log, task>>

-----------------------------------------------------------------------------
(* notify_user and NotificationService.send                                *)

Move(d, step) == task' = [task EXCEPT ![d].step = step]

Settle(d, result) == task' = [task EXCEPT ![d].step = "logging", ![d].result = result]

Dispatch(d) ==
    /\ At(d, "idle")
    /\ Move(d, "ready")
    /\ UNCHANGED <<tab, connections, enabled, feed, pushed, called, log>>

(* _send_in_app: the row is committed first.                               *)
Store(d) ==
    /\ At(d, "ready") /\ Channel(d) = "in_app"
    /\ feed' = feed \cup {d}
    /\ Move(d, "stored")
    /\ UNCHANGED <<tab, connections, enabled, pushed, called, log>>

(* send_to_user: nobody connected, or an iterator over the set.            *)
BeginIteration(d) ==
    /\ At(d, "stored")
    /\ IF connections = {}
         THEN Settle(d, "sent")
         ELSE task' = [task EXCEPT ![d].step = "iterating", ![d].todo = connections,
                                   ![d].size = Cardinality(connections)]
    /\ UNCHANGED <<tab, connections, enabled, feed, pushed, called, log>>

SizeChanged(d) == task[d].emptied \/ Cardinality(connections) # task[d].size

(* RuntimeError leaves send_to_user, send and the try of notify_user.      *)
IterationFails(d) ==
    /\ At(d, "iterating") /\ SizeChanged(d)
    /\ task' = [task EXCEPT ![d] = [NoTask EXCEPT !.step = "dropped"]]
    /\ UNCHANGED <<tab, connections, enabled, feed, pushed, called, log>>

NextTab(d) ==
    /\ At(d, "iterating") /\ ~SizeChanged(d)
    /\ \E t \in task[d].todo :
         task' = [task EXCEPT ![d].step = "writing", ![d].current = t, ![d].todo = @ \ {t}]
    /\ UNCHANGED <<tab, connections, enabled, feed, pushed, called, log>>

Reaches(t) == tab[t] = "open"

(* send_json, or a tab to drop when the iteration ends.                    *)
WriteUntilItWorks(d) ==                                                              \* mutant
    LET t == task[d].current
    IN  /\ At(d, "writing") /\ Reaches(t)
        /\ task' = [task EXCEPT ![d].step = "iterating", ![d].current = None]
        /\ pushed' = [pushed EXCEPT ![d] = @ \cup {t}]
        /\ UNCHANGED <<tab, connections, enabled, feed, called, log>>

Write(d) ==
    LET t == task[d].current
        failed == IF Reaches(t) THEN {} ELSE {t}
    IN  /\ At(d, "writing")
        /\ task' = [task EXCEPT ![d].step = "iterating", ![d].current = None,
                                ![d].stale = @ \cup failed]
        /\ pushed' = [pushed EXCEPT ![d] = @ \cup ({t} \ failed)]
        /\ UNCHANGED <<tab, connections, enabled, feed, called, log>>

EndIterationDroppingAll(d) ==                                                        \* mutant
    /\ At(d, "iterating") /\ ~SizeChanged(d) /\ task[d].todo = {}
    /\ connections' = IF task[d].stale = {} THEN connections ELSE {}
    /\ task' = [task EXCEPT ![d] = [NoTask EXCEPT !.step = "logging", !.result = "sent"]]
    /\ UNCHANGED <<tab, enabled, feed, pushed, called, log>>

EndIteration(d) ==
    /\ At(d, "iterating") /\ ~SizeChanged(d) /\ task[d].todo = {}
    /\ ChangeTo(connections \ task[d].stale,
                [task EXCEPT ![d] = [NoTask EXCEPT !.step = "logging", !.result = "sent"]])
    /\ UNCHANGED <<tab, enabled, feed, pushed, called, log>>

(* _send_one for the other channels.                                       *)
AskPreferenceMislabelled(d) ==                                                       \* mutant
    /\ At(d, "ready") /\ Channel(d) \in Suppressible
    /\ IF enabled[Channel(d)] THEN Move(d, "trying") ELSE Settle(d, "failed")
    /\ UNCHANGED <<tab, connections, enabled, feed, pushed, called, log>>

AskPreference(d) ==
    /\ At(d, "ready") /\ Channel(d) \in Suppressible
    /\ IF enabled[Channel(d)] THEN Move(d, "trying") ELSE Settle(d, "skipped")
    /\ UNCHANGED <<tab, connections, enabled, feed, pushed, called, log>>

(* _send_with_retry: one call of the provider, which may fail or raise.    *)
Attempt(d) ==
    LET c == Channel(d)
    IN  /\ At(d, "trying")
        /\ called' = [called EXCEPT ![d][c] = @ + 1]
        /\ \/ Settle(d, "sent")
           \/ IF called'[d][c] = MaxAttempts THEN Settle(d, "failed") ELSE UNCHANGED task
        /\ UNCHANGED <<tab, connections, enabled, feed, pushed, log>>

WriteLog(d) ==
    LET last == task[d].next = Len(ChannelsOf(d))
    IN  /\ At(d, "logging")
        /\ log' = [log EXCEPT ![d] = Append(@, <<Channel(d), task[d].result>>)]
        /\ task' = [task EXCEPT ![d].result = None,
                                ![d].next = IF last THEN @ ELSE @ + 1,
                                ![d].step = IF last THEN "done" ELSE "ready"]
        /\ UNCHANGED <<tab, connections, enabled, feed, pushed, called>>

-----------------------------------------------------------------------------
Init ==
    /\ tab = [t \in Tabs |-> "away"]
    /\ connections = {}
    /\ enabled = [c \in Suppressible |-> TRUE]
    /\ feed = {}
    /\ pushed = [d \in Dispatches |-> {}]
    /\ called = [d \in Dispatches |-> [c \in Suppressible |-> 0]]
    /\ log = [d \in Dispatches |-> <<>>]
    /\ task = [d \in Dispatches |-> NoTask]

Advance(d) ==
    \/ Store(d)
    \/ BeginIteration(d) \/ NextTab(d) \/ Write(d) \/ EndIteration(d) \/ IterationFails(d)
    \/ AskPreference(d) \/ Attempt(d)
    \/ WriteLog(d)

Next ==
    \/ \E t \in Tabs : Connect(t) \/ PeerGoes(t) \/ HandlerEnds(t)
    \/ \E c \in Toggleable : SetEnabled(c)
    \/ \E d \in Dispatches : Dispatch(d) \/ Advance(d)

Spec == Init /\ [][Next]_vars

(* The event loop runs every task that can go on; calls of providers and   *)
(* of send_json come back, with a result or a timeout.                     *)
FairSpec == Spec /\ \A d \in Dispatches : WF_vars(Advance(d))

-----------------------------------------------------------------------------
(* Properties.                                                             *)

(* The manager, the rows and the tasks keep their shape.                   *)
TypeOK ==
    /\ tab \in [Tabs -> {"away", "open", "dead", "closed"}]
    /\ connections \subseteq Tabs
    /\ enabled \in [Suppressible -> BOOLEAN]
    /\ feed \subseteq Dispatches
    /\ pushed \in [Dispatches -> SUBSET Tabs]
    /\ called \in [Dispatches -> [Suppressible -> 0..MaxAttempts]]
    /\ \A d \in Dispatches : \A i \in DOMAIN log[d] :
          log[d][i] \in NotificationChannel \X NotificationLogStatus
    /\ task \in [Dispatches -> Task]

(* Every open tab is in the manager's set, whatever failing sends and      *)
(* other tabs' handlers remove from it meanwhile, and a tab whose handler  *)
(* ended is not (ConnectionManager).                                       *)
OpenTabsAreConnected ==
    \A t \in Tabs : /\ tab[t] = "open" => t \in connections
                    /\ t \in connections => tab[t] \in {"open", "dead"}

(* The audit trail has at most one row per channel and tells the truth:    *)
(* skipped channels were never tried, failed ones MaxAttempts times, sent  *)
(* ones at least once (NotificationService, _log).                         *)
Agrees(d, channel, status) ==
    IF channel = "in_app"
      THEN status = "sent" /\ d \in feed
      ELSE called[d][channel] \in CASE status = "skipped" -> {0}
                                    [] status = "failed"  -> {MaxAttempts}
                                    [] OTHER              -> 1..MaxAttempts

LogIsTrue ==
    \A d \in Dispatches : \A i \in DOMAIN log[d] :
        log[d][i][1] = ChannelsOf(d)[i] /\ Agrees(d, log[d][i][1], log[d][i][2])

(* A tab hears of a notification only when a refetch of the feed finds it  *)
(* (_send_in_app; useNotificationSocket refetches on every push).          *)
RowBeforePush == \A d \in Dispatches : pushed[d] # {} => d \in feed

(* What a dispatch tells, tabs and audit trail alike, is already so.       *)
DispatchTellsTruth == LogIsTrue /\ RowBeforePush

(* A notification never keeps its caller waiting for ever, dead tabs and   *)
(* failing providers or not (notify_user).                                 *)
Ended(d) == At(d, "done") \/ At(d, "dropped")

EveryDispatchEnds == \A d \in Dispatches : ~At(d, "idle") ~> Ended(d)

(* "Audit trail of every notification dispatch attempt, written by         *)
(* NotificationService regardless of which channel/provider handled it"    *)
(* (models/notification_log.py).                                           *)
EveryChannelIsLogged ==
    \A d \in Dispatches : Ended(d) => Len(log[d]) = Len(ChannelsOf(d))
=============================================================================
