------------------------- MODULE NotificationsProofs -------------------------
(***************************************************************************)
(* Theorems about Notifications, for any number of tabs, dispatches and    *)
(* attempts.                                                               *)
(***************************************************************************)
EXTENDS Notifications, FiniteSetTheorems, SequenceTheorems, TLAPS

USE ConstantsAssumption

-----------------------------------------------------------------------------
(* The invariants.                                                         *)

Rows == NotificationChannel \X NotificationLogStatus

Types ==
    /\ TypeOK
    /\ log \in [Dispatches -> Seq(Rows)]

(* The tabs an iteration meets have been open, those it failed to write    *)
(* to will not be open again.                                              *)
TabsMet ==
    \A d \in Dispatches :
        /\ \A t \in task[d].todo : tab[t] # "away"
        /\ At(d, "writing") => task[d].current \in Tabs /\ tab[task[d].current] # "away"
        /\ \A t \in task[d].stale : tab[t] \in {"dead", "closed"}

(* How far the audit trail is, and what is known of the channel at hand.   *)
Called(d, i) == IF i = 1 THEN 0 ELSE called[d][ChannelsOf(d)[i]]
Before == {"idle", "ready", "stored", "iterating", "writing", "trying", "logging"}
TrailOf(d) ==
    /\ task[d].next \in 1..Len(ChannelsOf(d))
    /\ task[d].step \in Before => Len(log[d]) = task[d].next - 1
    /\ task[d].step \in {"idle", "stored", "iterating", "writing"} => task[d].next = 1
    /\ task[d].step \in {"stored", "iterating", "writing"} => d \in feed
    /\ task[d].step \in {"idle", "ready"} => Called(d, task[d].next) = 0
    /\ At(d, "trying") => task[d].next > 1 /\ Called(d, task[d].next) < MaxAttempts
    /\ At(d, "logging") => task[d].result \in NotificationLogStatus /\ Agrees(d, Channel(d), task[d].result)
    /\ \A i \in 1..Len(ChannelsOf(d)) : i > task[d].next => Called(d, i) = 0
RowsAgree(d) ==
    \A i \in DOMAIN log[d] :
        log[d][i][1] = ChannelsOf(d)[i] /\ Agrees(d, log[d][i][1], log[d][i][2])
TrailsAreTrue == RowBeforePush /\ \A d \in Dispatches : RowsAgree(d) /\ TrailOf(d)

-----------------------------------------------------------------------------
(* Channels and tasks.                                                     *)

LEMMA Channels ==
    ASSUME NEW d \in Dispatches
    PROVE  /\ Len(ChannelsOf(d)) \in {2, 3} /\ ChannelsOf(d)[1] = "in_app"
           /\ \A i \in 1..Len(ChannelsOf(d)) :
                 /\ ChannelsOf(d)[i] \in NotificationChannel
                 /\ i > 1 => ChannelsOf(d)[i] \in Suppressible
                 /\ ChannelsOf(d)[i] = "in_app" => i = 1
                 /\ \A j \in 1..Len(ChannelsOf(d)) : ChannelsOf(d)[i] = ChannelsOf(d)[j] => i = j
<1>1. CASE d \in WithEmail
  <2>1. ChannelsOf(d) = <<"in_app", "push", "email">>
    BY <1>1 DEF ChannelsOf
  <2> QED
    BY <2>1 DEF NotificationChannel, Suppressible
<1>2. CASE d \notin WithEmail
  <2>1. ChannelsOf(d) = <<"in_app", "push">>
    BY <1>2 DEF ChannelsOf
  <2> QED
    BY <2>1 DEF NotificationChannel, Suppressible
<1> QED
  BY <1>1, <1>2

Steps == {"idle", "ready", "stored", "iterating", "writing", "trying", "logging", "done", "dropped"}

LEMMA TaskFields ==
    ASSUME TypeOK, NEW d \in Dispatches
    PROVE  /\ task[d] \in Task /\ task[d].step \in Steps /\ task[d].next \in 1..3
           /\ task[d].result \in NotificationLogStatus \cup {None}
           /\ task[d].todo \subseteq Tabs /\ task[d].stale \subseteq Tabs
           /\ task[d].current \in Tabs \cup {None}
BY DEF TypeOK, Task, Steps

LEMMA NoTaskFields ==
    /\ NoTask \in Task /\ NoTask.step = "idle" /\ NoTask.next = 1 /\ NoTask.result = None
    /\ NoTask.todo = {} /\ NoTask.stale = {} /\ NoTask.current = None
<1>1. Cardinality(Tabs) \in Nat
  BY FS_CardinalityType
<1> QED
  BY <1>1 DEF NoTask, Task

LEMMA SizeOfTabs ==
    ASSUME NEW ts \in SUBSET Tabs
    PROVE  Cardinality(ts) \in 0..Cardinality(Tabs)
BY FS_Subset, FS_CardinalityType

(* One task moves on.                                                      *)
LEMMA OneTask ==
    ASSUME TypeOK, NEW d \in Dispatches, NEW r \in Task, task' = [task EXCEPT ![d] = r]
    PROVE  /\ task' \in [Dispatches -> Task] /\ task'[d] = r
           /\ \A e \in Dispatches : e # d => task'[e] = task[e]
BY DEF TypeOK

LEMMA Moved ==
    ASSUME TypeOK, NEW d \in Dispatches, NEW step \in Steps, Move(d, step)
    PROVE  /\ task' \in [Dispatches -> Task] /\ task'[d].step = step
           /\ task'[d].next = task[d].next /\ task'[d].todo = task[d].todo
           /\ task'[d].stale = task[d].stale /\ task'[d].current = task[d].current
           /\ \A e \in Dispatches : e # d => task'[e] = task[e]
<1> DEFINE r == [task[d] EXCEPT !.step = step]
<1>1. task[d] \in Task
  BY TaskFields
<1>2. /\ r \in Task /\ r.step = step /\ r.next = task[d].next /\ r.todo = task[d].todo
      /\ r.stale = task[d].stale /\ r.current = task[d].current
  BY <1>1 DEF Task, Steps
<1>3. task' = [task EXCEPT ![d] = r]
  BY DEF Move, TypeOK
<1> HIDE DEF r
<1> QED
  BY <1>2, <1>3, OneTask

LEMMA Settled ==
    ASSUME TypeOK, NEW d \in Dispatches, NEW result \in NotificationLogStatus, Settle(d, result)
    PROVE  /\ task' \in [Dispatches -> Task] /\ task'[d].step = "logging" /\ task'[d].result = result
           /\ task'[d].next = task[d].next /\ task'[d].todo = task[d].todo
           /\ task'[d].stale = task[d].stale /\ task'[d].current = task[d].current
           /\ \A e \in Dispatches : e # d => task'[e] = task[e]
<1> DEFINE r == [task[d] EXCEPT !.step = "logging", !.result = result]
<1>1. task[d] \in Task
  BY TaskFields
<1>2. /\ r \in Task /\ r.step = "logging" /\ r.result = result /\ r.next = task[d].next
      /\ r.todo = task[d].todo /\ r.stale = task[d].stale /\ r.current = task[d].current
  BY <1>1 DEF Task
<1>3. task' = [task EXCEPT ![d] = r]
  BY DEF Settle, TypeOK
<1> HIDE DEF r
<1> QED
  BY <1>2, <1>3, OneTask

(* The set of connections changes under the iterators: they meet fewer     *)
(* tabs, or others of the set.                                             *)
LEMMA Changed ==
    ASSUME NEW ts \in SUBSET Tabs, NEW tasks \in [Dispatches -> Task], ChangeTo(ts, tasks)
    PROVE  /\ connections' = ts /\ task' \in [Dispatches -> Task]
           /\ \A d \in Dispatches :
                 /\ task'[d].step = tasks[d].step /\ task'[d].next = tasks[d].next
                 /\ task'[d].result = tasks[d].result /\ task'[d].current = tasks[d].current
                 /\ task'[d].stale = tasks[d].stale
                 /\ task'[d].todo \subseteq tasks[d].todo \cup ts
<1>1. PICK ahead \in [{d \in Dispatches : tasks[d].step \in {"iterating", "writing"}} -> SUBSET ts] :
         task' = [d \in Dispatches |->
                    IF d \in DOMAIN ahead /\ ts # connections
                      THEN [tasks[d] EXCEPT !.todo = ahead[d], !.emptied = @ \/ ts = {}]
                      ELSE tasks[d]]
  BY DEF ChangeTo
<1>2. ASSUME NEW d \in Dispatches
      PROVE  /\ task'[d] \in Task
             /\ task'[d].step = tasks[d].step /\ task'[d].next = tasks[d].next
             /\ task'[d].result = tasks[d].result /\ task'[d].current = tasks[d].current
             /\ task'[d].stale = tasks[d].stale
             /\ task'[d].todo \subseteq tasks[d].todo \cup ts
  <2>1. CASE d \in DOMAIN ahead /\ ts # connections
    <3>1. PICK emptied \in BOOLEAN : emptied = (tasks[d].emptied \/ ts = {})
      BY Zenon
    <3>2. task'[d] = [tasks[d] EXCEPT !.todo = ahead[d], !.emptied = emptied]
      BY <1>1, <2>1, <3>1
    <3>3. ahead[d] \subseteq ts /\ ts \subseteq Tabs
      BY <2>1
    <3>4. tasks[d] \in Task /\ ahead[d] \in SUBSET Tabs
      BY <3>3
    <3>5. task'[d] \in Task
      BY <3>2, <3>4 DEF Task
    <3> QED
      BY <3>2, <3>3, <3>4, <3>5 DEF Task
  <2>2. CASE ~(d \in DOMAIN ahead /\ ts # connections)
    BY <1>1, <2>2
  <2> QED
    BY <2>1, <2>2
<1>3. task' \in [Dispatches -> Task]
  BY <1>1, <1>2
<1>4. connections' = ts
  BY DEF ChangeTo
<1> QED
  BY <1>2, <1>3, <1>4

(* What each step of a dispatch does to its task.                          *)
LEMMA Begun ==
    ASSUME TypeOK, NEW d \in Dispatches, BeginIteration(d), connections # {}
    PROVE  /\ task' \in [Dispatches -> Task] /\ task'[d].step = "iterating"
           /\ task'[d].next = task[d].next /\ task'[d].todo = connections
           /\ task'[d].stale = task[d].stale
           /\ \A e \in Dispatches : e # d => task'[e] = task[e]
<1> DEFINE r == [task[d] EXCEPT !.step = "iterating", !.todo = connections,
                                !.size = Cardinality(connections)]
<1>1. task[d] \in Task /\ connections \in SUBSET Tabs
  BY TaskFields DEF TypeOK
<1>2. PICK n \in 0..Cardinality(Tabs) : n = Cardinality(connections)
  BY <1>1, SizeOfTabs
<1>3. /\ r \in Task /\ r.step = "iterating" /\ r.next = task[d].next /\ r.todo = connections
      /\ r.stale = task[d].stale
  BY <1>1, <1>2 DEF Task
<1>4. task' = [task EXCEPT ![d] = r]
  BY DEF BeginIteration, TypeOK
<1> HIDE DEF r
<1> QED
  BY <1>3, <1>4, OneTask

LEMMA Taken ==
    ASSUME TypeOK, NEW d \in Dispatches, NextTab(d)
    PROVE  /\ task' \in [Dispatches -> Task] /\ task'[d].step = "writing"
           /\ task'[d].next = task[d].next /\ task'[d].todo \subseteq task[d].todo
           /\ task'[d].current \in task[d].todo /\ task'[d].stale = task[d].stale
           /\ \A e \in Dispatches : e # d => task'[e] = task[e]
<1>1. task[d] \in Task /\ task[d].todo \subseteq Tabs
  BY TaskFields
<1>2. PICK t \in task[d].todo :
         task' = [task EXCEPT ![d].step = "writing", ![d].current = t, ![d].todo = @ \ {t}]
  BY DEF NextTab
<1> DEFINE r == [task[d] EXCEPT !.step = "writing", !.current = t, !.todo = @ \ {t}]
<1>3. /\ r \in Task /\ r.step = "writing" /\ r.next = task[d].next /\ r.todo = task[d].todo \ {t}
      /\ r.current = t /\ r.stale = task[d].stale
  BY <1>1 DEF Task
<1>4. task' = [task EXCEPT ![d] = r]
  BY <1>2 DEF TypeOK
<1> HIDE DEF r
<1> QED
  BY <1>3, <1>4, OneTask

LEMMA Written ==
    ASSUME TypeOK, NEW d \in Dispatches, Write(d), task[d].current \in Tabs
    PROVE  /\ task' \in [Dispatches -> Task] /\ task'[d].step = "iterating"
           /\ task'[d].next = task[d].next /\ task'[d].todo = task[d].todo
           /\ IF tab[task[d].current] = "open"
                THEN task'[d].stale = task[d].stale
                ELSE task'[d].stale = task[d].stale \cup {task[d].current}
           /\ \A e \in Dispatches : e # d => task'[e] = task[e]
<1>1. task[d] \in Task
  BY TaskFields
<1>2. PICK failed \in SUBSET Tabs :
         /\ failed = IF tab[task[d].current] = "open" THEN {} ELSE {task[d].current}
         /\ task' = [task EXCEPT ![d].step = "iterating", ![d].current = None,
                                 ![d].stale = @ \cup failed]
  BY DEF Write, Reaches
<1> DEFINE r == [task[d] EXCEPT !.step = "iterating", !.current = None, !.stale = @ \cup failed]
<1>3. /\ r \in Task /\ r.step = "iterating" /\ r.next = task[d].next /\ r.todo = task[d].todo
      /\ r.stale = task[d].stale \cup failed
  BY <1>1 DEF Task
<1>4. task' = [task EXCEPT ![d] = r]
  BY <1>2 DEF TypeOK
<1> HIDE DEF r
<1>5. IF tab[task[d].current] = "open"
        THEN r.stale = task[d].stale
        ELSE r.stale = task[d].stale \cup {task[d].current}
  BY <1>2, <1>3
<1>6. /\ task' \in [Dispatches -> Task] /\ task'[d] = r
      /\ \A e \in Dispatches : e # d => task'[e] = task[e]
  BY <1>3, <1>4, OneTask
<1> QED
  BY <1>3, <1>5, <1>6

LEMMA Dropped ==
    ASSUME TypeOK, NEW d \in Dispatches, IterationFails(d)
    PROVE  /\ task' \in [Dispatches -> Task] /\ task'[d].step = "dropped"
           /\ task'[d].next = 1 /\ task'[d].todo = {} /\ task'[d].stale = {}
           /\ \A e \in Dispatches : e # d => task'[e] = task[e]
<1> DEFINE r == [NoTask EXCEPT !.step = "dropped"]
<1>1. r \in Task /\ r.step = "dropped" /\ r.next = 1 /\ r.todo = {} /\ r.stale = {}
  BY NoTaskFields DEF Task
<1>2. task' = [task EXCEPT ![d] = r]
  BY DEF IterationFails
<1> HIDE DEF r
<1> QED
  BY <1>1, <1>2, OneTask

LEMMA Finished ==
    ASSUME TypeOK, NEW d \in Dispatches, EndIteration(d)
    PROVE  /\ connections' = connections \ task[d].stale
           /\ task' \in [Dispatches -> Task]
           /\ task'[d].step = "logging" /\ task'[d].result = "sent"
           /\ task'[d].next = 1 /\ task'[d].todo \subseteq connections' /\ task'[d].stale = {}
           /\ \A e \in Dispatches : e # d =>
                 /\ task'[e].step = task[e].step /\ task'[e].next = task[e].next
                 /\ task'[e].result = task[e].result /\ task'[e].current = task[e].current
                 /\ task'[e].stale = task[e].stale
                 /\ task'[e].todo \subseteq task[e].todo \cup connections'
<1> DEFINE r == [NoTask EXCEPT !.step = "logging", !.result = "sent"]
           tasks == [task EXCEPT ![d] = r]
           ts == connections \ task[d].stale
<1>1. /\ r \in Task /\ r.step = "logging" /\ r.result = "sent" /\ r.next = 1 /\ r.todo = {}
      /\ r.stale = {}
  BY NoTaskFields DEF Task, NotificationLogStatus
<1>2. ChangeTo(ts, tasks)
  BY DEF EndIteration
<1> HIDE DEF r
<1>3. tasks \in [Dispatches -> Task] /\ tasks[d] = r /\ \A e \in Dispatches : e # d => tasks[e] = task[e]
  BY <1>1 DEF TypeOK
<1>4. ts \in SUBSET Tabs
  BY DEF TypeOK
<1> HIDE DEF tasks, ts
<1>5. /\ connections' = ts /\ task' \in [Dispatches -> Task]
      /\ \A e \in Dispatches :
            /\ task'[e].step = tasks[e].step /\ task'[e].next = tasks[e].next
            /\ task'[e].result = tasks[e].result /\ task'[e].current = tasks[e].current
            /\ task'[e].stale = tasks[e].stale
            /\ task'[e].todo \subseteq tasks[e].todo \cup ts
  BY <1>2, <1>3, <1>4, Changed
<1> QED
  BY <1>1, <1>3, <1>5 DEF ts

LEMMA Logged ==
    ASSUME TypeOK, NEW d \in Dispatches, WriteLog(d), task[d].next \in 1..Len(ChannelsOf(d))
    PROVE  /\ task' \in [Dispatches -> Task]
           /\ IF task[d].next = Len(ChannelsOf(d))
                THEN task'[d].step = "done" /\ task'[d].next = task[d].next
                ELSE task'[d].step = "ready" /\ task'[d].next = task[d].next + 1
           /\ task'[d].todo = task[d].todo /\ task'[d].stale = task[d].stale
           /\ \A e \in Dispatches : e # d => task'[e] = task[e]
<1>1. task[d] \in Task
  BY TaskFields
<1>2. PICK step \in {"done", "ready"}, next \in 1..3 :
         /\ IF task[d].next = Len(ChannelsOf(d)) THEN step = "done" /\ next = task[d].next
                                               ELSE step = "ready" /\ next = task[d].next + 1
         /\ task' = [task EXCEPT ![d].result = None, ![d].next = next, ![d].step = step]
  <2>1. CASE task[d].next = Len(ChannelsOf(d))
    <3>1. task' = [task EXCEPT ![d].result = None, ![d].next = task[d].next, ![d].step = "done"]
      BY <2>1 DEF WriteLog, TypeOK
    <3> QED
      BY <2>1, <3>1, TaskFields
  <2>2. CASE task[d].next # Len(ChannelsOf(d))
    <3>1. task' = [task EXCEPT ![d].result = None, ![d].next = task[d].next + 1, ![d].step = "ready"]
      BY <2>2 DEF WriteLog, TypeOK
    <3>2. task[d].next + 1 \in 1..3
      BY <2>2, Channels
    <3> QED
      BY <2>2, <3>1, <3>2
  <2> QED
    BY <2>1, <2>2
<1> DEFINE r == [task[d] EXCEPT !.result = None, !.next = next, !.step = step]
<1>3. /\ r \in Task /\ r.step = step /\ r.next = next /\ r.todo = task[d].todo
      /\ r.stale = task[d].stale
  BY <1>1 DEF Task
<1>4. task' = [task EXCEPT ![d] = r]
  BY <1>2 DEF TypeOK
<1> HIDE DEF r
<1> QED
  BY <1>2, <1>3, <1>4, OneTask

-----------------------------------------------------------------------------
(* Types.                                                                  *)

LEMMA TypesInit == Init => Types
<1> SUFFICES ASSUME Init PROVE Types
  OBVIOUS
<1>1. task \in [Dispatches -> Task]
  BY NoTaskFields DEF Init
<1>2. log \in [Dispatches -> Seq(Rows)]
  BY EmptySeq DEF Init
<1>3. \A d \in Dispatches : log[d] = <<>>
  BY DEF Init
<1>4. \A d \in Dispatches : \A i \in DOMAIN log[d] : log[d][i] \in Rows
  BY <1>3
<1>5. called \in [Dispatches -> [Suppressible -> 0..MaxAttempts]] /\ enabled \in [Suppressible -> BOOLEAN]
  BY DEF Init
<1>6. tab \in [Tabs -> {"away", "open", "dead", "closed"}] /\ connections \subseteq Tabs
      /\ feed \subseteq Dispatches /\ pushed \in [Dispatches -> SUBSET Tabs]
  BY DEF Init
<1> QED
  BY <1>1, <1>2, <1>4, <1>5, <1>6 DEF TypeOK, Types, Rows

LEMMA RowsOfLog ==
    ASSUME log \in [Dispatches -> Seq(Rows)], NEW d \in Dispatches
    PROVE  \A i \in DOMAIN log[d] : log[d][i] \in Rows
BY LenProperties, ElementOfSeq

(* A step that changes a task, and what its facts concern.                 *)
LEMMA TaskTypes ==
    ASSUME Types, task' \in [Dispatches -> Task], UNCHANGED <<tab, connections, enabled>>,
           feed' \subseteq Dispatches, pushed' \in [Dispatches -> SUBSET Tabs],
           called' \in [Dispatches -> [Suppressible -> 0..MaxAttempts]],
           log' \in [Dispatches -> Seq(Rows)]
    PROVE  Types'
<1>1. (\A d \in Dispatches : \A i \in DOMAIN log[d] : log[d][i] \in Rows)'
  <2> SUFFICES ASSUME NEW d \in Dispatches PROVE \A i \in DOMAIN log'[d] : log'[d][i] \in Rows
    OBVIOUS
  <2>1. PICK s \in Seq(Rows) : s = log'[d]
    OBVIOUS
  <2>2. \A i \in DOMAIN s : s[i] \in Rows
    BY LenProperties, ElementOfSeq
  <2> QED
    BY <2>1, <2>2
<1> QED
  BY <1>1 DEF Types, TypeOK, Rows

LEMMA TypesTabs ==
    ASSUME Types, NEW t \in Tabs, Connect(t) \/ PeerGoes(t) \/ HandlerEnds(t)
    PROVE  Types'
<1>0. TypeOK /\ connections \cup {t} \in SUBSET Tabs /\ connections \ {t} \in SUBSET Tabs
      /\ task \in [Dispatches -> Task]
  BY DEF Types, TypeOK
<1>1. task' \in [Dispatches -> Task] /\ connections' \subseteq Tabs
  <2>1. CASE Connect(t)
    <3>1. PICK ts \in SUBSET Tabs : ts = connections \cup {t}
      BY <1>0
    <3>2. ChangeTo(ts, task)
      BY <2>1, <3>1 DEF Connect
    <3> QED
      BY <1>0, <3>2, Changed
  <2>2. CASE HandlerEnds(t)
    <3>1. PICK ts \in SUBSET Tabs : ts = connections \ {t}
      BY <1>0
    <3>2. ChangeTo(ts, task)
      BY <2>2, <3>1 DEF HandlerEnds
    <3> QED
      BY <1>0, <3>2, Changed
  <2>3. CASE PeerGoes(t)
    BY <2>3, <1>0 DEF PeerGoes
  <2> QED
    BY <2>1, <2>2, <2>3
<1>2. tab' \in [Tabs -> {"away", "open", "dead", "closed"}] /\ UNCHANGED <<enabled, feed, pushed, called, log>>
  BY <1>0 DEF Connect, PeerGoes, HandlerEnds, TypeOK
<1> QED
  BY <1>1, <1>2 DEF Types, TypeOK

LEMMA TypesAdvance ==
    ASSUME Types, TabsMet, \A e \in Dispatches : TrailOf(e),
           NEW d \in Dispatches, Dispatch(d) \/ Advance(d)
    PROVE  Types'
<1> TypeOK /\ TrailOf(d)
  BY DEF Types
<1>0. /\ feed \subseteq Dispatches /\ pushed \in [Dispatches -> SUBSET Tabs]
      /\ called \in [Dispatches -> [Suppressible -> 0..MaxAttempts]]
      /\ log \in [Dispatches -> Seq(Rows)]
  BY DEF Types, TypeOK
<1>1. CASE Dispatch(d)
  BY <1>0, <1>1, Moved, TaskTypes DEF Dispatch, Steps
<1>2. CASE Store(d)
  BY <1>0, <1>2, Moved, TaskTypes DEF Store, Steps
<1>3. CASE BeginIteration(d)
  BY <1>0, <1>3, Begun, Settled, TaskTypes DEF BeginIteration, NotificationLogStatus
<1>4. CASE NextTab(d)
  BY <1>0, <1>4, Taken, TaskTypes DEF NextTab
<1>5. CASE Write(d)
  <2>1. task[d].current \in Tabs
    BY <1>5 DEF Write, TabsMet
  <2>2. pushed' \in [Dispatches -> SUBSET Tabs]
    BY <1>0, <1>5, <2>1 DEF Write
  <2> QED
    BY <1>0, <1>5, <2>1, <2>2, Written, TaskTypes DEF Write
<1>6. CASE IterationFails(d)
  BY <1>0, <1>6, Dropped, TaskTypes DEF IterationFails
<1>7. CASE EndIteration(d)
  <2>1. connections' \subseteq Tabs
    BY <1>7, Finished DEF TypeOK
  <2> QED
    BY <1>7, <2>1, Finished DEF EndIteration, Types, TypeOK
<1>8. CASE AskPreference(d)
  BY <1>0, <1>8, Moved, Settled, TaskTypes DEF AskPreference, Steps, NotificationLogStatus
<1>9. CASE Attempt(d)
  <2>1. Channel(d) \in Suppressible /\ called[d][Channel(d)] \in Nat /\ called[d][Channel(d)] < MaxAttempts
    BY <1>0, <1>9, Channels DEF Attempt, TrailOf, Called, Channel
  <2>2. called' \in [Dispatches -> [Suppressible -> 0..MaxAttempts]]
    BY <1>0, <1>9, <2>1 DEF Attempt
  <2>3. task' \in [Dispatches -> Task]
    BY <1>9, Settled DEF Attempt, NotificationLogStatus, TypeOK
  <2> QED
    BY <1>0, <1>9, <2>2, <2>3, TaskTypes DEF Attempt
<1>10. CASE WriteLog(d)
  <2>1. <<Channel(d), task[d].result>> \in Rows
    BY <1>10, Channels DEF WriteLog, TrailOf, Channel, Rows
  <2>2. log' \in [Dispatches -> Seq(Rows)]
    BY <1>0, <1>10, <2>1, AppendProperties DEF WriteLog
  <2>3. task' \in [Dispatches -> Task]
    BY <1>10, Logged DEF TrailOf
  <2> QED
    BY <1>0, <1>10, <2>2, <2>3, TaskTypes DEF WriteLog
<1> QED
  BY <1>1, <1>2, <1>3, <1>4, <1>5, <1>6, <1>7, <1>8, <1>9, <1>10 DEF Advance

-----------------------------------------------------------------------------
(* The manager's set.                                                      *)

TabsInv == OpenTabsAreConnected /\ TabsMet

LEMMA TabsInit == Init => TabsInv
BY NoTaskFields DEF Init, TabsInv, OpenTabsAreConnected, TabsMet, At

(* The set changes as the tabs do; what the tasks hold has been open.      *)
LEMMA TabsMove ==
    ASSUME Types, TabsInv, NEW t \in Tabs, Connect(t) \/ PeerGoes(t) \/ HandlerEnds(t)
    PROVE  TabsInv'
<1>0. /\ connections \cup {t} \in SUBSET Tabs /\ connections \ {t} \in SUBSET Tabs
      /\ task \in [Dispatches -> Task] /\ connections \in SUBSET Tabs
      /\ tab \in [Tabs -> {"away", "open", "dead", "closed"}]
  BY DEF Types, TypeOK
<1>1. PICK ts \in SUBSET Tabs :
         /\ connections' = ts
         /\ \A d \in Dispatches :
               /\ task'[d].step = task[d].step /\ task'[d].current = task[d].current
               /\ task'[d].stale = task[d].stale /\ task'[d].todo \subseteq task[d].todo \cup ts
         /\ \/ Connect(t) /\ ts = connections \cup {t}
            \/ PeerGoes(t) /\ ts = connections
            \/ HandlerEnds(t) /\ ts = connections \ {t}
  <2>1. CASE Connect(t)
    <3>1. PICK ts \in SUBSET Tabs : ts = connections \cup {t}
      BY <1>0
    <3>2. ChangeTo(ts, task)
      BY <2>1, <3>1 DEF Connect
    <3>3. /\ connections' = ts
          /\ \A d \in Dispatches :
                /\ task'[d].step = task[d].step /\ task'[d].next = task[d].next
                /\ task'[d].result = task[d].result /\ task'[d].current = task[d].current
                /\ task'[d].stale = task[d].stale
                /\ task'[d].todo \subseteq task[d].todo \cup ts
      BY <1>0, <3>2, Changed, Zenon
    <3> QED
      BY <2>1, <3>1, <3>3
  <2>2. CASE HandlerEnds(t)
    <3>1. PICK ts \in SUBSET Tabs : ts = connections \ {t}
      BY <1>0
    <3>2. ChangeTo(ts, task)
      BY <2>2, <3>1 DEF HandlerEnds
    <3>3. /\ connections' = ts
          /\ \A d \in Dispatches :
                /\ task'[d].step = task[d].step /\ task'[d].next = task[d].next
                /\ task'[d].result = task[d].result /\ task'[d].current = task[d].current
                /\ task'[d].stale = task[d].stale
                /\ task'[d].todo \subseteq task[d].todo \cup ts
      BY <1>0, <3>2, Changed, Zenon
    <3> QED
      BY <2>2, <3>1, <3>3
  <2>3. CASE PeerGoes(t)
    BY <2>3, <1>0 DEF PeerGoes
  <2> QED
    BY <2>1, <2>2, <2>3
<1>2. /\ \A u \in Tabs : u # t => tab'[u] = tab[u]
      /\ tab[t] = "away" => tab'[t] = "open"
      /\ tab[t] # "away" => tab'[t] \in {"dead", "closed"}
  BY <1>0 DEF Connect, PeerGoes, HandlerEnds
<1>3. OpenTabsAreConnected'
  <2>1. CASE Connect(t)
    BY <1>0, <1>1, <1>2, <2>1 DEF Connect, PeerGoes, HandlerEnds, TabsInv, OpenTabsAreConnected
  <2>2. CASE PeerGoes(t)
    BY <1>0, <1>1, <1>2, <2>2 DEF Connect, PeerGoes, HandlerEnds, TabsInv, OpenTabsAreConnected
  <2>3. CASE HandlerEnds(t)
    BY <1>0, <1>1, <1>2, <2>3 DEF Connect, PeerGoes, HandlerEnds, TabsInv, OpenTabsAreConnected
  <2> QED
    BY <2>1, <2>2, <2>3
<1>4. TabsMet'
  <2> SUFFICES ASSUME NEW d \in Dispatches
               PROVE  /\ \A u \in task'[d].todo : tab'[u] # "away"
                      /\ task'[d].step = "writing" =>
                             task'[d].current \in Tabs /\ tab'[task'[d].current] # "away"
                      /\ \A u \in task'[d].stale : tab'[u] \in {"dead", "closed"}
    BY DEF TabsMet, At
  <2>1. /\ \A u \in task[d].todo : tab[u] # "away"
        /\ task[d].step = "writing" => task[d].current \in Tabs /\ tab[task[d].current] # "away"
        /\ \A u \in task[d].stale : tab[u] \in {"dead", "closed"}
    BY DEF TabsInv, TabsMet, At
  <2>2. task[d].todo \subseteq Tabs /\ task[d].stale \subseteq Tabs
    BY TaskFields DEF Types
  <2>3. \A u \in ts : tab'[u] # "away"
    BY <1>1, <1>3 DEF OpenTabsAreConnected
  <2> QED
    BY <1>1, <1>2, <2>1, <2>2, <2>3
<1> QED
  BY <1>3, <1>4 DEF TabsInv

(* The tasks move on; the tabs do not.                                     *)
LEMMA TabsStay ==
    ASSUME TabsInv, tab' = tab, connections' = connections,
           \A d \in Dispatches :
              /\ \A u \in task'[d].todo : tab[u] # "away"
              /\ task'[d].step = "writing" =>
                     task'[d].current \in Tabs /\ tab[task'[d].current] # "away"
              /\ \A u \in task'[d].stale : tab[u] \in {"dead", "closed"}
    PROVE  TabsInv'
BY DEF TabsInv, OpenTabsAreConnected, TabsMet, At

LEMMA TabsAdvance ==
    ASSUME Types, TabsInv, \A e \in Dispatches : TrailOf(e),
           NEW d \in Dispatches, Dispatch(d) \/ Advance(d)
    PROVE  TabsInv'
<1> TypeOK
  BY DEF Types
<1>0. \A e \in Dispatches :
         /\ \A u \in task[e].todo : tab[u] # "away"
         /\ task[e].step = "writing" => task[e].current \in Tabs /\ tab[task[e].current] # "away"
         /\ \A u \in task[e].stale : tab[u] \in {"dead", "closed"}
  BY DEF TabsInv, TabsMet, At
<1>1. CASE Dispatch(d) \/ Store(d) \/ AskPreference(d) \/ Attempt(d)
  <2>1. UNCHANGED <<tab, connections>>
    BY <1>1 DEF Dispatch, Store, AskPreference, Attempt
  <2>2. \/ task' = task
        \/ \E step \in Steps \ {"writing"} : Move(d, step)
        \/ \E result \in NotificationLogStatus : Settle(d, result)
    BY <1>1 DEF Dispatch, Store, AskPreference, Attempt, Steps, NotificationLogStatus
  <2>3. \A e \in Dispatches :
           /\ task'[e].todo = task[e].todo /\ task'[e].stale = task[e].stale
           /\ task'[e].step = "writing" => task'[e] = task[e]
    BY <2>2, Moved, Settled
  <2> QED
    BY <1>0, <2>1, <2>3, TabsStay
<1>2. CASE BeginIteration(d)
  <2>1. \A u \in connections : tab[u] # "away"
    BY DEF TabsInv, OpenTabsAreConnected, TypeOK
  <2>2. CASE connections = {}
    <3>1. \A e \in Dispatches :
             /\ task'[e].todo = task[e].todo /\ task'[e].stale = task[e].stale
             /\ task'[e].step = "writing" => task'[e] = task[e]
      BY <1>2, <2>2, Settled DEF BeginIteration, NotificationLogStatus
    <3> QED
      BY <1>0, <1>2, <3>1, TabsStay DEF BeginIteration
  <2>3. CASE connections # {}
    <3>1. \A e \in Dispatches :
             /\ \A u \in task'[e].todo : tab[u] # "away"
             /\ task'[e].step = "writing" =>
                    task'[e].current \in Tabs /\ tab[task'[e].current] # "away"
             /\ \A u \in task'[e].stale : tab[u] \in {"dead", "closed"}
      BY <1>0, <1>2, <2>1, <2>3, Begun
    <3> QED
      BY <1>2, <3>1, TabsStay DEF BeginIteration
  <2> QED
    BY <2>2, <2>3
<1>3. CASE NextTab(d)
  <2>1. task[d].todo \subseteq Tabs
    BY TaskFields
  <2> QED
    <3>1. \A e \in Dispatches :
             /\ \A u \in task'[e].todo : tab[u] # "away"
             /\ task'[e].step = "writing" =>
                    task'[e].current \in Tabs /\ tab[task'[e].current] # "away"
             /\ \A u \in task'[e].stale : tab[u] \in {"dead", "closed"}
      BY <1>0, <1>3, <2>1, Taken
    <3> QED
      BY <1>3, <3>1, TabsStay DEF NextTab
<1>4. CASE Write(d)
  <2>1. task[d].current \in Tabs /\ tab[task[d].current] # "away"
    BY <1>0, <1>4 DEF Write, At
  <2>2. tab[task[d].current] # "open" => tab[task[d].current] \in {"dead", "closed"}
    BY <2>1 DEF TypeOK
  <2>3. \A u \in task'[d].stale : tab[u] \in {"dead", "closed"}
    BY <1>0, <1>4, <2>1, <2>2, Written
  <2> QED
    <3>1. \A e \in Dispatches :
             /\ \A u \in task'[e].todo : tab[u] # "away"
             /\ task'[e].step = "writing" =>
                    task'[e].current \in Tabs /\ tab[task'[e].current] # "away"
             /\ \A u \in task'[e].stale : tab[u] \in {"dead", "closed"}
      BY <1>0, <1>4, <2>1, <2>3, Written
    <3> QED
      BY <1>4, <3>1, TabsStay DEF Write
<1>5. CASE IterationFails(d)
  BY <1>0, <1>5, Dropped, TabsStay DEF IterationFails
<1>6. CASE EndIteration(d)
  <2>1. tab' = tab /\ connections' = connections \ task[d].stale
    BY <1>6, Finished DEF EndIteration
  <2>2. OpenTabsAreConnected'
    BY <1>0, <2>1 DEF TabsInv, OpenTabsAreConnected
  <2>3. \A u \in connections' : tab[u] # "away"
    BY <2>1, <2>2 DEF OpenTabsAreConnected, TypeOK
  <2>4. TabsMet'
    BY <1>0, <1>6, <2>1, <2>3, Finished DEF TabsMet, At
  <2> QED
    BY <2>2, <2>4 DEF TabsInv
<1>7. CASE WriteLog(d)
  <2>1. task[d].next \in 1..Len(ChannelsOf(d))
    BY DEF TrailOf
  <2>2. task'[d].step # "writing"
    BY <1>7, <2>1, Logged
  <2> QED
    <3>1. \A e \in Dispatches :
             /\ \A u \in task'[e].todo : tab[u] # "away"
             /\ task'[e].step = "writing" =>
                    task'[e].current \in Tabs /\ tab[task'[e].current] # "away"
             /\ \A u \in task'[e].stale : tab[u] \in {"dead", "closed"}
      BY <1>0, <1>7, <2>1, <2>2, Logged
    <3> QED
      BY <1>7, <3>1, TabsStay DEF WriteLog
<1> QED
  BY <1>1, <1>2, <1>3, <1>4, <1>5, <1>6, <1>7 DEF Advance

-----------------------------------------------------------------------------
(* The audit trail.                                                        *)

LEMMA AgreementStays ==
    ASSUME NEW d \in Dispatches, called'[d] = called[d], feed \subseteq feed'
    PROVE  \A channel, status : Agrees(d, channel, status) => Agrees(d, channel, status)'
BY DEF Agrees

LEMMA TrailStays ==
    ASSUME NEW d \in Dispatches, TrailOf(d), RowsAgree(d),
           task'[d].step = task[d].step, task'[d].next = task[d].next,
           task'[d].result = task[d].result,
           log'[d] = log[d], called'[d] = called[d], feed \subseteq feed'
    PROVE  TrailOf(d)' /\ RowsAgree(d)'
<1>1. RowsAgree(d)'
  <2> SUFFICES ASSUME NEW i \in DOMAIN log[d]
               PROVE  log[d][i][1] = ChannelsOf(d)[i] /\ Agrees(d, log[d][i][1], log[d][i][2])'
    BY DEF RowsAgree
  <2>1. PICK channel, status : channel = log[d][i][1] /\ status = log[d][i][2]
    OBVIOUS
  <2>2. channel = ChannelsOf(d)[i] /\ Agrees(d, channel, status)
    BY <2>1 DEF RowsAgree
  <2>3. Agrees(d, channel, status)'
    BY <2>2, AgreementStays
  <2> QED
    BY <2>1, <2>2, <2>3
<1>2. (task[d].step = "logging" => task[d].result \in NotificationLogStatus /\ Agrees(d, Channel(d), task[d].result))'
  <2>1. PICK channel, status : channel = Channel(d) /\ status = task[d].result
    OBVIOUS
  <2>2. channel = Channel(d)' /\ status = task'[d].result
    BY <2>1 DEF Channel
  <2>3. task'[d].step = "logging" => status \in NotificationLogStatus /\ Agrees(d, channel, status)
    BY <2>1 DEF TrailOf, At
  <2>4. Agrees(d, channel, status) => Agrees(d, channel, status)'
    BY AgreementStays
  <2> QED
    BY <2>2, <2>3, <2>4
<1>3. \A i : Called(d, i)' = Called(d, i)
  BY DEF Called
<1> QED
  BY <1>1, <1>2, <1>3 DEF TrailOf, At

(* A dispatch that neither logs nor calls a provider.                      *)
LEMMA RowsStand ==
    ASSUME NEW d \in Dispatches, RowsAgree(d), log'[d] = log[d], called'[d] = called[d],
           feed \subseteq feed'
    PROVE  RowsAgree(d)' /\ \A i : Called(d, i)' = Called(d, i)
<1>1. RowsAgree(d)'
  <2> SUFFICES ASSUME NEW i \in DOMAIN log[d]
               PROVE  log[d][i][1] = ChannelsOf(d)[i] /\ Agrees(d, log[d][i][1], log[d][i][2])'
    BY DEF RowsAgree
  <2>1. PICK channel, status : channel = log[d][i][1] /\ status = log[d][i][2]
    OBVIOUS
  <2>2. channel = ChannelsOf(d)[i] /\ Agrees(d, channel, status)
    BY <2>1 DEF RowsAgree
  <2>3. Agrees(d, channel, status)'
    BY <2>2, AgreementStays
  <2> QED
    BY <2>1, <2>2, <2>3
<1> QED
  BY <1>1 DEF Called

LEMMA TrailInApp ==
    ASSUME Types, TabsInv, NEW d \in Dispatches, TrailOf(d), RowsAgree(d),
           \/ Store(d) \/ BeginIteration(d) \/ NextTab(d) \/ Write(d) \/ EndIteration(d)
           \/ IterationFails(d)
    PROVE  TrailOf(d)' /\ RowsAgree(d)'
<1> TypeOK
  BY DEF Types
<1>0. /\ log'[d] = log[d] /\ called'[d] = called[d] /\ feed \subseteq feed'
  BY DEF Store, BeginIteration, NextTab, Write, EndIteration, IterationFails
<1>1. RowsAgree(d)' /\ \A i : Called(d, i)' = Called(d, i)
  BY <1>0, RowsStand
<1>2. task[d].next = 1 /\ task[d].step \in Before /\ 1 \in 1..Len(ChannelsOf(d)) /\ ChannelsOf(d)[1] = "in_app"
      /\ Len(log[d]) = 0
  <2>1. CASE Store(d)
    BY <2>1, Channels DEF Store, TrailOf, Channel, At, Before
  <2>2. CASE ~Store(d)
    <3>1. task[d].step \in {"stored", "iterating", "writing"}
      BY <2>2 DEF BeginIteration, NextTab, Write, EndIteration, IterationFails, At
    <3> QED
      BY <3>1, Channels DEF TrailOf, Before
  <2> QED
    BY <2>1, <2>2
<1>3. \A i \in 1..Len(ChannelsOf(d)) : i > 1 => Called(d, i)' = 0
  BY <1>1, <1>2 DEF TrailOf
<1>4. task'[d].next = 1
      /\ \/ task'[d].step \in {"stored", "iterating", "writing"}
         \/ task'[d].step = "logging" /\ task'[d].result = "sent"
         \/ task'[d].step = "dropped"
  <2>1. CASE Store(d)
    BY <1>2, <2>1, Moved DEF Store, Steps
  <2>2. CASE BeginIteration(d)
    BY <1>2, <2>2, Begun, Settled DEF BeginIteration, NotificationLogStatus
  <2>3. CASE NextTab(d)
    BY <1>2, <2>3, Taken
  <2>4. CASE Write(d)
    <3>1. task[d].current \in Tabs
      BY <2>4 DEF Write, TabsInv, TabsMet
    <3> QED
      BY <1>2, <2>4, <3>1, Written
  <2>5. CASE EndIteration(d)
    BY <2>5, Finished
  <2>6. CASE IterationFails(d)
    BY <2>6, Dropped
  <2> QED
    BY <2>1, <2>2, <2>3, <2>4, <2>5, <2>6
<1>5. d \in feed'
  BY DEF Store, BeginIteration, NextTab, Write, EndIteration, IterationFails, TrailOf, At
<1>6. (At(d, "logging") => task[d].result \in NotificationLogStatus /\ Agrees(d, Channel(d), task[d].result))'
  BY <1>2, <1>4, <1>5 DEF At, Channel, Agrees, NotificationLogStatus
<1>7. TrailOf(d)'
  BY <1>0, <1>2, <1>3, <1>4, <1>5, <1>6 DEF TrailOf, At, Before
<1> QED
  BY <1>1, <1>7

LEMMA TrailDelivers ==
    ASSUME Types, NEW d \in Dispatches, TrailOf(d), RowsAgree(d), AskPreference(d) \/ Dispatch(d)
    PROVE  TrailOf(d)' /\ RowsAgree(d)'
<1> TypeOK
  BY DEF Types
<1>0. log'[d] = log[d] /\ called'[d] = called[d] /\ feed' = feed
  BY DEF AskPreference, Dispatch
<1>1. RowsAgree(d)' /\ \A i : Called(d, i)' = Called(d, i)
  BY <1>0, RowsStand
<1>2. PICK n \in 1..Len(ChannelsOf(d)) : n = task[d].next
  BY DEF TrailOf
<1>3. Called(d, n) = 0 /\ Len(log[d]) = n - 1 /\ \A i \in 1..Len(ChannelsOf(d)) : i > n => Called(d, i) = 0
  BY <1>2 DEF AskPreference, Dispatch, TrailOf, At, Before
<1>4. CASE Dispatch(d)
  <2>1. task'[d].step = "ready" /\ task'[d].next = n
    BY <1>2, <1>4, Moved DEF Dispatch, Steps
  <2> QED
    BY <1>0, <1>1, <1>2, <1>3, <2>1 DEF TrailOf, At, Before
<1>5. CASE AskPreference(d)
  <2>1. n > 1 /\ ChannelsOf(d)[n] \in Suppressible /\ called[d][ChannelsOf(d)[n]] = 0
    <3>1. ChannelsOf(d)[n] \in Suppressible
      BY <1>2, <1>5 DEF AskPreference, Channel
    <3>2. n # 1
      BY <3>1, Channels DEF Suppressible
    <3> QED
      BY <1>3, <3>1, <3>2 DEF Called
  <2>2. /\ task'[d].next = n
        /\ \/ task'[d].step = "trying"
           \/ task'[d].step = "logging" /\ task'[d].result = "skipped"
    BY <1>2, <1>5, Moved, Settled DEF AskPreference, Steps, NotificationLogStatus
  <2>3. Agrees(d, ChannelsOf(d)[n], "skipped")'
    BY <1>0, <2>1 DEF Agrees, Suppressible
  <2>4. (At(d, "logging") => task[d].result \in NotificationLogStatus /\ Agrees(d, Channel(d), task[d].result))'
    BY <2>2, <2>3 DEF At, Channel, NotificationLogStatus
  <2>5. (At(d, "trying") => task[d].next > 1 /\ Called(d, task[d].next) < MaxAttempts)'
    BY <1>1, <1>3, <2>1, <2>2
  <2> QED
    BY <1>0, <1>1, <1>2, <1>3, <2>2, <2>4, <2>5 DEF TrailOf, At, Before
<1> QED
  BY <1>4, <1>5

LEMMA TrailTries ==
    ASSUME Types, NEW d \in Dispatches, TrailOf(d), RowsAgree(d), Attempt(d)
    PROVE  TrailOf(d)' /\ RowsAgree(d)'
<1> TypeOK /\ log \in [Dispatches -> Seq(Rows)]
  BY DEF Types
<1>1. PICK n \in 1..Len(ChannelsOf(d)) : n = task[d].next
  BY DEF TrailOf
<1>2. PICK c \in Suppressible : c = ChannelsOf(d)[n]
  BY <1>1, Channels DEF Attempt, TrailOf
<1>3. n > 1 /\ Len(log[d]) = n - 1 /\ called[d][c] \in Nat /\ called[d][c] < MaxAttempts /\ Channel(d) = c
      /\ \A i \in 1..Len(ChannelsOf(d)) : i > n => Called(d, i) = 0
  BY <1>1, <1>2 DEF Attempt, TrailOf, At, Before, Called, TypeOK, Channel
<1>4. /\ called'[d][c] = called[d][c] + 1
      /\ \A b \in Suppressible : b # c => called'[d][b] = called[d][b]
      /\ log' = log /\ feed' = feed
  BY <1>3 DEF Attempt, TypeOK
<1>5. \A i \in 1..Len(ChannelsOf(d)) : i # n => ChannelsOf(d)[i] # c /\ Called(d, i)' = Called(d, i)
  <2> SUFFICES ASSUME NEW i \in 1..Len(ChannelsOf(d)), i # n
               PROVE  ChannelsOf(d)[i] # c /\ Called(d, i)' = Called(d, i)
    OBVIOUS
  <2>1. ChannelsOf(d)[i] # c
    BY <1>2, Channels
  <2>2. i # 1 => ChannelsOf(d)[i] \in Suppressible
    BY Channels
  <2> QED
    BY <1>4, <2>1, <2>2 DEF Called
<1>6. RowsAgree(d)'
  <2> SUFFICES ASSUME NEW i \in DOMAIN log[d]
               PROVE  log[d][i][1] = ChannelsOf(d)[i] /\ Agrees(d, log[d][i][1], log[d][i][2])'
    BY <1>4 DEF RowsAgree
  <2>1. PICK channel, status : channel = log[d][i][1] /\ status = log[d][i][2]
    OBVIOUS
  <2>2. channel = ChannelsOf(d)[i] /\ Agrees(d, channel, status)
    BY <2>1 DEF RowsAgree
  <2>3. i \in 1..Len(ChannelsOf(d)) /\ i # n
    BY <1>3, LenProperties
  <2>4. channel # c /\ (channel = "in_app" \/ channel \in Suppressible)
    BY <1>5, <2>2, <2>3, Channels
  <2>5. Agrees(d, channel, status)'
    <3>1. CASE channel = "in_app"
      BY <1>4, <2>2, <3>1 DEF Agrees
    <3>2. CASE channel \in Suppressible
      <4>1. called'[d][channel] = called[d][channel]
        BY <1>4, <2>4, <3>2
      <4> QED
        BY <2>2, <3>2, <4>1 DEF Agrees, Suppressible
    <3> QED
      BY <2>4, <3>1, <3>2
  <2> QED
    BY <1>4, <2>1, <2>2, <2>5
<1>7. /\ task'[d].next = n
      /\ \/ task'[d].step = "logging" /\ task'[d].result = "sent"
         \/ called'[d][c] = MaxAttempts /\ task'[d].step = "logging" /\ task'[d].result = "failed"
         \/ called'[d][c] # MaxAttempts /\ task'[d].step = "trying"
  BY <1>1, <1>3, Settled DEF Attempt, NotificationLogStatus, At
<1>8. (At(d, "logging") => task[d].result \in NotificationLogStatus /\ Agrees(d, Channel(d), task[d].result))'
  <2>1. Channel(d)' = c
    BY <1>2, <1>7 DEF Channel
  <2>2. Agrees(d, c, "sent")'
    BY <1>3, <1>4 DEF Agrees, Suppressible
  <2>3. called'[d][c] = MaxAttempts => Agrees(d, c, "failed")'
    BY DEF Agrees, Suppressible
  <2> QED
    BY <1>7, <2>1, <2>2, <2>3 DEF At, NotificationLogStatus
<1>9. (At(d, "trying") => task[d].next > 1 /\ Called(d, task[d].next) < MaxAttempts)'
  <2>1. task'[d].step = "trying" => called'[d][c] < MaxAttempts
    <3>1. PICK k \in Nat : k = called[d][c] /\ k < MaxAttempts /\ called'[d][c] = k + 1
      BY <1>3, <1>4
    <3>2. task'[d].step = "trying" => k + 1 # MaxAttempts
      BY <1>7, <3>1
    <3> QED
      BY <3>1, <3>2
  <2>2. Called(d, n)' = called'[d][c]
    BY <1>2, <1>3 DEF Called
  <2> QED
    BY <1>3, <1>7, <2>1, <2>2 DEF At
<1>10. TrailOf(d)'
  BY <1>1, <1>3, <1>4, <1>5, <1>7, <1>8, <1>9 DEF TrailOf, At, Before
<1> QED
  BY <1>6, <1>10

LEMMA TrailLogs ==
    ASSUME Types, NEW d \in Dispatches, TrailOf(d), RowsAgree(d), WriteLog(d)
    PROVE  TrailOf(d)' /\ RowsAgree(d)'
<1> TypeOK /\ log \in [Dispatches -> Seq(Rows)]
  BY DEF Types
<1>1. PICK n \in 1..Len(ChannelsOf(d)) : n = task[d].next
  BY DEF TrailOf
<1>2. PICK channel, status : channel = Channel(d) /\ status = task[d].result
  OBVIOUS
<1>3. channel = ChannelsOf(d)[n] /\ Agrees(d, channel, status) /\ Len(log[d]) = n - 1
      /\ <<channel, status>> \in Rows
  BY <1>1, <1>2, Channels DEF WriteLog, TrailOf, At, Before, Channel, Rows
<1>4. /\ called'[d] = called[d] /\ feed' = feed
      /\ log'[d] = Append(log[d], <<channel, status>>)
  BY <1>2 DEF WriteLog
<1>5. Len(log'[d]) = n /\ log'[d][n] = <<channel, status>>
      /\ (\A i \in 1..(n - 1) : log'[d][i] = log[d][i]) /\ DOMAIN log'[d] = 1..n
  <2>1. PICK s \in Seq(Rows) : s = log[d]
    OBVIOUS
  <2>2. Append(s, <<channel, status>>) \in Seq(Rows) /\ Len(Append(s, <<channel, status>>)) = Len(s) + 1
        /\ Append(s, <<channel, status>>)[Len(s) + 1] = <<channel, status>>
        /\ \A i \in 1..Len(s) : Append(s, <<channel, status>>)[i] = s[i]
    BY <1>3, AppendProperties
  <2>3. DOMAIN Append(s, <<channel, status>>) = 1..(Len(s) + 1)
    BY <2>2, LenProperties
  <2> QED
    BY <1>3, <1>4, <2>1, <2>2, <2>3
<1>6. \A b, st : Agrees(d, b, st) => Agrees(d, b, st)'
  BY <1>4, AgreementStays
<1>7. RowsAgree(d)'
  <2> SUFFICES ASSUME NEW i \in 1..n
               PROVE  log'[d][i][1] = ChannelsOf(d)[i] /\ Agrees(d, log[d][i][1], log[d][i][2])'
    BY <1>5 DEF RowsAgree
  <2>1. CASE i = n
    BY <1>3, <1>5, <1>6, <2>1
  <2>2. CASE i \in 1..(n - 1)
    <3>1. PICK b, st : b = log[d][i][1] /\ st = log[d][i][2]
      OBVIOUS
    <3>2. i \in DOMAIN log[d]
      BY <1>3, <2>2, LenProperties
    <3>3. b = ChannelsOf(d)[i] /\ Agrees(d, b, st)
      BY <3>1, <3>2 DEF RowsAgree
    <3>4. Agrees(d, b, st)'
      BY <1>6, <3>3
    <3> QED
      BY <1>5, <2>2, <3>1, <3>3, <3>4
  <2> QED
    BY <2>1, <2>2
<1>8. \A i : Called(d, i)' = Called(d, i)
  BY <1>4 DEF Called
<1>9. IF n = Len(ChannelsOf(d))
        THEN task'[d].step = "done" /\ task'[d].next = n
        ELSE task'[d].step = "ready" /\ task'[d].next = n + 1
  BY <1>1, Logged
<1>10. \A i \in 1..Len(ChannelsOf(d)) : i > n => Called(d, i)' = 0
  BY <1>1, <1>8 DEF TrailOf
<1>11. Len(ChannelsOf(d)) \in {2, 3}
  BY Channels
<1>12. TrailOf(d)'
  <2>1. CASE n = Len(ChannelsOf(d))
    BY <1>1, <1>9, <1>10, <2>1 DEF TrailOf, At, Before
  <2>2. CASE n # Len(ChannelsOf(d))
    <3>1. n + 1 \in 1..Len(ChannelsOf(d))
      BY <1>11, <2>2
    <3> QED
      BY <1>5, <1>9, <1>10, <1>11, <2>2, <3>1 DEF TrailOf, At, Before
  <2> QED
    BY <2>1, <2>2
<1> QED
  BY <1>7, <1>12

LEMMA TrailInit == Init => TrailsAreTrue
<1> SUFFICES ASSUME Init PROVE TrailsAreTrue
  OBVIOUS
<1>1. \A d \in Dispatches : task[d] = NoTask /\ log[d] = <<>> /\ called[d] = [c \in Suppressible |-> 0]
  BY DEF Init
<1>2. ASSUME NEW d \in Dispatches PROVE TrailOf(d) /\ RowsAgree(d)
  <2>1. \A i \in 1..Len(ChannelsOf(d)) : Called(d, i) = 0
    BY <1>1, Channels DEF Called
  <2>2. 1 \in 1..Len(ChannelsOf(d)) /\ Len(log[d]) = 0 /\ DOMAIN log[d] = {}
    BY <1>1, Channels, EmptySeq
  <2>3. task[d].step = "idle" /\ task[d].next = 1
    BY <1>1, NoTaskFields
  <2> QED
    BY <2>1, <2>2, <2>3 DEF TrailOf, RowsAgree, At, Before
<1>3. RowBeforePush
  BY DEF Init, RowBeforePush
<1> QED
  BY <1>2, <1>3 DEF TrailsAreTrue

LEMMA TrailAdvance ==
    ASSUME Types, TabsInv, TrailsAreTrue, NEW d \in Dispatches, Dispatch(d) \/ Advance(d)
    PROVE  TrailsAreTrue'
<1> TypeOK /\ TrailOf(d) /\ RowsAgree(d)
  BY DEF Types, TrailsAreTrue
<1>1. TrailOf(d)' /\ RowsAgree(d)'
  BY TrailInApp, TrailDelivers, TrailTries, TrailLogs DEF Advance
<1>2. ASSUME NEW e \in Dispatches, e # d PROVE TrailOf(e)' /\ RowsAgree(e)'
  <2>1. /\ task'[e].step = task[e].step /\ task'[e].next = task[e].next
        /\ task'[e].result = task[e].result
    <3>1. CASE EndIteration(d)
      BY <1>2, <3>1, Finished
    <3>2. CASE ~EndIteration(d)
      <4>1. task'[e] = task[e]
        BY <1>2, <3>2 DEF Advance, Dispatch, Store, BeginIteration, NextTab, Write, IterationFails,
           AskPreference, Attempt, WriteLog, Move, Settle, TypeOK
      <4> QED
        BY <4>1
    <3> QED
      BY <3>1, <3>2
  <2>2. log'[e] = log[e] /\ called'[e] = called[e] /\ feed \subseteq feed'
    BY <1>2 DEF Advance, Dispatch, Store, BeginIteration, NextTab, Write, EndIteration,
       IterationFails, AskPreference, Attempt, WriteLog, Types, TypeOK
  <2>3. TrailOf(e) /\ RowsAgree(e)
    BY DEF TrailsAreTrue
  <2> QED
    BY <2>1, <2>2, <2>3, TrailStays
<1>3. RowBeforePush'
  <2>1. feed \subseteq feed' /\ \A e \in Dispatches : e # d => pushed'[e] = pushed[e]
    BY DEF Advance, Dispatch, Store, BeginIteration, NextTab, Write, EndIteration,
       IterationFails, AskPreference, Attempt, WriteLog, TypeOK
  <2>2. pushed'[d] = pushed[d] \/ d \in feed
    BY DEF Advance, Dispatch, Store, BeginIteration, NextTab, Write, EndIteration,
       IterationFails, AskPreference, Attempt, WriteLog, TrailOf, At
  <2> QED
    BY <2>1, <2>2 DEF RowBeforePush, TrailsAreTrue
<1> QED
  BY <1>1, <1>2, <1>3 DEF TrailsAreTrue

(* What a step of the tabs or of the preferences leaves.                   *)
LEMMA TrailsStand ==
    ASSUME TrailsAreTrue, UNCHANGED <<feed, pushed, called, log>>,
           \A d \in Dispatches : /\ task'[d].step = task[d].step /\ task'[d].next = task[d].next
                                 /\ task'[d].result = task[d].result
    PROVE  TrailsAreTrue'
<1>1. \A d \in Dispatches : TrailOf(d)' /\ RowsAgree(d)'
  BY TrailStays DEF TrailsAreTrue
<1>2. RowBeforePush'
  BY DEF TrailsAreTrue, RowBeforePush
<1> QED
  BY <1>1, <1>2 DEF TrailsAreTrue

NotificationsInv == Types /\ TabsInv /\ TrailsAreTrue

LEMMA Step == NotificationsInv /\ [Next]_vars => NotificationsInv'
<1> SUFFICES ASSUME NotificationsInv, [Next]_vars PROVE NotificationsInv'
  OBVIOUS
<1>0. Types /\ TabsInv /\ TrailsAreTrue /\ (\A d \in Dispatches : TrailOf(d)) /\ TabsMet
  BY DEF NotificationsInv, TabsInv, TrailsAreTrue
<1>1. CASE UNCHANGED vars
  <2>1. Types' /\ TabsInv'
    BY <1>0, <1>1 DEF Types, TypeOK, TabsInv, OpenTabsAreConnected, TabsMet, At, vars
  <2> QED
    BY <1>0, <1>1, <2>1, TrailsStand DEF vars, NotificationsInv
<1>2. ASSUME NEW t \in Tabs, Connect(t) \/ PeerGoes(t) \/ HandlerEnds(t) PROVE NotificationsInv'
  <2>1. /\ UNCHANGED <<feed, pushed, called, log>>
        /\ \A d \in Dispatches : /\ task'[d].step = task[d].step /\ task'[d].next = task[d].next
                                 /\ task'[d].result = task[d].result
    <3>1. connections \cup {t} \in SUBSET Tabs /\ connections \ {t} \in SUBSET Tabs
          /\ task \in [Dispatches -> Task]
      BY <1>0 DEF Types, TypeOK
    <3>2. CASE PeerGoes(t)
      BY <3>2 DEF PeerGoes
    <3>3. CASE Connect(t) \/ HandlerEnds(t)
      <4>1. PICK ts \in SUBSET Tabs : ChangeTo(ts, task)
        BY <3>1, <3>3 DEF Connect, HandlerEnds
      <4>2. /\ connections' = ts /\ task' \in [Dispatches -> Task]
            /\ \A d \in Dispatches :
                  /\ task'[d].step = task[d].step /\ task'[d].next = task[d].next
                  /\ task'[d].result = task[d].result /\ task'[d].current = task[d].current
                  /\ task'[d].stale = task[d].stale
                  /\ task'[d].todo \subseteq task[d].todo \cup ts
        BY <3>1, <4>1, Changed, Zenon
      <4> QED
        BY <3>3, <4>2 DEF Connect, HandlerEnds
    <3> QED
      BY <1>2, <3>2, <3>3
  <2> QED
    BY <1>0, <1>2, <2>1, TypesTabs, TabsMove, TrailsStand DEF NotificationsInv
<1>3. ASSUME NEW c \in Toggleable, SetEnabled(c) PROVE NotificationsInv'
  <2>1. UNCHANGED <<tab, connections, feed, pushed, called, log, task>>
        /\ enabled' \in [Suppressible -> BOOLEAN]
    BY <1>0, <1>3 DEF SetEnabled, Types, TypeOK
  <2>2. Types' /\ TabsInv'
    BY <1>0, <2>1 DEF Types, TypeOK, TabsInv, OpenTabsAreConnected, TabsMet, At
  <2> QED
    BY <1>0, <2>1, <2>2, TrailsStand DEF NotificationsInv
<1>4. ASSUME NEW d \in Dispatches, Dispatch(d) \/ Advance(d) PROVE NotificationsInv'
  BY <1>0, <1>4, TypesAdvance, TabsAdvance, TrailAdvance DEF NotificationsInv
<1> QED
  BY <1>1, <1>2, <1>3, <1>4 DEF Next

LEMMA NotificationsInvariant == Spec => []NotificationsInv
<1>1. Init => NotificationsInv
  BY TypesInit, TabsInit, TrailInit DEF NotificationsInv
<1> QED
  BY <1>1, Step, PTL DEF Spec

(* Every tab that is open is in the manager's set, and no tab whose        *)
(* handler ended, whatever iterates over the set (OpenTabsAreConnected;    *)
(* ConnectionManager).                                                     *)
THEOREM OpenTabsStayConnected == Spec => []OpenTabsAreConnected
<1>1. NotificationsInv => OpenTabsAreConnected
  BY DEF NotificationsInv, TabsInv
<1> QED
  BY <1>1, NotificationsInvariant, PTL

(* What a dispatch tells, tabs and audit trail alike, is already so        *)
(* (DispatchTellsTruth; NotificationService._send_one, _log,               *)
(* _send_in_app).                                                          *)
THEOREM TrailTellsTruth == Spec => []DispatchTellsTruth
<1>1. NotificationsInv => DispatchTellsTruth
  BY DEF NotificationsInv, TrailsAreTrue, RowsAgree, DispatchTellsTruth, LogIsTrue
<1> QED
  BY <1>1, NotificationsInvariant, PTL

(* Everything keeps its type.                                              *)
THEOREM TypeCorrect == Spec => []TypeOK
<1>1. NotificationsInv => TypeOK
  BY DEF NotificationsInv, Types
<1> QED
  BY <1>1, NotificationsInvariant, PTL

=============================================================================
