------------------------ MODULE WorkerDashboardProofs ------------------------
(***************************************************************************)
(* Theorems about WorkerDashboard, for any number of calls, failures and   *)
(* moves, and any trades, images, places and switches.                     *)
(***************************************************************************)
EXTENDS WorkerDashboard, SequenceTheorems, TLAPS

USE DashboardAssumption, ProfileAssumption, AccountAssumption

-----------------------------------------------------------------------------
(* Types.                                                                  *)

Fields == [name : Names, label : Labels, point : places]
Choices == [switch : Switches, on : BOOLEAN]
Updates == [changed : SUBSET {"name", "place"}, fields : Fields]

Phases == {"sent", "checked", "answered", "failed", "done"}
Args == BOOLEAN \cup Values \cup Trades \cup (SUBSET Trades) \cup Nat
        \cup Updates \cup Languages \cup Choices \cup {None}
Answers == Rows \cup (SUBSET Trades) \cup Users \cup {None}
Call == [kind : Kinds, arg : Args, before : Profiles \cup {None}, phase : Phases,
         answer : Answers, mounted : BOOLEAN]

(* What a call in flight carries.                                          *)
Carries(call) ==
    /\ call.kind \in Toggles => call.arg \in BOOLEAN /\ call.before \in Profiles
    /\ call.kind = "save" => call.arg \in Values
    /\ call.kind = "assign" => call.arg \subseteq Trades
    /\ call.kind = "upload" => call.arg \in 0 .. MaxCalls
    /\ call.kind = "account" => call.arg \in Updates
    /\ call.kind = "language" => call.arg \in Languages
    /\ call.kind = "preference" => call.arg \in Choices
(* What it has been answered.                                              *)
IsTold(call) ==
    /\ call.kind \in RowKinds /\ call.phase = "answered" => call.answer \in Rows
    /\ call.kind \in TradeKinds /\ call.phase = "answered" => call.answer \subseteq Trades
    /\ call.kind = "assign" /\ call.phase = "checked" => call.answer \subseteq Trades
    /\ call.kind \in UpdateKinds /\ call.phase = "answered" => call.answer \in Users
Fits(call) == InFlight(call) => Carries(call) /\ IsTold(call)

Calls(cs) == cs \in Seq(Call) /\ Len(cs) <= MaxCalls /\ \A c \in DOMAIN cs : Fits(cs[c])

Query(D) == [data : D \cup {None}, error : BOOLEAN, stale : BOOLEAN, missed : BOOLEAN,
             fetch : [phase : {"idle", "sent", "answered"}, answer : D \cup {None}, clean : BOOLEAN]]
IsQuery(q, D) == q \in Query(D) /\ (q.fetch.phase = "answered" => q.fetch.answer \in D)

Submission(n) == [values : Values, awaits : SUBSET (1 .. n)]
ProfileForms(n) == [fields : Values, base : Values, assigned : SUBSET Trades, pending : SUBSET Trades,
                    submit : Submission(n) \cup {None}, clean : BOOLEAN]
AccountForms == [fields : Fields, base : Fields, clean : BOOLEAN,
                 search : {"idle", "due", "asked", "listed", "relisting"}]

Images == SUBSET (0 .. MaxCalls)
Settings == [Switches -> BOOLEAN]

BoundsType == /\ place \in Tabs \cup {"away"}
              /\ faults \in Nat /\ faults <= MaxFaults /\ moves \in Nat /\ moves <= MaxMoves
ServerType == row \in Rows /\ trades \subseteq Trades /\ images \in Images
ProfileType == IsQuery(profile, Profiles) /\ crossed \in BOOLEAN
GalleryType == IsQuery(gallery, Images)
PickerType == profileForm \in ProfileForms(Len(calls)) \cup {None}
AccountType == /\ account \in Accounts /\ enabled \in Settings
               /\ user \in Users /\ language \in Languages /\ mixed \in BOOLEAN
PreferencesType == IsQuery(preferences, Settings)
AccountFormType == accountForm \in AccountForms \cup {None}

Types == /\ BoundsType /\ Calls(calls)
         /\ ServerType /\ ProfileType /\ GalleryType /\ PickerType
         /\ AccountType /\ PreferencesType /\ AccountFormType

-----------------------------------------------------------------------------
(* The calls of some kinds that are under way, and those whose effect the  *)
(* page does not know of.                                                  *)

Busy(kinds) == {c \in DOMAIN calls : calls[c].kind \in kinds /\ InFlight(calls[c])}
Unheard(kinds) == \E c \in Busy(kinds) : calls[c].phase = "answered"

-----------------------------------------------------------------------------
(* Sequences of calls.                                                     *)

LEMMA FunctionIsSeq ==
    ASSUME NEW S, NEW n \in Nat, NEW f \in [1 .. n -> S]
    PROVE  f \in Seq(S)
OBVIOUS

LEMMA CallsAre ==
    ASSUME NEW cs, Calls(cs)
    PROVE  /\ Len(cs) \in 0 .. MaxCalls /\ DOMAIN cs = 1 .. Len(cs)
           /\ \A c \in DOMAIN cs : cs[c] \in Call /\ Fits(cs[c])
BY LenProperties, ElementOfSeq DEF Calls

LEMMA NewCalls ==
    ASSUME NEW kind \in Kinds, NEW arg \in Args, NEW before \in Profiles \cup {None},
           Carries(NewCall(kind, arg, before))
    PROVE  /\ NewCall(kind, arg, before) \in Call
           /\ Fits(NewCall(kind, arg, before))
<1>1. NewCall(kind, arg, before) \in Call
  BY DEF NewCall, Call, Phases, Answers
<1>2. NewCall(kind, arg, before).phase = "sent"
  BY DEF NewCall
<1> QED
  BY <1>1, <1>2 DEF Fits, IsTold

(* Calls are sent.                                                         *)
LEMMA CallsAdded ==
    ASSUME NEW cs, Calls(cs), NEW new \in Seq(Call), \A i \in DOMAIN new : Fits(new[i]),
           Len(cs) + Len(new) <= MaxCalls, NEW ds, ds = cs \o new
    PROVE  /\ Calls(ds) /\ Len(ds) = Len(cs) + Len(new)
           /\ DOMAIN ds = 1 .. Len(cs) + Len(new)
           /\ \A c \in DOMAIN cs : ds[c] = cs[c]
           /\ \A i \in DOMAIN new : ds[Len(cs) + i] = new[i]
<1>1. Len(cs) \in Nat /\ DOMAIN cs = 1 .. Len(cs) /\ cs \in Seq(Call)
  BY CallsAre DEF Calls
<1>2. Len(new) \in Nat /\ DOMAIN new = 1 .. Len(new)
  BY LenProperties
<1>3. /\ ds \in Seq(Call) /\ Len(ds) = Len(cs) + Len(new)
      /\ \A i \in 1 .. Len(cs) + Len(new) :
            ds[i] = IF i <= Len(cs) THEN cs[i] ELSE new[i - Len(cs)]
  BY <1>1, ConcatProperties
<1>4. DOMAIN ds = 1 .. Len(cs) + Len(new)
  BY <1>3, LenProperties
<1>5. \A c \in DOMAIN cs : ds[c] = cs[c]
  BY <1>1, <1>2, <1>3
<1>6. ASSUME NEW i \in DOMAIN new PROVE ds[Len(cs) + i] = new[i] /\ Len(cs) + i \in DOMAIN ds
  BY <1>1, <1>2, <1>3, <1>4
<1>7. ASSUME NEW c \in DOMAIN ds PROVE Fits(ds[c])
  <2>1. CASE c \in DOMAIN cs
    BY <1>5, <2>1 DEF Calls
  <2>2. CASE c \notin DOMAIN cs
    <3>1. c - Len(cs) \in DOMAIN new /\ ds[c] = new[c - Len(cs)]
      BY <1>1, <1>2, <1>3, <1>4, <2>2
    <3> QED
      BY <3>1
  <2> QED
    BY <2>1, <2>2
<1> QED
  BY <1>3, <1>4, <1>5, <1>6, <1>7 DEF Calls

(* A call moves on.                                                        *)
LEMMA CallTurned ==
    ASSUME NEW cs, Calls(cs), NEW c \in DOMAIN cs, NEW call \in Call, Fits(call),
           NEW ds, ds = [cs EXCEPT ![c] = call]
    PROVE  /\ Calls(ds) /\ Len(ds) = Len(cs) /\ DOMAIN ds = DOMAIN cs
           /\ ds[c] = call /\ \A d \in DOMAIN cs : d # c => ds[d] = cs[d]
<1>1. Len(cs) \in Nat /\ DOMAIN cs = 1 .. Len(cs) /\ cs \in Seq(Call)
  BY CallsAre DEF Calls
<1>2. /\ ds \in Seq(Call) /\ Len(ds) = Len(cs)
      /\ \A d \in 1 .. Len(cs) : ds[d] = IF d = c THEN call ELSE cs[d]
  BY <1>1, ExceptSeq
<1>3. DOMAIN ds = 1 .. Len(cs)
  BY <1>2, LenProperties
<1>4. \A d \in DOMAIN ds : Fits(ds[d])
  BY <1>1, <1>2, <1>3 DEF Calls
<1> QED
  BY <1>1, <1>2, <1>3, <1>4 DEF Calls

Like(a, b) ==
    /\ a.kind = b.kind /\ a.arg = b.arg /\ a.before = b.before
    /\ a.phase = b.phase /\ a.answer = b.answer

(* Components are unmounted.                                               *)
LEMMA CallsOrphaned ==
    ASSUME NEW cs, Calls(cs), NEW visible, calls' = Orphaned(cs, visible)
    PROVE  /\ Calls(calls)' /\ DOMAIN calls' = DOMAIN cs /\ Len(calls') = Len(cs)
           /\ \A c \in DOMAIN cs :
                 /\ Like(calls'[c], cs[c])
                 /\ cs[c].mounted /\ Home(cs[c].kind) \in visible => calls'[c].mounted
<1> DEFINE n == Len(cs)
           left(c) == [cs[c] EXCEPT !.mounted = @ /\ Home(cs[c].kind) \in visible]
<1>1. n \in Nat /\ DOMAIN cs = 1 .. n /\ n <= MaxCalls
  BY CallsAre DEF Calls
<1>2. \A c \in DOMAIN cs : cs[c] \in Call /\ Fits(cs[c])
  BY CallsAre
<1>3. ASSUME NEW c \in DOMAIN cs
      PROVE  /\ left(c) \in Call /\ Like(left(c), cs[c])
             /\ cs[c].mounted /\ Home(cs[c].kind) \in visible => left(c).mounted
  <2>1. (cs[c].mounted /\ Home(cs[c].kind) \in visible) \in BOOLEAN
    OBVIOUS
  <2> QED
    BY <1>2, <2>1 DEF Call, Like
<1>4. \A c \in DOMAIN cs : Fits(left(c))
  BY <1>2, <1>3 DEF Fits, Carries, IsTold, InFlight, Like
<1>5. calls' = [c \in 1 .. n |-> left(c)]
  BY <1>1 DEF Orphaned
<1> HIDE DEF left
<1>6. calls' \in [1 .. n -> Call]
  BY <1>1, <1>3, <1>5
<1>7. calls' \in Seq(Call)
  BY <1>1, <1>6, FunctionIsSeq
<1>8. DOMAIN calls' = 1 .. n /\ Len(calls') = n
  BY <1>1, <1>6, <1>7, LenProperties
<1>9. \A c \in DOMAIN cs : calls'[c] = left(c)
  BY <1>1, <1>5
<1> QED
  BY <1>1, <1>3, <1>4, <1>7, <1>8, <1>9 DEF Calls

-----------------------------------------------------------------------------
(* What all the handlers have in common: the calls they leave are those    *)
(* they worked on, and those of a form that is still there keep it.        *)
Stays(call) ==
    /\ call.mounted
    /\ \/ call.kind \in FormKinds /\ profileForm' # None
       \/ call.kind \in AccountKinds /\ accountForm' # None
Become(cs) ==
    /\ DOMAIN calls' = DOMAIN cs /\ Len(calls') = Len(cs)
    /\ \A c \in DOMAIN cs : Like(calls'[c], cs[c]) /\ (Stays(cs[c]) => calls'[c].mounted)

ShownInv ==
    /\ profileForm # None => FormShown(Page)
    /\ accountForm # None => AccountShown

Unmounted(page) == ~FormShown(page) /\ profileForm' = None /\ gallery' = page.gallery
KeptOn(page) ==
    /\ FormShown(page) /\ page.form # None /\ gallery' = page.gallery
    /\ profileForm' = [page.form EXCEPT !.clean = @ /\ ~page.crossed]
MountedNow(page) ==
    /\ FormShown(page) /\ page.form = None /\ gallery' = Observed(page.gallery, FALSE)
    /\ profileForm' = [NewForm(page.profile.data, Idle(page.calls)) EXCEPT !.clean = @ /\ ~page.crossed]

(* A step of the profile tab that renders what its handler leaves.         *)
LEMMA Rendered ==
    ASSUME NEW page, Calls(page.calls), Render(page), RenderAccount(AccountShown')
    PROVE  /\ place' = page.place /\ profile' = page.profile /\ crossed' = page.crossed
           /\ Calls(calls)' /\ Become(page.calls) /\ ShownInv'
           /\ Unmounted(page) \/ KeptOn(page) \/ MountedNow(page)
<1>1. place' = page.place /\ profile' = page.profile /\ crossed' = page.crossed
  BY DEF Render
<1>2. calls' = Orphaned(page.calls, Visible(page))
  BY DEF Render
<1>3. /\ Calls(calls)' /\ DOMAIN calls' = DOMAIN page.calls /\ Len(calls') = Len(page.calls)
      /\ \A c \in DOMAIN page.calls :
            /\ Like(calls'[c], page.calls[c])
            /\ page.calls[c].mounted /\ Home(page.calls[c].kind) \in Visible(page) => calls'[c].mounted
  BY <1>2, CallsOrphaned
<1>4. profileForm' # None => FormShown(page)
  BY DEF Render
<1>5. accountForm' # None => AccountShown'
  BY DEF RenderAccount
<1>6. accountForm' # None => PageShown(page) /\ page.place = "account"
  BY <1>1, <1>5 DEF AccountShown, PageShown, Page
<1>7. ASSUME NEW c \in DOMAIN page.calls, Stays(page.calls[c]) PROVE calls'[c].mounted
  <2>1. CASE page.calls[c].kind \in FormKinds /\ profileForm' # None
    <3>1. Home(page.calls[c].kind) = "profile" /\ "profile" \in Visible(page)
      BY <1>4, <2>1 DEF Home, Visible, FormShown, FormKinds, GalleryKinds, AccountKinds
    <3> QED
      BY <1>3, <1>7, <3>1 DEF Stays
  <2>2. CASE page.calls[c].kind \in AccountKinds /\ accountForm' # None
    <3>1. Home(page.calls[c].kind) = "account" /\ "account" \in Visible(page)
      BY <1>6, <2>2 DEF Home, Visible, FormKinds, GalleryKinds, AccountKinds
    <3> QED
      BY <1>3, <1>7, <3>1 DEF Stays
  <2> QED
    BY <1>7, <2>1, <2>2 DEF Stays
<1>8. ShownInv'
  BY <1>1, <1>4, <1>5 DEF ShownInv, FormShown, PageShown, Page
<1>9. Unmounted(page) \/ KeptOn(page) \/ MountedNow(page)
  BY DEF Render, Unmounted, KeptOn, MountedNow
<1> QED
  BY <1>1, <1>3, <1>7, <1>8, <1>9 DEF Become

-----------------------------------------------------------------------------
(* What a step does to the calls.                                          *)

(* Those of `kinds` are still what they were.                              *)
Unturned(kinds) ==
    /\ Busy(kinds)' = Busy(kinds)
    /\ \A c \in Busy(kinds) : Like(calls'[c], calls[c]) /\ (Stays(calls[c]) => calls'[c].mounted)
(* One of them is another now, or is done.                                 *)
Turns(c, call) ==
    /\ c \in DOMAIN calls /\ DOMAIN calls' = DOMAIN calls /\ Len(calls') = Len(calls)
    /\ Like(calls'[c], call) /\ (Stays(call) => calls'[c].mounted)
    /\ \A d \in DOMAIN calls \ {c} :
          Like(calls'[d], calls[d]) /\ (Stays(calls[d]) => calls'[d].mounted)
(* New ones are sent.                                                      *)
Opens(new) ==
    /\ Len(calls) \in Nat /\ DOMAIN calls = 1 .. Len(calls)
    /\ Len(new) \in Nat /\ DOMAIN new = 1 .. Len(new)
    /\ DOMAIN calls' = 1 .. Len(calls) + Len(new) /\ Len(calls') = Len(calls) + Len(new)
    /\ \A c \in DOMAIN calls : Like(calls'[c], calls[c]) /\ (Stays(calls[c]) => calls'[c].mounted)
    /\ \A i \in DOMAIN new : /\ Like(calls'[Len(calls) + i], new[i])
                             /\ Stays(new[i]) => calls'[Len(calls) + i].mounted

LEMMA KeptUnturned ==
    ASSUME Become(calls), NEW kinds
    PROVE  Unturned(kinds)
BY DEF Become, Unturned, Busy, InFlight, Like

LEMMA BecomeTurns ==
    ASSUME Calls(calls), NEW c \in DOMAIN calls, NEW call \in Call, Fits(call),
           NEW cs, cs = [calls EXCEPT ![c] = call], Become(cs)
    PROVE  Turns(c, call)
<1>1. /\ Len(cs) = Len(calls) /\ DOMAIN cs = DOMAIN calls
      /\ cs[c] = call /\ \A d \in DOMAIN calls : d # c => cs[d] = calls[d]
  BY CallTurned
<1> QED
  BY <1>1 DEF Become, Turns

LEMMA BecomeOpens ==
    ASSUME Calls(calls), NEW new \in Seq(Call), \A i \in DOMAIN new : Fits(new[i]),
           Len(calls) + Len(new) <= MaxCalls, NEW cs, cs = calls \o new, Become(cs)
    PROVE  Opens(new)
<1>1. Len(calls) \in Nat /\ DOMAIN calls = 1 .. Len(calls)
  BY CallsAre
<1>2. Len(new) \in Nat /\ DOMAIN new = 1 .. Len(new)
  BY LenProperties
<1>3. /\ Len(cs) = Len(calls) + Len(new) /\ DOMAIN cs = 1 .. Len(calls) + Len(new)
      /\ \A c \in DOMAIN calls : cs[c] = calls[c]
      /\ \A i \in DOMAIN new : cs[Len(calls) + i] = new[i]
  BY CallsAdded
<1>4. \A c \in DOMAIN calls : c \in DOMAIN cs
  BY <1>1, <1>2, <1>3
<1>5. \A i \in DOMAIN new : Len(calls) + i \in DOMAIN cs
  BY <1>1, <1>2, <1>3
<1> QED
  BY <1>1, <1>2, <1>3, <1>4, <1>5 DEF Become, Opens

LEMMA TurnedUnturned ==
    ASSUME NEW c, NEW call, Turns(c, call), NEW kinds, calls[c].kind \notin kinds,
           call.kind = calls[c].kind
    PROVE  Unturned(kinds)
BY DEF Turns, Unturned, Busy, InFlight, Like

LEMMA OpenedUnturned ==
    ASSUME NEW new, Opens(new), NEW kinds, \A i \in DOMAIN new : new[i].kind \notin kinds
    PROVE  Unturned(kinds)
<1>1. ASSUME NEW c \in DOMAIN calls' PROVE c \in DOMAIN calls \/ calls'[c].kind \notin kinds
  <2>1. CASE c \notin DOMAIN calls
    <3>1. c - Len(calls) \in DOMAIN new /\ Len(calls) + (c - Len(calls)) = c
      BY <2>1 DEF Opens
    <3> QED
      BY <3>1 DEF Opens, Like
  <2> QED
    BY <2>1
<1>2. \A c \in DOMAIN calls : c \in DOMAIN calls'
  BY DEF Opens
<1>3. \A c \in DOMAIN calls : Like(calls'[c], calls[c]) /\ (Stays(calls[c]) => calls'[c].mounted)
  BY DEF Opens
<1> QED
  BY <1>1, <1>2, <1>3 DEF Unturned, Busy, InFlight, Like

LEMMA UnturnedSubset ==
    ASSUME NEW kinds, Unturned(kinds), NEW some, some \subseteq kinds
    PROVE  Unturned(some)
<1>1. ASSUME NEW c \in Busy(kinds) PROVE c \in DOMAIN calls /\ c \in DOMAIN calls' /\ Like(calls'[c], calls[c])
  BY DEF Unturned, Busy
<1>2. \A c : c \in Busy(some)' <=> c \in Busy(kinds)' /\ calls'[c].kind \in some
  BY DEF Busy
<1>3. \A c : c \in Busy(some) <=> c \in Busy(kinds) /\ calls[c].kind \in some
  BY DEF Busy
<1>4. \A c : c \in Busy(some)' <=> c \in Busy(some)
  BY <1>1, <1>2, <1>3 DEF Unturned, Like
<1> QED
  BY <1>3, <1>4 DEF Unturned

-----------------------------------------------------------------------------
(* Queries.  The data of one that every change invalidates is the truth,   *)
(* or it will be fetched, or something went wrong.                         *)

FreshIsTrue(q, truth) ==
    ~q.missed =>
        /\ q.fetch.phase = "answered" => q.fetch.answer = truth
        /\ q.fetch.phase = "idle" /\ ~q.error /\ q.data # None /\ ~q.stale => q.data = truth
ShownIsTrue(q, truth) ==
    ~q.missed =>
        /\ q.fetch.phase = "answered" => q.fetch.answer = truth
        /\ q.fetch.phase = "idle" /\ ~q.error /\ q.data # None => q.data = truth

LEMMA QueryStarted ==
    ASSUME NEW D, NEW q, IsQuery(q, D), NEW clean \in BOOLEAN, NEW r, r = StartFetch(q, clean)
    PROVE  /\ IsQuery(r, D) /\ r.data = q.data /\ r.stale = q.stale
           /\ r.fetch.phase = "sent" /\ r.fetch.clean = clean
           /\ r.error => q.error
<1>1. (q.error /\ q.data # None) \in BOOLEAN
  BY DEF IsQuery, Query
<1> QED
  BY <1>1 DEF IsQuery, Query, StartFetch

LEMMA QueryObserved ==
    ASSUME NEW D, NEW q, IsQuery(q, D), NEW clean \in BOOLEAN, NEW r, r = Observed(q, clean)
    PROVE  /\ IsQuery(r, D) /\ r.data = q.data
           /\ \A truth : FreshIsTrue(q, truth) => FreshIsTrue(r, truth) /\ ShownIsTrue(r, truth)
<1>1. CASE q.fetch.phase = "idle" /\ (q.data = None \/ q.stale)
  BY <1>1, QueryStarted DEF Observed, FreshIsTrue, ShownIsTrue
<1>2. CASE ~(q.fetch.phase = "idle" /\ (q.data = None \/ q.stale))
  BY <1>2 DEF Observed, FreshIsTrue, ShownIsTrue, IsQuery, Query
<1> QED
  BY <1>1, <1>2

LEMMA QueryInvalidated ==
    ASSUME NEW D, NEW q, IsQuery(q, D), NEW looking \in BOOLEAN, NEW r, r = Invalidated(q, looking)
    PROVE  /\ IsQuery(r, D)
           /\ \A truth : FreshIsTrue(r, truth) /\ (looking => ShownIsTrue(r, truth))
<1>1. CASE looking /\ (q.data # None \/ q.fetch.phase = "idle")
  <2> DEFINE s == StartFetch(q, FALSE)
  <2>1. r = [s EXCEPT !.stale = TRUE]
    BY <1>1 DEF Invalidated
  <2>2. (q.error /\ q.data # None) \in BOOLEAN
    OBVIOUS
  <2>3. IsQuery(s, D) /\ s.fetch.phase = "sent"
    BY <2>2 DEF StartFetch, IsQuery, Query
  <2> HIDE DEF s
  <2> QED
    BY <2>1, <2>3 DEF IsQuery, Query, FreshIsTrue, ShownIsTrue
<1>2. CASE ~(looking /\ (q.data # None \/ q.fetch.phase = "idle"))
  <2>1. (q.missed \/ q.fetch.phase # "idle") \in BOOLEAN
    OBVIOUS
  <2>2. r = [q EXCEPT !.stale = TRUE, !.missed = q.missed \/ q.fetch.phase # "idle"]
    BY <1>2 DEF Invalidated
  <2>3. r.stale /\ (q.fetch.phase # "idle" => r.missed) /\ r.fetch = q.fetch /\ r.data = q.data
    BY <2>1, <2>2, Zenon DEF IsQuery, Query
  <2>4. IsQuery(r, D)
    BY <2>1, <2>2 DEF IsQuery, Query
  <2> QED
    BY <1>2, <2>3, <2>4 DEF FreshIsTrue, ShownIsTrue
<1> QED
  BY <1>1, <1>2

LEMMA QueryAnswered ==
    ASSUME NEW D, NEW q, IsQuery(q, D), NEW truth \in D, NEW r, r = Answered(q, truth)
    PROVE  /\ IsQuery(r, D) /\ FreshIsTrue(r, truth) /\ ShownIsTrue(r, truth)
           /\ r.data = q.data /\ r.fetch.clean = q.fetch.clean /\ r.error = q.error
           /\ r.fetch.phase = "answered" /\ r.fetch.answer = truth
BY DEF IsQuery, Query, Answered, FreshIsTrue, ShownIsTrue

LEMMA QueryReceived ==
    ASSUME NEW D, NEW q, IsQuery(q, D), q.fetch.phase = "answered", NEW r, r = Received(q)
    PROVE  /\ IsQuery(r, D) /\ r.data = q.fetch.answer /\ r.data \in D /\ r.fetch.phase = "idle"
           /\ \A truth : FreshIsTrue(q, truth) => FreshIsTrue(r, truth) /\ ShownIsTrue(r, truth)
BY DEF IsQuery, Query, Received, NoFetch, FreshIsTrue, ShownIsTrue

LEMMA QueryFailed ==
    ASSUME NEW D, NEW q, IsQuery(q, D), NEW r, r = FetchFailed(q)
    PROVE  /\ IsQuery(r, D) /\ r.data = q.data /\ r.fetch.phase = "idle"
           /\ \A truth : FreshIsTrue(r, truth) /\ ShownIsTrue(r, truth)
BY DEF IsQuery, Query, FetchFailed, NoFetch, FreshIsTrue, ShownIsTrue

LEMMA QueryMissed ==
    ASSUME NEW D, NEW q, IsQuery(q, D), NEW also \in BOOLEAN, NEW r, r = [q EXCEPT !.missed = q.missed \/ also]
    PROVE  /\ IsQuery(r, D) /\ r.data = q.data
           /\ \A truth : (also \/ FreshIsTrue(q, truth)) => FreshIsTrue(r, truth)
           /\ \A truth : (also \/ ShownIsTrue(q, truth)) => ShownIsTrue(r, truth)
<1>1. (q.missed \/ also) \in BOOLEAN
  OBVIOUS
<1> QED
  BY <1>1 DEF IsQuery, Query, FreshIsTrue, ShownIsTrue

LEMMA QueryAged ==
    ASSUME NEW D, NEW q, IsQuery(q, D), NEW r, r = [q EXCEPT !.stale = q.data # None]
    PROVE  /\ IsQuery(r, D) /\ r.data = q.data /\ r.fetch = q.fetch /\ r.error = q.error
           /\ \A truth : FreshIsTrue(q, truth) => FreshIsTrue(r, truth)
           /\ \A truth : ShownIsTrue(q, truth) => ShownIsTrue(r, truth)
<1>1. (q.data # None) \in BOOLEAN
  OBVIOUS
<1> QED
  BY <1>1 DEF IsQuery, Query, FreshIsTrue, ShownIsTrue

LEMMA QueryWritten ==
    ASSUME NEW D, NEW q, IsQuery(q, D), NEW data \in D, NEW r, r = SetData(q, data)
    PROVE  IsQuery(r, D) /\ r.data = data /\ r.fetch = q.fetch
BY DEF IsQuery, Query, SetData

-----------------------------------------------------------------------------
(* The inductive invariant: the account tab.                               *)

(* With one update under way, the user on the screen is the account as it  *)
(* was before that update committed, and the answer is what it is since.   *)
UpdateTold(call) ==
    /\ call.phase # "answered" => user = Read(account)
    /\ call.phase = "answered" => call.answer = Read(account)
    /\ call.kind = "account" => user.language = account.language /\ language = user.language
    /\ call.kind = "language" =>
          /\ call.phase # "failed" /\ call.arg # user.language
          /\ user.name = account.name /\ user.label = account.label
          /\ call.phase = "answered" => account.language = call.arg
LanguageInv ==
    ~mixed =>
        /\ \A c, d \in Busy(UpdateKinds) : c = d
        /\ Busy(UpdateKinds) = {} => user = Read(account) /\ language = user.language
        /\ \A c \in Busy(UpdateKinds) : UpdateTold(calls[c])

(* A clean form's updates will be answered to it, and what it did not send *)
(* is the user's.                                                          *)
SentByForm(call) ==
    /\ call.mounted
    /\ "name" \notin call.arg.changed => call.arg.fields.name = user.name
    /\ "place" \notin call.arg.changed => call.arg.fields.label = user.label
    /\ call.phase = "answered" => /\ call.arg.fields.name = account.name
                                  /\ call.arg.fields.label = account.label
FormInv ==
    accountForm # None /\ accountForm.clean =>
        /\ ~mixed
        /\ accountForm.base.name = user.name /\ accountForm.base.label = user.label
        /\ \A c \in Busy({"account"}) : SentByForm(calls[c])

PointOK(fields) == fields.point # None => fields.point = fields.label
PointInv ==
    /\ PointIsTheLabels
    /\ \A c \in Busy({"account"}) : IsValid(calls[c].arg.fields) /\ PointOK(calls[c].arg.fields)

PreferencesInv ==
    ~Unheard({"preference"}) => /\ FreshIsTrue(preferences, enabled)
                                /\ accountForm # None => ShownIsTrue(preferences, enabled)

AccountInv == LanguageInv /\ FormInv /\ PointInv /\ PreferencesInv

-----------------------------------------------------------------------------
(* The inductive invariant: the profile tab.                               *)

(* A fetch that will be believed crosses no call.                          *)
FetchInv ==
    profile.fetch.phase # "idle" /\ (profile.fetch.clean \/ ~crossed) =>
        /\ Busy(ProfileKinds) = {}
        /\ profile.fetch.phase = "answered" => profile.fetch.answer = [row |-> row, trades |-> trades]
DataInv == Busy(ProfileKinds) # {} => profile.data # None

(* Calls that cross nothing: one for each part of the profile, and a switch *)
(* that is rolled back restores both parts.                                *)
OneEach ==
    /\ \A c, d \in Busy(RowKinds) : c = d
    /\ \A c, d \in Busy(TradeKinds) : c = d
    /\ Busy(Toggles) = {} \/ Busy(TradeKinds) = {}
(* No call's answer or failure will change what the cache has.             *)
Settled(kinds) == \A c \in Busy(kinds) : calls[c].kind \notin Toggles /\ calls[c].phase # "answered"
RowKnown ==
    /\ profile.data # None /\ Settled(RowKinds) => profile.data.row = row
    /\ \A c \in Busy(RowKinds) : calls[c].phase = "answered" => calls[c].answer = row
TradesKnown ==
    /\ profile.data # None /\ Settled(TradeKinds) => profile.data.trades = trades
    /\ \A c \in Busy(TradeKinds) : calls[c].phase = "answered" => calls[c].answer = trades
Undoes ==
    \A c \in Busy(Toggles) : /\ calls[c].before.trades = trades
                             /\ calls[c].phase # "answered" => calls[c].before.row = row
CacheInv == ~crossed => OneEach /\ RowKnown /\ TradesKnown /\ Undoes

(* The picker hears of every list of trades before it counts as at rest.   *)
PickerInv ==
    profileForm # None /\ profileForm.clean =>
        /\ ~crossed
        /\ \A c \in Busy(TradeKinds) : calls[c].mounted
        /\ Settled(TradeKinds) => profileForm.assigned = trades

GalleryInv ==
    ~Unheard(GalleryKinds) => /\ FreshIsTrue(gallery, images)
                              /\ profileForm # None => ShownIsTrue(gallery, images)

ProfileInv == FetchInv /\ DataInv /\ CacheInv /\ PickerInv /\ GalleryInv

IInv == Types /\ ShownInv /\ AccountInv /\ ProfileInv

-----------------------------------------------------------------------------
(* Each tab's steps leave the other tab's part of the invariant alone.     *)

OnAccount == AccountKinds \cup {"language"}
OnProfile == ProfileKinds \cup GalleryKinds

LEMMA KindsAre ==
    /\ Kinds = OnAccount \cup OnProfile
    /\ UpdateKinds \subseteq OnAccount /\ {"account"} \subseteq UpdateKinds /\ {"preference"} \subseteq OnAccount
    /\ {"account"} \subseteq OnAccount
    /\ \A kind \in OnAccount : kind \notin OnProfile
    /\ ProfileKinds \subseteq OnProfile /\ GalleryKinds \subseteq OnProfile
    /\ RowKinds \subseteq ProfileKinds /\ TradeKinds \subseteq ProfileKinds /\ Toggles \subseteq ProfileKinds
    /\ RowKinds \subseteq OnProfile /\ TradeKinds \subseteq OnProfile /\ Toggles \subseteq OnProfile
    /\ TradeKinds \subseteq FormKinds /\ Toggles \subseteq RowKinds
    /\ \A kind \in ProfileKinds : (kind \in RowKinds <=> kind \notin TradeKinds) /\ kind \notin GalleryKinds
BY DEF Kinds, OnAccount, OnProfile, UpdateKinds, AccountKinds, ProfileKinds, GalleryKinds, RowKinds,
       TradeKinds, Toggles, FormKinds

LEMMA AccountTabKept ==
    ASSUME AccountInv, AccountType, PreferencesType, AccountFormType,
           RenderAccount(AccountShown'), Unturned(OnAccount)
    PROVE  AccountInv' /\ AccountType' /\ PreferencesType' /\ AccountFormType'
<1>1. UNCHANGED <<account, enabled, user, language, mixed>>
  BY DEF RenderAccount
<1>2. Unturned(UpdateKinds) /\ Unturned({"account"}) /\ Unturned({"preference"})
  BY UnturnedSubset, KindsAre
<1>3. AccountType'
  BY <1>1 DEF AccountType
<1>4. LanguageInv'
  BY <1>1, <1>2 DEF AccountInv, LanguageInv, UpdateTold, Unturned, Like
<1>5. \/ accountForm' = None
      \/ accountForm # None /\ accountForm' = accountForm
      \/ accountForm = None /\ accountForm' = NewAccountForm
  BY DEF RenderAccount
<1>6. /\ NewFields \in Fields /\ NewFields.name = user.name /\ NewFields.label = user.label
      /\ NewFields.point = None
  BY DEF NewFields, Fields, AccountType, Users, Labels, places
<1>7. NewAccountForm.clean \in BOOLEAN /\ (NewAccountForm.clean => ~mixed /\ Busy(UpdateKinds) = {})
  BY DEF NewAccountForm, AccountType, Underway, Busy
<1>8. /\ NewAccountForm \in AccountForms
      /\ NewAccountForm.fields = NewFields /\ NewAccountForm.base = NewFields
  <2>1. (~mixed /\ ~Underway(UpdateKinds)) \in BOOLEAN
    OBVIOUS
  <2> HIDE DEF NewFields
  <2> QED
    BY <1>6, <2>1 DEF NewAccountForm, AccountForms
<1>9. AccountFormType'
  BY <1>5, <1>8 DEF AccountFormType
<1>10. FormInv'
  <2>1. CASE accountForm # None /\ accountForm' = accountForm
    BY <1>1, <1>2, <2>1 DEF AccountInv, FormInv, SentByForm, Unturned, Like, Stays, AccountKinds, Busy
  <2>2. CASE accountForm' = NewAccountForm
    <3>1. Busy({"account"}) \subseteq Busy(UpdateKinds)
      BY DEF Busy, UpdateKinds
    <3> QED
      BY <1>1, <1>2, <1>6, <1>7, <1>8, <2>2, <3>1 DEF FormInv, Unturned
  <2> QED
    BY <1>5, <2>1, <2>2 DEF FormInv
<1>11. PointInv'
  <2>1. PointIsTheLabels'
    BY <1>1, <1>5, <1>6, <1>8 DEF AccountInv, PointInv, PointIsTheLabels
  <2> QED
    BY <1>2, <2>1 DEF AccountInv, PointInv, Unturned, Like, IsValid, PointOK
<1>12. Unheard({"preference"})' <=> Unheard({"preference"})
  BY <1>2 DEF Unheard, Unturned, Like
<1>13. PreferencesInv' /\ PreferencesType'
  <2>1. CASE AccountShown' /\ accountForm = None
    <3>1. preferences' = Observed(preferences, FALSE)
      BY <2>1 DEF RenderAccount
    <3>2. /\ IsQuery(preferences', Settings)
          /\ FreshIsTrue(preferences, enabled)
             => FreshIsTrue(preferences', enabled) /\ ShownIsTrue(preferences', enabled)
      BY <3>1, QueryObserved DEF PreferencesType
    <3> QED
      BY <1>1, <1>12, <3>2 DEF AccountInv, PreferencesInv, PreferencesType
  <2>2. CASE ~(AccountShown' /\ accountForm = None)
    <3>1. preferences' = preferences /\ (accountForm' # None => accountForm # None)
      BY <2>2 DEF RenderAccount
    <3> QED
      BY <1>1, <1>12, <3>1 DEF AccountInv, PreferencesInv, PreferencesType, FreshIsTrue, ShownIsTrue
  <2> QED
    BY <2>1, <2>2
<1> QED
  BY <1>3, <1>4, <1>9, <1>10, <1>11, <1>13 DEF AccountInv

LEMMA ProfileTabKept ==
    ASSUME ProfileInv, UNCHANGED profileVars, Unturned(OnProfile)
    PROVE  ProfileInv'
<1>1. UNCHANGED <<row, trades, images, profile, gallery, profileForm, crossed>>
  BY DEF profileVars, server
<1>2. /\ Unturned(ProfileKinds) /\ Unturned(RowKinds) /\ Unturned(TradeKinds) /\ Unturned(Toggles)
      /\ Unturned(GalleryKinds)
  BY UnturnedSubset, KindsAre
<1>3. FetchInv' /\ DataInv'
  BY <1>1, <1>2 DEF ProfileInv, FetchInv, DataInv, Unturned
<1>4. Settled(RowKinds)' <=> Settled(RowKinds)
  BY <1>2 DEF Settled, Unturned, Like
<1>5. Settled(TradeKinds)' <=> Settled(TradeKinds)
  BY <1>2 DEF Settled, Unturned, Like
<1>6. CacheInv'
  BY <1>1, <1>2, <1>4, <1>5 DEF ProfileInv, CacheInv, OneEach, RowKnown, TradesKnown, Undoes, Unturned, Like
<1>7. PickerInv'
  BY <1>1, <1>2, <1>5, KindsAre DEF ProfileInv, PickerInv, Unturned, Stays, Like, Busy
<1>8. GalleryInv'
  <2>1. Unheard(GalleryKinds)' <=> Unheard(GalleryKinds)
    BY <1>2 DEF Unheard, Unturned, Like
  <2> QED
    BY <1>1, <2>1 DEF ProfileInv, GalleryInv, FreshIsTrue, ShownIsTrue
<1> QED
  BY <1>3, <1>6, <1>7, <1>8 DEF ProfileInv

-----------------------------------------------------------------------------
(* Steps of the account tab.                                               *)

AccountTypes == AccountType /\ PreferencesType /\ AccountFormType

LEMMA AccountStep ==
    ASSUME IInv, UNCHANGED profileVars, place' = place, Unturned(OnProfile),
           Calls(calls)', Len(calls') >= Len(calls), accountForm' # None => accountForm # None,
           BoundsType', AccountTypes', AccountInv'
    PROVE  IInv'
<1>1. UNCHANGED <<row, trades, images, profile, gallery, profileForm, crossed>>
  BY DEF profileVars, server
<1>2. ProfileInv'
  BY ProfileTabKept DEF IInv
<1>3. ServerType' /\ ProfileType' /\ GalleryType'
  BY <1>1 DEF IInv, Types, ServerType, ProfileType, GalleryType, IsQuery
<1>4. PickerType'
  <2>1. Len(calls) \in Nat /\ Len(calls') \in Nat
    BY LenProperties DEF IInv, Types, Calls
  <2>2. 1 .. Len(calls) \subseteq 1 .. Len(calls')
    BY <2>1
  <2>3. ProfileForms(Len(calls)) \subseteq ProfileForms(Len(calls'))
    BY <2>2 DEF ProfileForms, Submission
  <2> QED
    BY <1>1, <2>3 DEF IInv, Types, PickerType
<1>5. ShownInv'
  BY <1>1 DEF IInv, ShownInv, AccountShown, FormShown, PageShown, Page
<1> QED
  BY <1>2, <1>3, <1>4, <1>5 DEF IInv, Types, AccountTypes

LEMMA CallsAsTheyAre ==
    ASSUME NEW cs, calls' = cs
    PROVE  Become(cs)
BY DEF Become, Like, Stays

LEMMA LanguageKept ==
    ASSUME LanguageInv, UNCHANGED <<account, user, language, mixed>>, Unturned(UpdateKinds)
    PROVE  LanguageInv'
BY DEF LanguageInv, UpdateTold, Unturned, Like

LEMMA FormKept ==
    ASSUME FormInv, UNCHANGED <<account, user>>, Unturned({"account"}),
           accountForm' # None /\ accountForm'.clean =>
              /\ accountForm # None /\ accountForm.clean /\ (mixed' => mixed)
              /\ accountForm'.base = accountForm.base
    PROVE  FormInv'
BY DEF FormInv, SentByForm, Unturned, Like, Stays, AccountKinds, Busy

LEMMA PointKept ==
    ASSUME PointInv, UNCHANGED account, Unturned({"account"}),
           accountForm' # None => PointOK(accountForm'.fields)
    PROVE  PointInv'
BY DEF PointInv, PointIsTheLabels, PointOK, Unturned, Like, IsValid

LEMMA PreferencesKept ==
    ASSUME PreferencesInv, UNCHANGED <<preferences, enabled>>, Unturned({"preference"}),
           accountForm' # None => accountForm # None
    PROVE  PreferencesInv'
<1>1. Unheard({"preference"})' <=> Unheard({"preference"})
  BY DEF Unheard, Unturned, Like
<1> QED
  BY <1>1 DEF PreferencesInv, FreshIsTrue, ShownIsTrue

(* Typing, picking a place, its suggestions.                               *)
FormEdited ==
    /\ accountForm # None /\ accountForm' \in AccountForms
    /\ accountForm'.base = accountForm.base /\ accountForm'.clean = accountForm.clean
    /\ PointOK(accountForm'.fields)
    /\ UNCHANGED <<account, enabled, user, language, preferences, mixed, place, calls, faults>>
    /\ moves' \in Nat /\ moves' <= MaxMoves

LEMMA EditKeeps ==
    ASSUME IInv, FormEdited, UNCHANGED profileVars
    PROVE  IInv'
<1>1. UNCHANGED <<account, enabled, user, language, preferences, mixed, place, calls, faults>>
  BY DEF FormEdited
<1>2. Become(calls)
  BY <1>1, CallsAsTheyAre
<1>3. Unturned(UpdateKinds) /\ Unturned({"account"}) /\ Unturned({"preference"}) /\ Unturned(OnProfile)
  BY <1>2, KeptUnturned
<1>4. AccountInv'
  BY <1>1, <1>3, LanguageKept, FormKept, PointKept, PreferencesKept DEF IInv, AccountInv, FormEdited
<1>5. AccountTypes' /\ BoundsType'
  BY <1>1 DEF FormEdited, IInv, Types, AccountTypes, AccountType, PreferencesType, IsQuery,
       AccountFormType, BoundsType
<1>6. Calls(calls)' /\ Len(calls') >= Len(calls)
  BY <1>1, LenProperties DEF IInv, Types, Calls
<1> QED
  BY <1>1, <1>3, <1>4, <1>5, <1>6, AccountStep DEF FormEdited

LEMMA FormOf ==
    ASSUME IInv, accountForm # None
    PROVE  /\ accountForm \in AccountForms /\ PointOK(accountForm.fields)
           /\ accountForm.fields \in Fields /\ accountForm.base \in Fields
           /\ moves \in Nat /\ moves <= MaxMoves
BY DEF IInv, Types, AccountFormType, AccountForms, AccountInv, PointInv, PointIsTheLabels, PointOK, BoundsType

LEMMA EditsAreEdits ==
    ASSUME IInv,
           \/ \E name \in Names : TypeName(name)
           \/ HandleQueryChange \/ Debounce \/ Suggest \/ HandleClear
           \/ \E p \in Places : HandleSelect(p)
    PROVE  FormEdited
<1>1. ASSUME NEW name \in Names, TypeName(name) PROVE FormEdited
  BY <1>1, FormOf DEF TypeName, Typing, FormEdited, AccountForms, Fields, PointOK
<1>2. ASSUME HandleQueryChange PROVE FormEdited
  <2> DEFINE fields == [accountForm.fields EXCEPT !.label = "typed", !.point = None]
             search == IF accountForm.search \in {"listed", "relisting"} THEN "relisting" ELSE "due"
  <2>1. fields \in Fields /\ PointOK(fields)
    BY <1>2, FormOf DEF HandleQueryChange, Fields, PointOK, Labels, places
  <2>2. /\ accountForm' = [accountForm EXCEPT !.search = search, !.fields = fields]
        /\ UNCHANGED <<account, enabled, user, language, preferences, mixed, place, calls, faults>>
        /\ accountForm # None /\ moves < MaxMoves /\ moves' = moves + 1
    BY <1>2 DEF HandleQueryChange, Search
  <2>3. search \in {"relisting", "due"}
    OBVIOUS
  <2> HIDE DEF fields, search
  <2>4. accountForm \in AccountForms /\ moves \in Nat
    BY <2>2, FormOf
  <2>5. /\ accountForm' \in AccountForms /\ accountForm'.fields = fields
        /\ accountForm'.base = accountForm.base /\ accountForm'.clean = accountForm.clean
    BY <2>1, <2>2, <2>3, <2>4 DEF AccountForms
  <2> QED
    BY <2>1, <2>2, <2>4, <2>5 DEF FormEdited, PointOK
<1>3. ASSUME Debounce PROVE FormEdited
  BY <1>3, FormOf DEF Debounce, Search, FormEdited, AccountForms, Fields, PointOK
<1>4. ASSUME Suggest PROVE FormEdited
  BY <1>4, FormOf DEF Suggest, Search, FormEdited, AccountForms, Fields, PointOK
<1>5. ASSUME HandleClear PROVE FormEdited
  BY <1>5, FormOf DEF HandleClear, Search, FormEdited, AccountForms, Fields, PointOK, Labels, places
<1>6. ASSUME NEW p \in Places, HandleSelect(p) PROVE FormEdited
  BY <1>6, FormOf DEF HandleSelect, Search, FormEdited, AccountForms, Fields, PointOK, Labels, places
<1> QED
  BY <1>1, <1>2, <1>3, <1>4, <1>5, <1>6

(* The query of the preferences.                                           *)
LEMMA FetchKeeps ==
    ASSUME IInv, AnswerPreferences \/ ReceivePreferences \/ PreferencesFail, UNCHANGED profileVars
    PROVE  IInv'
<1>1. UNCHANGED <<account, enabled, user, language, accountForm, mixed, place, calls, moves>>
  BY DEF AnswerPreferences, ReceivePreferences, PreferencesFail
<1>2. Become(calls)
  BY <1>1, CallsAsTheyAre
<1>3. Unturned(UpdateKinds) /\ Unturned({"account"}) /\ Unturned({"preference"}) /\ Unturned(OnProfile)
  BY <1>2, KeptUnturned
<1>4. IsQuery(preferences, Settings) /\ enabled \in Settings
  BY DEF IInv, Types, PreferencesType, AccountType
<1>5. /\ IsQuery(preferences', Settings)
      /\ FreshIsTrue(preferences, enabled) =>
            FreshIsTrue(preferences', enabled) /\ ShownIsTrue(preferences', enabled)
  <2>1. CASE AnswerPreferences
    BY <1>4, <2>1, QueryAnswered DEF AnswerPreferences
  <2>2. CASE ReceivePreferences
    BY <1>4, <2>2, QueryReceived DEF ReceivePreferences
  <2>3. CASE PreferencesFail
    BY <1>4, <2>3, QueryFailed DEF PreferencesFail
  <2> QED
    BY <2>1, <2>2, <2>3
<1>6. Unheard({"preference"})' <=> Unheard({"preference"})
  BY <1>3 DEF Unheard, Unturned, Like
<1>7. PreferencesInv'
  BY <1>1, <1>5, <1>6 DEF IInv, AccountInv, PreferencesInv
<1>8. accountForm # None => PointOK(accountForm.fields)
  BY FormOf
<1>9. AccountInv'
  BY <1>1, <1>3, <1>7, <1>8, LanguageKept, FormKept, PointKept DEF IInv, AccountInv
<1>10. AccountTypes' /\ BoundsType'
  BY <1>1, <1>5 DEF AnswerPreferences, ReceivePreferences, PreferencesFail, IInv, Types, AccountTypes,
       AccountType, PreferencesType, AccountFormType, BoundsType
<1>11. Calls(calls)' /\ Len(calls') >= Len(calls)
  BY <1>1, LenProperties DEF IInv, Types, Calls
<1> QED
  BY <1>1, <1>3, <1>9, <1>10, <1>11, AccountStep

LEMMA CallAppended ==
    ASSUME Calls(calls), NEW call \in Call, Fits(call), CanSend(1), calls' = Append(calls, call)
    PROVE  /\ Calls(calls)' /\ Len(calls') >= Len(calls) /\ Opens(<<call>>)
<1>1. <<call>> \in Seq(Call) /\ Len(<<call>>) = 1 /\ \A i \in DOMAIN <<call>> : Fits(<<call>>[i])
  OBVIOUS
<1>2. Len(calls) \in Nat /\ calls \in Seq(Call)
  BY CallsAre DEF Calls
<1>3. calls' = calls \o <<call>>
  BY <1>1, <1>2, AppendIsConcat
<1>4. Len(calls) + Len(<<call>>) <= MaxCalls
  BY <1>1 DEF CanSend
<1>5. Calls(calls)' /\ Len(calls') = Len(calls) + 1
  BY <1>1, <1>3, <1>4, CallsAdded DEF Calls
<1>6. PICK cs : cs = calls \o <<call>>
  OBVIOUS
<1>7. Become(cs)
  BY <1>3, <1>6, CallsAsTheyAre
<1>8. Opens(<<call>>)
  BY <1>1, <1>4, <1>6, <1>7, BecomeOpens
<1> QED
  BY <1>2, <1>5, <1>8

LEMMA OneOpened ==
    ASSUME NEW call, Opens(<<call>>), call.phase = "sent", NEW kinds
    PROVE  LET n == Len(calls) + 1
           IN  /\ n \notin Busy(kinds) /\ n \in DOMAIN calls'
               /\ Busy(kinds)' = IF call.kind \in kinds THEN Busy(kinds) \cup {n} ELSE Busy(kinds)
               /\ \A c \in Busy(kinds) : Like(calls'[c], calls[c]) /\ (Stays(calls[c]) => calls'[c].mounted)
               /\ Like(calls'[n], call) /\ (Stays(call) => calls'[n].mounted)
<1> DEFINE n == Len(calls) + 1
<1>1. Len(<<call>>) = 1 /\ <<call>>[1] = call
  OBVIOUS
<1>2. /\ Len(calls) \in Nat /\ DOMAIN calls = 1 .. Len(calls)
      /\ DOMAIN calls' = 1 .. n
      /\ \A c \in DOMAIN calls : Like(calls'[c], calls[c]) /\ (Stays(calls[c]) => calls'[c].mounted)
      /\ Like(calls'[n], call) /\ (Stays(call) => calls'[n].mounted)
  BY <1>1 DEF Opens
<1>3. n \notin DOMAIN calls /\ DOMAIN calls' = DOMAIN calls \cup {n}
  BY <1>2
<1>4. \A c : c \in Busy(kinds)' <=> c \in Busy(kinds) \/ (c = n /\ call.kind \in kinds)
  BY <1>2, <1>3 DEF Busy, InFlight, Like
<1> QED
  BY <1>2, <1>3, <1>4 DEF Busy

LEMMA OneTurned ==
    ASSUME NEW c, NEW call, Turns(c, call), call.kind = calls[c].kind, NEW kinds
    PROVE  /\ call.kind \in kinds /\ call.phase # "done" /\ calls[c].phase # "done"
              => Busy(kinds)' = Busy(kinds) /\ c \in Busy(kinds)
           /\ call.phase = "done" => Busy(kinds)' = Busy(kinds) \ {c}
           /\ \A d \in Busy(kinds) \ {c} :
                 Like(calls'[d], calls[d]) /\ (Stays(calls[d]) => calls'[d].mounted)
           /\ Like(calls'[c], call) /\ (Stays(call) => calls'[c].mounted)
BY DEF Turns, Busy, InFlight, Like

LEMMA CallMoved ==
    ASSUME Calls(calls), NEW c \in DOMAIN calls, NEW call \in Call, Fits(call),
           calls' = [calls EXCEPT ![c] = call]
    PROVE  Calls(calls)' /\ Len(calls') >= Len(calls) /\ Turns(c, call)
<1>1. PICK cs : cs = [calls EXCEPT ![c] = call]
  OBVIOUS
<1>2. Become(cs)
  BY <1>1, CallsAsTheyAre
<1>3. Turns(c, call)
  BY <1>1, <1>2, BecomeTurns
<1>4. Calls(calls)' /\ Len(calls') = Len(calls)
  BY CallTurned DEF Calls
<1> QED
  BY <1>3, <1>4, CallsAre

(* An update is sent, by the form or by the language switcher.             *)
LEMMA NewUpdate ==
    ASSUME NEW kind \in UpdateKinds, NEW arg, kind = "account" => arg \in Updates,
           kind = "language" => arg \in Languages, NEW call, call = NewCall(kind, arg, None)
    PROVE  /\ call \in Call /\ Fits(call) /\ call.kind = kind /\ call.arg = arg
           /\ call.phase = "sent" /\ call.mounted
<1>1. kind \in Kinds /\ kind \in {"account", "language"}
  BY KindsAre DEF UpdateKinds
<1>2. arg \in Args
  BY <1>1 DEF Args
<1>3. Carries(NewCall(kind, arg, None))
  BY <1>1 DEF NewCall, Carries, Toggles
<1> QED
  BY <1>1, <1>2, <1>3, NewCalls DEF NewCall

LEMMA UpdateSent ==
    ASSUME IInv, NEW kind \in UpdateKinds, NEW arg, kind = "account" => arg \in Updates,
           kind = "language" => arg \in Languages,
           SendUpdate(kind, arg), accountForm' = Soiled(accountForm)
    PROVE  /\ Calls(calls)' /\ Len(calls') >= Len(calls) /\ mixed' \in BOOLEAN
           /\ \E call : /\ call.kind = kind /\ call.arg = arg /\ call.phase = "sent" /\ call.mounted
                        /\ Opens(<<call>>)
           /\ mixed' = (mixed \/ Busy(UpdateKinds) # {})
           /\ AccountFormType' /\ (accountForm' # None => accountForm # None)
           /\ accountForm # None => accountForm'.fields = accountForm.fields
           /\ accountForm' # None /\ accountForm'.clean =>
                 /\ accountForm # None /\ accountForm.clean /\ ~mixed'
                 /\ accountForm'.base = accountForm.base
<1>1. PICK call : call = NewCall(kind, arg, None)
  OBVIOUS
<1>2. /\ call \in Call /\ Fits(call) /\ call.kind = kind /\ call.arg = arg
      /\ call.phase = "sent" /\ call.mounted
  BY <1>1, NewUpdate
<1>3. calls' = Append(calls, call) /\ CanSend(1) /\ mixed' = (mixed \/ Underway(UpdateKinds))
  BY <1>1 DEF SendUpdate
<1>4. Calls(calls)' /\ Len(calls') >= Len(calls) /\ Opens(<<call>>)
  BY <1>2, <1>3, CallAppended DEF IInv, Types
<1>5. Underway(UpdateKinds) <=> Busy(UpdateKinds) # {}
  BY DEF Underway, Busy
<1>6. mixed' = (mixed \/ Busy(UpdateKinds) # {}) /\ mixed' \in BOOLEAN
  BY <1>3, <1>5
<1>7. accountForm \in AccountForms \cup {None}
  BY DEF IInv, Types, AccountFormType
<1>8. /\ AccountFormType' /\ (accountForm' # None => accountForm # None)
      /\ accountForm # None => accountForm'.fields = accountForm.fields
  BY <1>7 DEF Soiled, AccountFormType, AccountForms
<1>9. accountForm' # None /\ accountForm'.clean =>
         /\ accountForm # None /\ accountForm.clean /\ ~mixed'
         /\ accountForm'.base = accountForm.base
  <2>1. CASE accountForm # None /\ mixed'
    BY <1>7, <2>1 DEF Soiled, AccountForms
  <2>2. CASE ~(accountForm # None /\ mixed')
    BY <2>2, <1>8 DEF Soiled
  <2> QED
    BY <2>1, <2>2
<1> QED
  BY <1>2, <1>4, <1>6, <1>8, <1>9

(* What a newly sent update must fit for the language to stay tracked.     *)
LEMMA LanguageSent ==
    ASSUME LanguageInv, NEW call, Opens(<<call>>), call.kind \in UpdateKinds, call.phase = "sent",
           mixed' = (mixed \/ Busy(UpdateKinds) # {}), UNCHANGED <<account, user>>,
           call.kind = "account" => UNCHANGED language,
           call.kind = "language" => call.arg # user.language
    PROVE  LanguageInv'
<1>1. PICK n : /\ n \notin Busy(UpdateKinds) /\ Busy(UpdateKinds)' = Busy(UpdateKinds) \cup {n}
               /\ Like(calls'[n], call)
  BY OneOpened
<1> SUFFICES ASSUME ~mixed' PROVE LanguageInv'
  BY DEF LanguageInv
<1>2. Busy(UpdateKinds)' = {n} /\ ~mixed /\ Busy(UpdateKinds) = {}
  BY <1>1
<1>3. user = Read(account) /\ language = user.language
  BY <1>2 DEF LanguageInv
<1>4. UpdateTold(calls[n])'
  BY <1>1, <1>3 DEF UpdateTold, Like, Read
<1> QED
  BY <1>2, <1>4 DEF LanguageInv

LEMMA SubmitAccountKeeps ==
    ASSUME IInv, SubmitAccount, UNCHANGED profileVars
    PROVE  IInv'
<1> DEFINE fields == accountForm.fields
<1>1. /\ UNCHANGED <<account, enabled, user, language, preferences, place, faults, moves>>
      /\ accountForm # None /\ IsValid(fields)
  BY DEF SubmitAccount
<1>2. /\ accountForm \in AccountForms /\ fields \in Fields /\ PointOK(fields)
  BY <1>1, FormOf
<1>3. BoundsType' /\ PreferencesType'
  BY <1>1 DEF IInv, Types, BoundsType, PreferencesType, IsQuery
<1>4. CASE Changed(fields) = {}
  <2>1. /\ accountForm' = [accountForm EXCEPT !.base = fields]
        /\ UNCHANGED <<calls, mixed>>
    BY <1>4 DEF SubmitAccount
  <2>2. Become(calls)
    BY <2>1, CallsAsTheyAre
  <2>3. Unturned(UpdateKinds) /\ Unturned({"account"}) /\ Unturned({"preference"}) /\ Unturned(OnProfile)
    BY <2>2, KeptUnturned
  <2>4. fields.name = user.name /\ fields.label = user.label
    BY <1>4 DEF Changed
  <2>5. /\ accountForm' \in AccountForms /\ accountForm'.clean = accountForm.clean
        /\ accountForm'.base = fields /\ accountForm'.fields = fields
    BY <1>2, <2>1 DEF AccountForms
  <2>6. FormInv'
    BY <1>1, <2>1, <2>3, <2>4, <2>5
    DEF IInv, AccountInv, FormInv, SentByForm, Unturned, Like, Stays, AccountKinds, Busy
  <2>7. AccountInv'
    BY <1>1, <1>2, <2>1, <2>3, <2>5, <2>6, LanguageKept, PointKept, PreferencesKept DEF IInv, AccountInv, PointOK
  <2>8. AccountTypes'
    BY <1>1, <1>3, <2>1, <2>5 DEF IInv, Types, AccountTypes, AccountType, AccountFormType
  <2>9. Calls(calls)' /\ Len(calls') >= Len(calls)
    BY <2>1, LenProperties DEF IInv, Types, Calls
  <2> QED
    BY <1>1, <1>3, <2>3, <2>7, <2>8, <2>9, AccountStep
<1>5. CASE Changed(fields) # {}
  <2> DEFINE arg == [changed |-> Changed(fields), fields |-> fields]
  <2>1. SendUpdate("account", arg) /\ accountForm' = Soiled(accountForm)
    BY <1>5 DEF SubmitAccount
  <2>2. arg \in Updates /\ arg.changed = Changed(fields) /\ arg.fields = fields
    BY <1>2 DEF Updates, Changed
  <2> HIDE DEF arg
  <2>3. "account" \in UpdateKinds /\ "account" # "language"
    BY DEF UpdateKinds
  <2>4. /\ Calls(calls)' /\ Len(calls') >= Len(calls) /\ mixed' \in BOOLEAN
        /\ \E call : /\ call.kind = "account" /\ call.arg = arg /\ call.phase = "sent" /\ call.mounted
                     /\ Opens(<<call>>)
        /\ mixed' = (mixed \/ Busy(UpdateKinds) # {})
        /\ AccountFormType' /\ (accountForm' # None => accountForm # None)
        /\ accountForm # None => accountForm'.fields = accountForm.fields
        /\ accountForm' # None /\ accountForm'.clean =>
              /\ accountForm # None /\ accountForm.clean /\ ~mixed'
              /\ accountForm'.base = accountForm.base
    BY <2>1, <2>2, <2>3, UpdateSent
  <2>5. PICK call : /\ call.kind = "account" /\ call.arg = arg /\ call.phase = "sent" /\ call.mounted
                    /\ Opens(<<call>>)
    BY <2>4
  <2>6. PICK n : /\ n \notin Busy({"account"}) /\ Busy({"account"})' = Busy({"account"}) \cup {n}
                 /\ \A c \in Busy({"account"}) : Like(calls'[c], calls[c])
                 /\ Like(calls'[n], call) /\ (Stays(call) => calls'[n].mounted)
    BY <2>5, OneOpened
  <2>7. Unturned({"preference"}) /\ Unturned(OnProfile)
    BY <2>5, OpenedUnturned DEF OnProfile, ProfileKinds, Toggles, FormKinds, GalleryKinds
  <2>8. LanguageInv'
    BY <1>1, <2>3, <2>4, <2>5, LanguageSent DEF IInv, AccountInv
  <2>9. FormInv'
    <3> SUFFICES ASSUME accountForm' # None, accountForm'.clean PROVE FormInv'
      BY DEF FormInv
    <3>1. ~mixed /\ ~mixed' /\ Busy(UpdateKinds) = {}
      BY <2>4
    <3>2. Busy({"account"})' = {n}
      BY <2>6, <3>1 DEF Busy, UpdateKinds
    <3>3. /\ "name" \notin Changed(fields) => fields.name = user.name
          /\ "place" \notin Changed(fields) => fields.label = user.label
      BY DEF Changed
    <3>4. calls'[n].mounted
      BY <2>5, <2>6 DEF Stays, AccountKinds
    <3>5. SentByForm(calls[n])'
      BY <1>1, <2>2, <2>5, <2>6, <3>3, <3>4 DEF SentByForm, Like
    <3> QED
      BY <1>1, <2>4, <3>1, <3>2, <3>5 DEF IInv, AccountInv, FormInv
  <2>10. PointInv'
    <3>1. PointIsTheLabels'
      BY <1>1, <1>2, <2>4 DEF IInv, AccountInv, PointInv, PointIsTheLabels, PointOK
    <3>2. ASSUME NEW c \in Busy({"account"})
          PROVE  IsValid(calls'[c].arg.fields) /\ PointOK(calls'[c].arg.fields)
      BY <2>6 DEF IInv, AccountInv, PointInv, PointOK, Like, IsValid
    <3>3. IsValid(calls'[n].arg.fields) /\ PointOK(calls'[n].arg.fields)
      BY <1>1, <1>2, <2>2, <2>5, <2>6 DEF PointOK, Like, IsValid
    <3> QED
      BY <2>6, <3>1, <3>2, <3>3 DEF PointInv, IsValid, PointOK
  <2>11. AccountInv'
    BY <1>1, <2>4, <2>7, <2>8, <2>9, <2>10, PreferencesKept DEF IInv, AccountInv
  <2>12. AccountTypes'
    BY <1>1, <1>3, <2>4 DEF IInv, Types, AccountTypes, AccountType
  <2> QED
    BY <1>1, <1>3, <2>4, <2>7, <2>11, <2>12, AccountStep
<1> QED
  BY <1>4, <1>5

LEMMA ChangeLanguageKeeps ==
    ASSUME IInv, NEW l \in Languages, ChangeLanguage(l), UNCHANGED profileVars
    PROVE  IInv'
<1>1. /\ UNCHANGED <<account, enabled, user, preferences, place, faults, moves>>
      /\ language' = l /\ accountForm' = Soiled(accountForm)
  BY DEF ChangeLanguage
<1>2. accountForm # None => PointOK(accountForm.fields)
  BY FormOf
<1>3. BoundsType' /\ PreferencesType'
  BY <1>1 DEF IInv, Types, BoundsType, PreferencesType, IsQuery
<1>4. CASE user.language = l
  <2>1. UNCHANGED <<calls, mixed>>
    BY <1>4 DEF ChangeLanguage
  <2>2. Become(calls)
    BY <2>1, CallsAsTheyAre
  <2>3. Unturned(UpdateKinds) /\ Unturned({"account"}) /\ Unturned({"preference"}) /\ Unturned(OnProfile)
    BY <2>2, KeptUnturned
  <2>4. LanguageInv'
    BY <1>1, <1>4, <2>1, <2>3 DEF IInv, AccountInv, LanguageInv, UpdateTold, Unturned, Like
  <2>5. /\ AccountFormType' /\ (accountForm' # None => accountForm # None)
        /\ accountForm # None => accountForm'.fields = accountForm.fields
        /\ accountForm # None => accountForm'.base = accountForm.base
        /\ accountForm # None /\ accountForm'.clean => accountForm.clean
    BY <1>1, <2>1 DEF Soiled, IInv, Types, AccountFormType, AccountForms
  <2>6. FormInv'
    BY <1>1, <2>1, <2>3, <2>5, FormKept DEF IInv, AccountInv
  <2>7. AccountInv'
    BY <1>1, <1>2, <2>1, <2>3, <2>4, <2>5, <2>6, PointKept, PreferencesKept DEF IInv, AccountInv, PointOK
  <2>8. AccountTypes'
    BY <1>1, <1>3, <2>1, <2>5 DEF IInv, Types, AccountTypes, AccountType
  <2>9. Calls(calls)' /\ Len(calls') >= Len(calls)
    BY <2>1, LenProperties DEF IInv, Types, Calls
  <2> QED
    BY <1>1, <1>3, <2>3, <2>5, <2>7, <2>8, <2>9, AccountStep
<1>5. CASE user.language # l
  <2>1. SendUpdate("language", l)
    BY <1>5 DEF ChangeLanguage
  <2>2. "language" \in UpdateKinds /\ "language" # "account"
    BY DEF UpdateKinds
  <2>3. /\ Calls(calls)' /\ Len(calls') >= Len(calls) /\ mixed' \in BOOLEAN
        /\ \E call : /\ call.kind = "language" /\ call.arg = l /\ call.phase = "sent" /\ call.mounted
                     /\ Opens(<<call>>)
        /\ mixed' = (mixed \/ Busy(UpdateKinds) # {})
        /\ AccountFormType' /\ (accountForm' # None => accountForm # None)
        /\ accountForm # None => accountForm'.fields = accountForm.fields
        /\ accountForm' # None /\ accountForm'.clean =>
              /\ accountForm # None /\ accountForm.clean /\ ~mixed'
              /\ accountForm'.base = accountForm.base
    BY <1>1, <2>1, <2>2, UpdateSent
  <2>4. PICK call : call.kind = "language" /\ call.arg = l /\ call.phase = "sent" /\ Opens(<<call>>)
    BY <2>3
  <2>5. Unturned({"account"}) /\ Unturned({"preference"}) /\ Unturned(OnProfile)
    BY <2>4, OpenedUnturned DEF OnProfile, ProfileKinds, Toggles, FormKinds, GalleryKinds
  <2>6. LanguageInv'
    BY <1>1, <1>5, <2>2, <2>3, <2>4, LanguageSent DEF IInv, AccountInv
  <2>7. FormInv'
    BY <1>1, <2>3, <2>5, FormKept DEF IInv, AccountInv
  <2>8. AccountInv'
    BY <1>1, <1>2, <2>3, <2>5, <2>6, <2>7, PointKept, PreferencesKept DEF IInv, AccountInv, PointOK
  <2>9. AccountTypes'
    BY <1>1, <1>3, <2>3 DEF IInv, Types, AccountTypes, AccountType
  <2> QED
    BY <1>1, <1>3, <2>3, <2>5, <2>8, <2>9, AccountStep
<1> QED
  BY <1>4, <1>5

(* Of the tab only the calls and the query of the preferences change.      *)
LEMMA UpdatesKept ==
    ASSUME AccountInv, AccountFormType, UNCHANGED <<account, user, language, mixed, accountForm>>,
           Unturned(UpdateKinds)
    PROVE  LanguageInv' /\ FormInv' /\ PointInv'
<1>1. Unturned({"account"})
  BY UnturnedSubset, KindsAre
<1>2. accountForm # None => PointOK(accountForm.fields)
  BY DEF AccountInv, PointInv, PointIsTheLabels, PointOK
<1> QED
  BY <1>1, <1>2, LanguageKept, FormKept, PointKept DEF AccountInv

LEMMA UpdatePreferenceKeeps ==
    ASSUME IInv, NEW s \in Switches, UpdatePreference(s), UNCHANGED profileVars
    PROVE  IInv'
<1>1. /\ UNCHANGED <<account, enabled, user, language, preferences, accountForm, mixed, place, faults, moves>>
      /\ preferences.data # None /\ CanSend(1)
  BY DEF UpdatePreference, accountVars
<1>2. PICK arg : arg = [switch |-> s, on |-> ~preferences.data[s]]
  OBVIOUS
<1>3. PICK call : call = NewCall("preference", arg, None)
  OBVIOUS
<1>4. preferences.data \in Settings
  BY <1>1 DEF IInv, Types, PreferencesType, IsQuery, Query
<1>5. arg \in Choices
  BY <1>2, <1>4 DEF Choices, Settings
<1>6. /\ call \in Call /\ Fits(call) /\ call.kind = "preference" /\ call.phase = "sent"
  <2>1. Carries(call)
    BY <1>3, <1>5 DEF NewCall, Carries, Toggles
  <2>2. arg \in Args /\ "preference" \in Kinds
    BY <1>5 DEF Args, Kinds, AccountKinds
  <2> QED
    BY <1>3, <2>1, <2>2, NewCalls DEF NewCall
<1>7. Calls(calls)' /\ Len(calls') >= Len(calls) /\ Opens(<<call>>)
  BY <1>1, <1>2, <1>3, <1>6, CallAppended DEF UpdatePreference, IInv, Types
<1>8. Unturned(UpdateKinds) /\ Unturned(OnProfile)
  BY <1>6, <1>7, OpenedUnturned DEF OnProfile, ProfileKinds, Toggles, FormKinds, GalleryKinds, UpdateKinds
<1>9. Unheard({"preference"})' <=> Unheard({"preference"})
  BY <1>6, <1>7, OneOpened DEF Unheard, Like
<1>10. PreferencesInv'
  BY <1>1, <1>9 DEF IInv, AccountInv, PreferencesInv, FreshIsTrue, ShownIsTrue
<1>11. AccountInv'
  BY <1>1, <1>8, <1>10, UpdatesKept DEF IInv, Types, AccountInv
<1>12. AccountTypes' /\ BoundsType'
  BY <1>1 DEF IInv, Types, AccountTypes, AccountType, PreferencesType, IsQuery, AccountFormType, BoundsType
<1> QED
  BY <1>1, <1>7, <1>8, <1>11, <1>12, AccountStep

(* A call of the tab is one it sent.                                       *)
LEMMA CallOf ==
    ASSUME IInv, NEW c \in DOMAIN calls, NEW phase \in Phases, NEW call,
           call = [calls[c] EXCEPT !.phase = phase]
    PROVE  /\ calls[c] \in Call /\ Fits(calls[c])
           /\ call \in Call /\ call.kind = calls[c].kind /\ call.arg = calls[c].arg
           /\ call.before = calls[c].before /\ call.answer = calls[c].answer
           /\ call.mounted = calls[c].mounted /\ call.phase = phase
<1>1. calls[c] \in Call /\ Fits(calls[c])
  BY CallsAre DEF IInv, Types
<1> QED
  BY <1>1 DEF Call

LEMMA CallDone ==
    ASSUME IInv, NEW c \in DOMAIN calls, NEW call, call = Done(calls[c])
    PROVE  /\ calls[c] \in Call /\ Fits(calls[c])
           /\ call \in Call /\ Fits(call) /\ call.kind = calls[c].kind /\ call.phase = "done"
<1>1. calls[c] \in Call /\ Fits(calls[c])
  BY CallsAre DEF IInv, Types
<1>2. calls[c].kind \in Kinds
  BY <1>1 DEF Call
<1>3. /\ call.kind = calls[c].kind /\ call.phase = "done"
      /\ call = [kind |-> calls[c].kind, arg |-> None, before |-> None, phase |-> "done",
                 answer |-> None, mounted |-> FALSE]
  BY DEF Done, NewCall
<1> QED
  BY <1>1, <1>2, <1>3 DEF Call, Fits, InFlight, Args, Phases, Answers

(* A call that commits, fails or is received turns, and no other.          *)
LEMMA TurnKeepsProfile ==
    ASSUME IInv, NEW c \in DOMAIN calls, calls[c].kind \in OnAccount, NEW call \in Call, Fits(call),
           call.kind = calls[c].kind, calls' = [calls EXCEPT ![c] = call]
    PROVE  /\ Calls(calls)' /\ Len(calls') >= Len(calls) /\ Turns(c, call) /\ Unturned(OnProfile)
<1>1. Calls(calls)' /\ Len(calls') >= Len(calls) /\ Turns(c, call)
  BY CallMoved DEF IInv, Types
<1> QED
  BY <1>1, TurnedUnturned, KindsAre

LEMMA CommitPreferenceKeeps ==
    ASSUME IInv, NEW c \in DOMAIN calls, CommitPreference(c), UNCHANGED profileVars
    PROVE  IInv'
<1>1. /\ UNCHANGED <<account, user, language, preferences, accountForm, mixed, place, faults, moves>>
      /\ calls[c].kind = "preference" /\ calls[c].phase = "sent"
      /\ enabled' = [enabled EXCEPT ![calls[c].arg.switch] = calls[c].arg.on]
  BY DEF CommitPreference
<1>2. PICK call : call = [calls[c] EXCEPT !.phase = "answered"]
  OBVIOUS
<1>3. /\ calls[c] \in Call /\ Fits(calls[c]) /\ call \in Call /\ call.kind = "preference"
      /\ call.arg = calls[c].arg /\ call.phase = "answered"
  BY <1>1, <1>2, CallOf DEF Phases
<1>4. calls[c].arg \in Choices
  BY <1>1, <1>3 DEF Fits, InFlight, Carries
<1>5. Fits(call)
  BY <1>3, <1>4 DEF Fits, Carries, IsTold, Toggles, RowKinds, TradeKinds, UpdateKinds
<1>6. calls' = [calls EXCEPT ![c] = call]
  BY <1>2 DEF CommitPreference
<1>7. Calls(calls)' /\ Len(calls') >= Len(calls) /\ Turns(c, call) /\ Unturned(OnProfile)
  BY <1>1, <1>3, <1>5, <1>6, TurnKeepsProfile, KindsAre
<1>8. Unturned(UpdateKinds)
  BY <1>1, <1>3, <1>7, TurnedUnturned DEF UpdateKinds
<1>9. Unheard({"preference"})'
  BY <1>1, <1>3, <1>7, OneTurned DEF Unheard, Like
<1>10. AccountInv'
  BY <1>1, <1>8, <1>9, UpdatesKept DEF IInv, Types, AccountInv, PreferencesInv
<1>11. enabled' \in Settings
  BY <1>1, <1>4 DEF Settings, Choices, IInv, Types, AccountType
<1>12. AccountTypes' /\ BoundsType'
  BY <1>1, <1>11 DEF IInv, Types, AccountTypes, AccountType, PreferencesType, IsQuery, AccountFormType, BoundsType
<1> QED
  BY <1>1, <1>7, <1>10, <1>12, AccountStep

LEMMA ReceivePreferenceKeeps ==
    ASSUME IInv, NEW c \in DOMAIN calls, ReceivePreference(c), UNCHANGED profileVars
    PROVE  IInv'
<1>1. /\ UNCHANGED <<account, enabled, user, language, accountForm, mixed, place, faults, moves>>
      /\ calls[c].kind = "preference" /\ calls[c].phase \in {"answered", "failed"}
  BY DEF ReceivePreference
<1>2. PICK call : call = Done(calls[c])
  OBVIOUS
<1>3. call \in Call /\ Fits(call) /\ call.kind = "preference" /\ call.phase = "done"
  BY <1>1, <1>2, CallDone
<1>4. calls' = [calls EXCEPT ![c] = call]
  BY <1>2 DEF ReceivePreference
<1>5. Calls(calls)' /\ Len(calls') >= Len(calls) /\ Turns(c, call) /\ Unturned(OnProfile)
  BY <1>1, <1>3, <1>4, TurnKeepsProfile, KindsAre
<1>6. Unturned(UpdateKinds)
  BY <1>1, <1>3, <1>5, TurnedUnturned DEF UpdateKinds
<1>7. IsQuery(preferences, Settings)
  BY DEF IInv, Types, PreferencesType
<1>8. IsQuery(preferences', Settings) /\ PreferencesInv'
  <2>1. CASE calls[c].phase = "answered"
    <3>1. preferences' = Invalidated(preferences, accountForm # None)
      BY <2>1 DEF ReceivePreference
    <3>2. (accountForm # None) \in BOOLEAN
      OBVIOUS
    <3>3. /\ IsQuery(preferences', Settings)
          /\ \A truth : FreshIsTrue(preferences', truth)
                         /\ (accountForm # None => ShownIsTrue(preferences', truth))
      BY <1>7, <3>1, <3>2, QueryInvalidated
    <3> QED
      BY <1>1, <3>3 DEF PreferencesInv
  <2>2. CASE calls[c].phase = "failed"
    <3>1. preferences' = preferences
      BY <2>2 DEF ReceivePreference
    <3>2. Unheard({"preference"}) => Unheard({"preference"})'
      BY <1>1, <1>3, <1>5, <2>2, OneTurned DEF Unheard, Like
    <3> QED
      BY <1>1, <1>7, <3>1, <3>2 DEF IInv, AccountInv, PreferencesInv, FreshIsTrue, ShownIsTrue
  <2> QED
    BY <1>1, <2>1, <2>2
<1>9. AccountInv'
  BY <1>1, <1>6, <1>8, UpdatesKept DEF IInv, Types, AccountInv
<1>10. AccountTypes' /\ BoundsType'
  BY <1>1, <1>8 DEF IInv, Types, AccountTypes, AccountType, PreferencesType, AccountFormType, BoundsType
<1> QED
  BY <1>1, <1>5, <1>9, <1>10, AccountStep

(* Updates that do not overlap are one at a time.                          *)
LEMMA SoleUpdate ==
    ASSUME LanguageInv, ~mixed, NEW c \in Busy(UpdateKinds)
    PROVE  /\ Busy(UpdateKinds) = {c} /\ UpdateTold(calls[c])
           /\ \A d \in Busy({"account"}) : d = c
BY DEF LanguageInv, Busy, UpdateKinds

LEMMA Patched ==
    ASSUME NEW a \in Accounts, NEW call, call.kind \in UpdateKinds, Carries(call),
           call.kind = "account" => IsValid(call.arg.fields) /\ PointOK(call.arg.fields),
           a.point # None => a.point = a.label, NEW b, b = Patch(a, call)
    PROVE  /\ b \in Accounts /\ Read(b) \in Users /\ (b.point # None => b.point = b.label)
           /\ call.kind = "language" => b.language = call.arg /\ b.name = a.name /\ b.label = a.label
           /\ call.kind = "account" =>
                 /\ b.language = a.language
                 /\ b.name = IF "name" \in call.arg.changed THEN call.arg.fields.name ELSE a.name
                 /\ b.label = IF "place" \in call.arg.changed THEN call.arg.fields.label ELSE a.label
<1>1. CASE call.kind = "language"
  <2>1. b = [a EXCEPT !.language = call.arg, !.point = None] /\ call.arg \in Languages
    BY <1>1 DEF Patch, Carries
  <2> QED
    BY <1>1, <2>1 DEF Accounts, Read, Users, places
<1>2. CASE call.kind = "account"
  <2> DEFINE fields == call.arg.fields
             name == IF "name" \in call.arg.changed THEN fields.name ELSE a.name
             label == IF "place" \in call.arg.changed THEN fields.label ELSE a.label
             point == IF "place" \in call.arg.changed THEN fields.point ELSE None
  <2>1. b = [a EXCEPT !.name = name, !.label = label, !.point = point]
    BY <1>2 DEF Patch
  <2>2. fields \in Fields
    BY <1>2 DEF Carries, Updates
  <2>3. fields.label \in places
    BY <1>2, <2>2 DEF IsValid, PointOK, Fields, places
  <2>4. name \in Names /\ label \in places /\ point \in places /\ (point # None => point = label)
    BY <1>2, <2>2, <2>3 DEF Fields, Accounts, PointOK, places
  <2>5. /\ b \in Accounts /\ b.name = name /\ b.label = label /\ b.point = point
        /\ b.language = a.language
    <3> HIDE DEF name, label, point
    <3> QED
      BY <2>1, <2>4 DEF Accounts
  <2>6. Read(b) \in Users
    BY <2>5 DEF Accounts, Read, Users
  <2> QED
    BY <1>2, <2>4, <2>5, <2>6
<1> QED
  BY <1>1, <1>2 DEF UpdateKinds

LEMMA CommitUpdateKeeps ==
    ASSUME IInv, NEW c \in DOMAIN calls, CommitUpdate(c), UNCHANGED profileVars
    PROVE  IInv'
<1>1. /\ UNCHANGED <<enabled, user, language, preferences, accountForm, mixed, place, faults, moves>>
      /\ calls[c].kind \in UpdateKinds /\ calls[c].phase = "sent"
      /\ account' = Patch(account, calls[c])
  BY DEF CommitUpdate
<1>2. c \in Busy(UpdateKinds) /\ InFlight(calls[c]) /\ (calls[c].kind = "account" => c \in Busy({"account"}))
  BY <1>1 DEF Busy, InFlight
<1>3. /\ account \in Accounts /\ (account.point # None => account.point = account.label)
      /\ Fits(calls[c]) /\ Carries(calls[c])
  BY <1>2, CallsAre DEF IInv, Types, AccountType, AccountInv, PointInv, PointIsTheLabels, Fits
<1>4. calls[c].kind = "account" => IsValid(calls[c].arg.fields) /\ PointOK(calls[c].arg.fields)
  BY <1>2 DEF IInv, AccountInv, PointInv, PointOK, IsValid
<1>5. /\ account' \in Accounts /\ Read(account') \in Users
      /\ (account'.point # None => account'.point = account'.label)
      /\ calls[c].kind = "language" => /\ account'.language = calls[c].arg
                                       /\ account'.name = account.name /\ account'.label = account.label
      /\ calls[c].kind = "account" =>
            /\ account'.language = account.language
            /\ account'.name = IF "name" \in calls[c].arg.changed THEN calls[c].arg.fields.name ELSE account.name
            /\ account'.label = IF "place" \in calls[c].arg.changed THEN calls[c].arg.fields.label ELSE account.label
  BY <1>1, <1>3, <1>4, Patched
<1>6. PICK call : call = [calls[c] EXCEPT !.phase = "answered", !.answer = Read(account')]
  OBVIOUS
<1>7. /\ calls[c] \in Call /\ call \in Call /\ call.kind = calls[c].kind /\ call.arg = calls[c].arg
      /\ call.before = calls[c].before /\ call.answer = Read(account')
      /\ call.mounted = calls[c].mounted /\ call.phase = "answered"
  <2>1. PICK answer : answer = Read(account')
    OBVIOUS
  <2>2. answer \in Answers /\ "answered" \in Phases
    BY <1>5, <2>1 DEF Answers, Phases
  <2>3. call = [calls[c] EXCEPT !.phase = "answered", !.answer = answer]
    BY <1>6, <2>1
  <2>4. /\ calls[c] \in Call /\ call \in Call /\ call.kind = calls[c].kind /\ call.arg = calls[c].arg
        /\ call.before = calls[c].before /\ call.answer = answer
        /\ call.mounted = calls[c].mounted /\ call.phase = "answered"
    <3>1. calls[c] \in Call
      BY CallsAre DEF IInv, Types
    <3> QED
      BY <2>2, <2>3, <3>1 DEF Call
  <2> QED
    BY <2>1, <2>4
<1>8. Fits(call)
  BY <1>1, <1>3, <1>5, <1>7 DEF Fits, Carries, IsTold, Toggles, RowKinds, TradeKinds, UpdateKinds
<1>9. calls' = [calls EXCEPT ![c] = call]
  BY <1>6 DEF CommitUpdate
<1>10. Calls(calls)' /\ Len(calls') >= Len(calls) /\ Turns(c, call) /\ Unturned(OnProfile)
  BY <1>1, <1>7, <1>8, <1>9, TurnKeepsProfile, KindsAre
<1>11. /\ Busy(UpdateKinds)' = Busy(UpdateKinds) /\ Busy({"account"})' = Busy({"account"})
       /\ \A d \in Busy(UpdateKinds) \ {c} : Like(calls'[d], calls[d])
       /\ \A d \in Busy({"account"}) \ {c} : Like(calls'[d], calls[d])
       /\ Like(calls'[c], call) /\ calls'[c].mounted = calls[c].mounted
  <2>1. calls'[c] = call
    BY <1>9, CallsAre DEF IInv, Types
  <2> QED
    BY <1>1, <1>7, <1>10, <2>1, OneTurned DEF Turns, Busy, InFlight, Like
<1>12. Unturned({"preference"})
  BY <1>1, <1>7, <1>10, TurnedUnturned DEF UpdateKinds
<1>13. LanguageInv'
  <2> SUFFICES ASSUME ~mixed PROVE LanguageInv'
    BY <1>1 DEF LanguageInv
  <2>1. Busy(UpdateKinds) = {c} /\ UpdateTold(calls[c])
    BY <1>2, SoleUpdate DEF IInv, AccountInv
  <2>2. UpdateTold(calls[c])'
    BY <1>1, <1>5, <1>7, <1>11, <2>1 DEF UpdateTold, Like, Read
  <2> QED
    BY <1>11, <2>1, <2>2 DEF LanguageInv
<1>14. FormInv'
  <2> SUFFICES ASSUME accountForm # None, accountForm.clean PROVE FormInv'
    BY <1>1 DEF FormInv
  <2>1. /\ ~mixed /\ accountForm.base.name = user.name /\ accountForm.base.label = user.label
        /\ \A d \in Busy({"account"}) : SentByForm(calls[d])
    BY DEF IInv, AccountInv, FormInv
  <2>2. UpdateTold(calls[c]) /\ \A d \in Busy({"account"}) : d = c
    BY <1>2, <2>1, SoleUpdate DEF IInv, AccountInv
  <2>3. user = Read(account)
    BY <1>1, <2>2 DEF UpdateTold
  <2>4. ASSUME c \in Busy({"account"}) PROVE SentByForm(calls[c])'
    <3>1. SentByForm(calls[c]) /\ calls[c].kind = "account"
      BY <2>1, <2>4 DEF Busy
    <3> QED
      BY <1>1, <1>5, <1>7, <1>11, <2>3, <3>1 DEF SentByForm, Like, Read
  <2> QED
    BY <1>1, <1>11, <2>1, <2>2, <2>4 DEF FormInv
<1>15. PointInv'
  <2>1. PointIsTheLabels'
    BY <1>1, <1>5 DEF IInv, AccountInv, PointInv, PointIsTheLabels
  <2>2. ASSUME NEW d \in Busy({"account"})
        PROVE  IsValid(calls'[d].arg.fields) /\ PointOK(calls'[d].arg.fields)
    <3>1. calls'[d].arg = calls[d].arg
      BY <1>7, <1>11 DEF Like
    <3> QED
      BY <3>1 DEF IInv, AccountInv, PointInv, PointOK, IsValid
  <2> QED
    BY <1>11, <2>1, <2>2 DEF PointInv, IsValid, PointOK
<1>16. AccountInv'
  BY <1>1, <1>12, <1>13, <1>14, <1>15, PreferencesKept DEF IInv, AccountInv
<1>17. AccountTypes' /\ BoundsType'
  BY <1>1, <1>5 DEF IInv, Types, AccountTypes, AccountType, PreferencesType, IsQuery, AccountFormType, BoundsType
<1> QED
  BY <1>1, <1>10, <1>16, <1>17, AccountStep

LEMMA AccountCallFailsKeeps ==
    ASSUME IInv, NEW c \in DOMAIN calls, AccountCallFails(c), UNCHANGED profileVars
    PROVE  IInv'
<1> DEFINE lost == calls[c].kind = "preference" /\ calls[c].phase = "answered"
<1>1. /\ UNCHANGED <<account, enabled, user, language, place, moves>>
      /\ calls[c].kind \in OnAccount /\ calls[c].phase # "done" /\ calls[c].phase # "failed"
      /\ faults' \in Nat /\ faults' <= MaxFaults
      /\ mixed' = (mixed \/ calls[c].kind = "language"
                         \/ (calls[c].kind = "account" /\ calls[c].phase = "answered"))
      /\ preferences' = [preferences EXCEPT !.missed = preferences.missed \/ lost]
      /\ accountForm' = Soiled(accountForm)
  BY DEF AccountCallFails, OnAccount, IInv, Types, BoundsType
<1>2. PICK call : call = [calls[c] EXCEPT !.phase = "failed", !.answer = None]
  OBVIOUS
<1>3. /\ calls[c] \in Call /\ Fits(calls[c]) /\ call \in Call /\ call.kind = calls[c].kind
      /\ call.arg = calls[c].arg /\ call.before = calls[c].before
      /\ call.mounted = calls[c].mounted /\ call.phase = "failed"
  <2>1. calls[c] \in Call /\ Fits(calls[c])
    BY CallsAre DEF IInv, Types
  <2> QED
    BY <1>2, <2>1 DEF Call, Phases, Answers
<1>4. Fits(call)
  BY <1>1, <1>3 DEF Fits, InFlight, Carries, IsTold
<1>5. calls' = [calls EXCEPT ![c] = call]
  BY <1>2 DEF AccountCallFails
<1>6. Calls(calls)' /\ Len(calls') >= Len(calls) /\ Turns(c, call) /\ Unturned(OnProfile)
  BY <1>1, <1>3, <1>4, <1>5, TurnKeepsProfile
<1>7. calls'[c] = call /\ \A d \in DOMAIN calls : d # c => calls'[d] = calls[d]
  BY <1>5, CallsAre DEF IInv, Types
<1>8. ASSUME NEW kinds PROVE Busy(kinds)' = Busy(kinds)
  BY <1>1, <1>3, <1>6, OneTurned, TurnedUnturned DEF Unturned
<1>9. /\ AccountFormType' /\ (accountForm' # None => accountForm # None)
      /\ accountForm # None => accountForm'.fields = accountForm.fields
      /\ accountForm' # None /\ accountForm'.clean =>
            /\ accountForm # None /\ accountForm.clean /\ ~mixed'
            /\ accountForm'.base = accountForm.base
  <2>1. accountForm \in AccountForms \cup {None}
    BY DEF IInv, Types, AccountFormType
  <2>2. CASE accountForm # None /\ mixed'
    BY <1>1, <2>1, <2>2 DEF Soiled, AccountForms, AccountFormType
  <2>3. CASE ~(accountForm # None /\ mixed')
    BY <1>1, <2>1, <2>3 DEF Soiled, AccountFormType
  <2> QED
    BY <2>2, <2>3
<1>10. LanguageInv'
  <2> SUFFICES ASSUME ~mixed' PROVE LanguageInv'
    BY DEF LanguageInv
  <2>1. ~mixed /\ calls[c].kind # "language" /\ (calls[c].kind = "account" => calls[c].phase # "answered")
    BY <1>1
  <2>2. LanguageInv
    BY DEF IInv, AccountInv
  <2>3. ASSUME NEW d \in Busy(UpdateKinds) PROVE UpdateTold(calls[d])'
    <3>1. UpdateTold(calls[d])
      BY <2>1, <2>2 DEF LanguageInv
    <3>2. d \in DOMAIN calls /\ (d # c => calls'[d] = calls[d])
      BY <1>7 DEF Busy
    <3>3. CASE d # c
      BY <1>1, <3>1, <3>2, <3>3 DEF UpdateTold
    <3>4. CASE d = c
      <4>1. /\ calls[c].kind # "language" /\ calls[c].phase # "answered"
        <5>1. calls[c].kind = "account"
          BY <2>1, <3>4 DEF Busy, UpdateKinds
        <5> QED
          BY <2>1, <5>1
      <4> QED
        BY <1>1, <1>3, <1>7, <3>1, <3>2, <3>4, <4>1 DEF UpdateTold
    <3> QED
      BY <3>3, <3>4
  <2> QED
    BY <1>1, <1>8, <2>1, <2>2, <2>3 DEF LanguageInv
<1>11. FormInv'
  <2> SUFFICES ASSUME accountForm' # None, accountForm'.clean PROVE FormInv'
    BY DEF FormInv
  <2>1. /\ accountForm # None /\ accountForm.clean /\ ~mixed'
        /\ accountForm'.base = accountForm.base
    BY <1>9
  <2>2. FormInv
    BY DEF IInv, AccountInv
  <2>3. ASSUME NEW d \in Busy({"account"}) PROVE SentByForm(calls[d])'
    <3>1. SentByForm(calls[d])
      BY <2>1, <2>2 DEF FormInv
    <3> QED
      BY <1>1, <1>3, <1>7, <2>1, <3>1 DEF SentByForm, Busy
  <2> QED
    BY <1>1, <1>8, <2>1, <2>2, <2>3 DEF FormInv
<1>12. PointInv'
  <2>1. PointIsTheLabels'
    BY <1>1, <1>9 DEF IInv, AccountInv, PointInv, PointIsTheLabels
  <2>2. ASSUME NEW d \in Busy({"account"})
        PROVE  IsValid(calls'[d].arg.fields) /\ PointOK(calls'[d].arg.fields)
    <3>1. calls'[d].arg = calls[d].arg
      BY <1>3, <1>7 DEF Busy
    <3> QED
      BY <3>1 DEF IInv, AccountInv, PointInv, PointOK, IsValid
  <2> QED
    BY <1>8, <2>1, <2>2 DEF PointInv, IsValid, PointOK
<1>13. IsQuery(preferences', Settings) /\ PreferencesInv'
  <2>1. lost \in BOOLEAN /\ IsQuery(preferences, Settings)
    BY DEF IInv, Types, PreferencesType
  <2>2. /\ IsQuery(preferences', Settings)
        /\ (lost \/ FreshIsTrue(preferences, enabled)) => FreshIsTrue(preferences', enabled)
        /\ (lost \/ ShownIsTrue(preferences, enabled)) => ShownIsTrue(preferences', enabled)
    <3> HIDE DEF lost
    <3> QED
      BY <1>1, <2>1, QueryMissed
  <2>3. ~Unheard({"preference"})' => ~Unheard({"preference"}) \/ lost
    BY <1>3, <1>7, <1>8 DEF Unheard, Busy
  <2> QED
    BY <1>1, <1>9, <2>2, <2>3 DEF IInv, AccountInv, PreferencesInv
<1>14. AccountInv'
  BY <1>10, <1>11, <1>12, <1>13 DEF AccountInv
<1>15. AccountTypes' /\ BoundsType'
  BY <1>1, <1>9, <1>13 DEF IInv, Types, AccountTypes, AccountType, PreferencesType, BoundsType
<1> QED
  BY <1>1, <1>6, <1>9, <1>14, <1>15, AccountStep

LEMMA ReceiveUpdateKeeps ==
    ASSUME IInv, NEW c \in DOMAIN calls, ReceiveUpdate(c), UNCHANGED profileVars
    PROVE  IInv'
<1>1. /\ UNCHANGED <<account, enabled, preferences, mixed, place, faults, moves>>
      /\ calls[c].kind \in UpdateKinds /\ calls[c].phase \in {"answered", "failed"}
      /\ accountForm' = ResetAfter(calls[c])
      /\ user' = IF calls[c].phase = "answered" THEN calls[c].answer ELSE user
      /\ language' = IF calls[c].phase = "answered" THEN Synced(calls[c].answer) ELSE language
  BY DEF ReceiveUpdate
<1>2. /\ c \in Busy(UpdateKinds) /\ InFlight(calls[c])
      /\ calls[c].kind = "account" => c \in Busy({"account"})
  BY <1>1 DEF Busy, InFlight
<1>3. PICK call : call = Done(calls[c])
  OBVIOUS
<1>4. /\ calls[c] \in Call /\ Fits(calls[c])
      /\ call \in Call /\ Fits(call) /\ call.kind = calls[c].kind /\ call.phase = "done"
  BY <1>3, CallDone
<1>5. Carries(calls[c]) /\ IsTold(calls[c])
  BY <1>2, <1>4 DEF Fits
<1>6. calls' = [calls EXCEPT ![c] = call]
  BY <1>3 DEF ReceiveUpdate
<1>7. Calls(calls)' /\ Len(calls') >= Len(calls) /\ Turns(c, call) /\ Unturned(OnProfile)
  BY <1>1, <1>4, <1>6, TurnKeepsProfile, KindsAre
<1>8. /\ \A d \in DOMAIN calls : d # c => calls'[d] = calls[d]
      /\ Busy(UpdateKinds)' = Busy(UpdateKinds) \ {c}
      /\ Busy({"account"})' = Busy({"account"}) \ {c}
  BY <1>4, <1>6, <1>7, OneTurned, CallsAre DEF IInv, Types
<1>9. Unturned({"preference"})
  BY <1>1, <1>4, <1>7, TurnedUnturned DEF UpdateKinds
<1>10. LanguageInv'
  <2> SUFFICES ASSUME ~mixed PROVE LanguageInv'
    BY <1>1 DEF LanguageInv
  <2>1. Busy(UpdateKinds) = {c} /\ UpdateTold(calls[c])
    BY <1>2, SoleUpdate DEF IInv, AccountInv
  <2>2. user' = Read(account) /\ language' = user'.language
    BY <1>1, <2>1 DEF UpdateTold, Synced, Read, UpdateKinds
  <2> QED
    BY <1>1, <1>8, <2>1, <2>2 DEF LanguageInv
<1>11. /\ AccountFormType' /\ (accountForm' # None => accountForm # None)
       /\ accountForm' # None => accountForm'.clean = accountForm.clean /\ PointOK(accountForm'.fields)
       /\ \/ accountForm' = accountForm
          \/ /\ accountForm # None /\ calls[c].kind = "account" /\ calls[c].phase = "answered"
             /\ accountForm' = [accountForm EXCEPT !.fields = calls[c].arg.fields, !.base = calls[c].arg.fields]
             /\ accountForm'.base = calls[c].arg.fields
       /\ calls[c].kind = "account" /\ calls[c].phase = "answered" /\ calls[c].mounted /\ accountForm # None
             => accountForm'.base = calls[c].arg.fields
  <2>1. accountForm \in AccountForms \cup {None} /\ (accountForm # None => PointOK(accountForm.fields))
    BY FormOf DEF IInv, Types, AccountFormType
  <2>2. CASE accountForm = None \/ ~calls[c].mounted \/ calls[c].kind # "account" \/ calls[c].phase = "failed"
    BY <1>1, <2>1, <2>2 DEF ResetAfter, AccountFormType, PointOK
  <2>3. CASE ~(accountForm = None \/ ~calls[c].mounted \/ calls[c].kind # "account" \/ calls[c].phase = "failed")
    <3>1. accountForm' = [accountForm EXCEPT !.fields = calls[c].arg.fields, !.base = calls[c].arg.fields]
      BY <1>1, <2>3 DEF ResetAfter
    <3>2. calls[c].arg.fields \in Fields /\ PointOK(calls[c].arg.fields)
      BY <1>2, <1>5, <2>3 DEF Carries, Updates, IInv, AccountInv, PointInv, PointOK
    <3>3. /\ accountForm' \in AccountForms /\ accountForm'.fields = calls[c].arg.fields
          /\ accountForm'.base = calls[c].arg.fields /\ accountForm'.clean = accountForm.clean
      BY <2>1, <2>3, <3>1, <3>2 DEF AccountForms
    <3> QED
      BY <1>1, <2>3, <3>1, <3>2, <3>3 DEF AccountFormType, PointOK
  <2> QED
    BY <2>2, <2>3
<1>12. FormInv'
  <2> SUFFICES ASSUME accountForm' # None, accountForm'.clean PROVE FormInv'
    BY DEF FormInv
  <2>1. /\ accountForm # None /\ accountForm.clean /\ ~mixed
        /\ accountForm.base.name = user.name /\ accountForm.base.label = user.label
        /\ \A d \in Busy({"account"}) : SentByForm(calls[d])
    BY <1>11 DEF IInv, AccountInv, FormInv
  <2>2. UpdateTold(calls[c]) /\ \A d \in Busy({"account"}) : d = c
    BY <1>2, <2>1, SoleUpdate DEF IInv, AccountInv
  <2>3. Busy({"account"})' = {}
    BY <1>8, <2>2
  <2>4. accountForm'.base.name = user'.name /\ accountForm'.base.label = user'.label
    <3>1. CASE calls[c].kind = "account"
      <4>1. SentByForm(calls[c])
        BY <1>2, <2>1, <3>1
      <4> QED
        BY <1>1, <1>11, <2>1, <2>2, <3>1, <4>1 DEF SentByForm, UpdateTold, Read
    <3>2. CASE calls[c].kind = "language"
      BY <1>1, <1>11, <2>1, <2>2, <3>2 DEF UpdateTold, Read
    <3> QED
      BY <1>1, <3>1, <3>2 DEF UpdateKinds
  <2> QED
    BY <1>1, <2>1, <2>3, <2>4 DEF FormInv
<1>13. PointInv'
  <2>1. PointIsTheLabels'
    BY <1>1, <1>11 DEF IInv, AccountInv, PointInv, PointIsTheLabels, PointOK
  <2>2. ASSUME NEW d \in Busy({"account"})'
        PROVE  IsValid(calls'[d].arg.fields) /\ PointOK(calls'[d].arg.fields)
    <3>1. calls'[d] = calls[d] /\ d \in Busy({"account"})
      BY <1>8 DEF Busy
    <3> QED
      BY <3>1 DEF IInv, AccountInv, PointInv, PointOK, IsValid
  <2> QED
    BY <2>1, <2>2 DEF PointInv, IsValid, PointOK
<1>14. AccountInv'
  BY <1>1, <1>9, <1>10, <1>11, <1>12, <1>13, PreferencesKept DEF IInv, AccountInv
<1>15. user' \in Users /\ language' \in Languages
  <2>1. calls[c].phase = "answered" => calls[c].answer \in Users
    BY <1>1, <1>5 DEF IsTold
  <2> QED
    BY <1>1, <2>1 DEF IInv, Types, AccountType, Users, Synced
<1>16. AccountTypes' /\ BoundsType'
  BY <1>1, <1>11, <1>15 DEF IInv, Types, AccountTypes, AccountType, PreferencesType, IsQuery, BoundsType
<1> QED
  BY <1>1, <1>7, <1>11, <1>14, <1>16, AccountStep

(* Every step of the account tab and of the header.                        *)
LEMMA AccountKeeps ==
    ASSUME IInv, AccountNext \/ Header, UNCHANGED profileVars
    PROVE  IInv'
<1>1. ASSUME NEW c \in DOMAIN calls,
             \/ CommitUpdate(c) \/ CommitPreference(c) \/ AccountCallFails(c)
             \/ ReceiveUpdate(c) \/ ReceivePreference(c)
      PROVE  IInv'
  BY <1>1, CommitUpdateKeeps, CommitPreferenceKeeps, AccountCallFailsKeeps, ReceiveUpdateKeeps,
     ReceivePreferenceKeeps
<1>2. CASE Header
  BY <1>2, ChangeLanguageKeeps DEF Header
<1>3. CASE AccountNext
  BY <1>1, <1>3, EditsAreEdits, EditKeeps, SubmitAccountKeeps, UpdatePreferenceKeeps, FetchKeeps DEF AccountNext
<1> QED
  BY <1>2, <1>3

-----------------------------------------------------------------------------
(* Steps of the profile tab.                                               *)

ProfileTypes == BoundsType /\ Calls(calls) /\ ServerType /\ ProfileType /\ GalleryType /\ PickerType

LEMMA ProfileStep ==
    ASSUME IInv, RenderAccount(AccountShown'), Unturned(OnAccount), ProfileTypes', ShownInv', ProfileInv'
    PROVE  IInv'
<1>1. AccountInv' /\ AccountType' /\ PreferencesType' /\ AccountFormType'
  BY AccountTabKept DEF IInv, Types
<1> QED
  BY <1>1 DEF IInv, Types, ProfileTypes

(* A step that renders nothing leaves the tab on the screen.               *)
LEMMA StillShown ==
    ASSUME IInv, RenderAccount(AccountShown'), UNCHANGED <<place, profileForm>>,
           profile'.data = profile.data, profile'.error = profile.error
    PROVE  ShownInv'
<1>1. accountForm' # None => AccountShown'
  BY DEF RenderAccount
<1> QED
  BY <1>1 DEF IInv, ShownInv, FormShown, PageShown, Page

(* What is rendered of the picker: the form that was there, or a new one.  *)
KeptFrom(form) ==
    /\ form # None /\ profileForm'.assigned = form.assigned
    /\ profileForm'.clean => form.clean /\ ~crossed'
Fresh ==
    /\ profile'.data # None /\ profileForm'.assigned = profile'.data.trades
    /\ profileForm'.clean => ~crossed' /\ Busy(ProfileKinds)' = {}

LEMMA NewForms ==
    ASSUME NEW data \in Profiles, NEW clean \in BOOLEAN, NEW n
    PROVE  /\ NewForm(data, clean) \in ProfileForms(n)
           /\ NewForm(data, clean).assigned = data.trades
           /\ NewForm(data, clean).clean = clean
<1>1. data.row.fields \in Values /\ data.trades \subseteq Trades
  BY DEF Profiles, Rows
<1> QED
  BY <1>1 DEF NewForm, ProfileForms

LEMMA FormRendered ==
    ASSUME NEW page, Calls(page.calls), Render(page), RenderAccount(AccountShown'),
           page.form \in ProfileForms(Len(page.calls)) \cup {None}, IsQuery(page.profile, Profiles),
           page.crossed \in BOOLEAN
    PROVE  PickerType' /\ (profileForm' = None \/ KeptFrom(page.form) \/ Fresh)
<1>1. /\ profile' = page.profile /\ crossed' = page.crossed /\ Become(page.calls)
      /\ Unmounted(page) \/ KeptOn(page) \/ MountedNow(page)
  BY Rendered
<1>2. Len(calls') = Len(page.calls)
  BY <1>1 DEF Become
<1>3. CASE Unmounted(page)
  BY <1>3 DEF Unmounted, PickerType
<1>4. CASE KeptOn(page)
  <2>1. page.form # None /\ page.form \in ProfileForms(Len(page.calls))
    BY <1>4 DEF KeptOn
  <2>2. profileForm' = [page.form EXCEPT !.clean = page.form.clean /\ ~page.crossed]
    BY <1>4 DEF KeptOn
  <2>3. (page.form.clean /\ ~page.crossed) \in BOOLEAN
    OBVIOUS
  <2>4. /\ profileForm' \in ProfileForms(Len(page.calls))
        /\ profileForm'.assigned = page.form.assigned
        /\ profileForm'.clean => page.form.clean /\ ~page.crossed
    BY <2>1, <2>2, <2>3 DEF ProfileForms
  <2> QED
    BY <1>1, <1>2, <2>1, <2>4 DEF KeptFrom, PickerType
<1>5. CASE MountedNow(page)
  <2>1. page.profile.data # None /\ page.profile.data \in Profiles
    BY <1>5 DEF MountedNow, FormShown, PageShown, IsQuery, Query
  <2>2. PICK idle \in BOOLEAN : idle = Idle(page.calls)
    BY DEF Idle
  <2>3. PICK form : form = NewForm(page.profile.data, idle)
    OBVIOUS
  <2>4. /\ form \in ProfileForms(Len(page.calls)) /\ form.assigned = page.profile.data.trades
        /\ form.clean = idle
    BY <2>1, <2>3, NewForms
  <2>5. profileForm' = [form EXCEPT !.clean = form.clean /\ ~page.crossed]
    BY <1>5, <2>2, <2>3 DEF MountedNow
  <2>6. /\ profileForm' \in ProfileForms(Len(page.calls))
        /\ profileForm'.assigned = page.profile.data.trades
        /\ profileForm'.clean => idle /\ ~page.crossed
    <3>1. (form.clean /\ ~page.crossed) \in BOOLEAN
      OBVIOUS
    <3> QED
      BY <2>4, <2>5, <3>1 DEF ProfileForms
  <2>7. idle => Busy(ProfileKinds)' = {}
    BY <1>1, <2>2 DEF Idle, Become, Busy, InFlight, Like
  <2> QED
    BY <1>1, <1>2, <2>1, <2>6, <2>7 DEF Fresh, PickerType
<1> QED
  BY <1>1, <1>3, <1>4, <1>5

(* A form that hears of every list of trades.                              *)
Told(form) ==
    profileForm' # None /\ form.clean /\ ~crossed' =>
        /\ \A c \in Busy(TradeKinds)' : calls'[c].mounted
        /\ Settled(TradeKinds)' => form.assigned = trades'
(* The portfolio's query as a handler leaves it.                           *)
Catches(page) ==
    ~Unheard(GalleryKinds)' => /\ FreshIsTrue(page.gallery, images')
                               /\ page.form # None => ShownIsTrue(page.gallery, images')
Proper(page) ==
    /\ page.place \in Tabs \cup {"away"} /\ page.crossed \in BOOLEAN
    /\ Calls(page.calls) /\ IsQuery(page.profile, Profiles) /\ IsQuery(page.gallery, Images)
    /\ page.form \in ProfileForms(Len(page.calls)) \cup {None}

LEMMA PickerRendered ==
    ASSUME CacheInv', NEW form, profileForm' = None \/ KeptFrom(form) \/ Fresh, form # None => Told(form)
    PROVE  PickerInv'
<1>1. CASE KeptFrom(form)
  BY <1>1 DEF KeptFrom, Told, PickerInv
<1>2. CASE Fresh
  <2>1. Busy(ProfileKinds)' = {} => Busy(TradeKinds)' = {}
    BY KindsAre DEF Busy
  <2>2. Busy(TradeKinds)' = {} => Settled(TradeKinds)'
    BY DEF Settled
  <2> QED
    BY <1>2, <2>1, <2>2 DEF Fresh, PickerInv, CacheInv, TradesKnown
<1> QED
  BY <1>1, <1>2 DEF PickerInv

LEMMA GalleryRendered ==
    ASSUME NEW page, Calls(page.calls), Render(page), RenderAccount(AccountShown'),
           IsQuery(page.gallery, Images), Catches(page)
    PROVE  GalleryType' /\ GalleryInv'
<1>1. Unmounted(page) \/ KeptOn(page) \/ MountedNow(page)
  BY Rendered
<1>2. CASE MountedNow(page)
  <2>1. gallery' = Observed(page.gallery, FALSE)
    BY <1>2 DEF MountedNow
  <2>2. /\ IsQuery(gallery', Images)
        /\ FreshIsTrue(page.gallery, images')
           => FreshIsTrue(gallery', images') /\ ShownIsTrue(gallery', images')
    BY <2>1, QueryObserved
  <2> QED
    BY <2>2 DEF Catches, GalleryInv, GalleryType
<1>3. CASE Unmounted(page) \/ KeptOn(page)
  BY <1>3 DEF Unmounted, KeptOn, Catches, GalleryInv, GalleryType, FreshIsTrue, ShownIsTrue, IsQuery
<1> QED
  BY <1>1, <1>2, <1>3

LEMMA RenderStep ==
    ASSUME IInv, NEW page, Proper(page), Render(page), RenderAccount(AccountShown'), Unturned(OnAccount),
           ServerType', faults' \in 0 .. MaxFaults, moves' \in 0 .. MaxMoves,
           FetchInv', DataInv', CacheInv', page.form # None => Told(page.form), Catches(page)
    PROVE  IInv'
<1>1. /\ place' = page.place /\ profile' = page.profile /\ crossed' = page.crossed
      /\ Calls(calls)' /\ ShownInv'
  BY Rendered DEF Proper
<1>2. PickerType' /\ (profileForm' = None \/ KeptFrom(page.form) \/ Fresh)
  BY FormRendered DEF Proper
<1>3. GalleryType' /\ GalleryInv'
  BY GalleryRendered DEF Proper
<1>4. PickerInv'
  BY <1>2, PickerRendered
<1>5. BoundsType' /\ ProfileType'
  BY <1>1 DEF Proper, BoundsType, ProfileType, IsQuery
<1> QED
  BY <1>1, <1>2, <1>3, <1>4, <1>5, ProfileStep DEF ProfileTypes, ProfileInv

(* What is left of the invariant by a step that turns no call of a part.   *)
LEMMA CacheKept ==
    ASSUME ProfileInv, Unturned(ProfileKinds), UNCHANGED <<row, trades>>,
           profile'.data = profile.data, crossed => crossed'
    PROVE  DataInv' /\ CacheInv'
<1>1. Unturned(RowKinds) /\ Unturned(TradeKinds) /\ Unturned(Toggles)
  BY UnturnedSubset, KindsAre
<1>2. DataInv'
  BY DEF ProfileInv, DataInv, Unturned
<1>3. (Settled(RowKinds)' <=> Settled(RowKinds)) /\ (Settled(TradeKinds)' <=> Settled(TradeKinds))
  BY <1>1 DEF Settled, Unturned, Like
<1>4. CacheInv'
  BY <1>1, <1>3 DEF ProfileInv, CacheInv, OneEach, RowKnown, TradesKnown, Undoes, Unturned, Like
<1> QED
  BY <1>2, <1>4

LEMMA FetchKept ==
    ASSUME ProfileInv, Unturned(ProfileKinds), UNCHANGED <<row, trades>>,
           profile'.fetch = profile.fetch, crossed => crossed'
    PROVE  FetchInv'
BY DEF ProfileInv, FetchInv, Unturned

LEMMA PickerKept ==
    ASSUME ProfileInv, Unturned(TradeKinds), UNCHANGED trades, crossed => crossed', NEW form,
           form # None => /\ profileForm # None /\ form.assigned = profileForm.assigned
                          /\ form.clean => profileForm.clean
    PROVE  form # None => Told(form)
<1>1. Settled(TradeKinds)' <=> Settled(TradeKinds)
  BY DEF Settled, Unturned, Like
<1>2. ASSUME profileForm' # None, NEW c \in Busy(TradeKinds), calls[c].mounted PROVE calls'[c].mounted
  <2>1. calls[c].kind \in FormKinds
    BY KindsAre DEF Busy
  <2> QED
    BY <1>2, <2>1 DEF Unturned, Stays
<1> QED
  BY <1>1, <1>2 DEF ProfileInv, PickerInv, Told, Unturned

LEMMA GalleryKept ==
    ASSUME ProfileInv, Unturned(GalleryKinds), UNCHANGED images, NEW page, page.gallery = gallery,
           page.form # None => profileForm # None
    PROVE  Catches(page)
<1>1. Unheard(GalleryKinds)' <=> Unheard(GalleryKinds)
  BY DEF Unheard, Unturned, Like
<1> QED
  BY <1>1 DEF ProfileInv, GalleryInv, Catches

(* Typing and picking, looking at another tab, and time.                   *)
LEMMA PageEditKeeps ==
    ASSUME IInv, RenderAccount(AccountShown'), profileForm # None,
           NEW form \in ProfileForms(Len(calls)), Edit(form),
           form.assigned = profileForm.assigned, form.clean => profileForm.clean
    PROVE  IInv'
<1>1. PICK page : page = [Page EXCEPT !.form = form] /\ Render(page)
  BY DEF Edit
<1>2. /\ page.place = place /\ page.profile = profile /\ page.gallery = gallery /\ page.form = form
      /\ page.calls = calls /\ page.crossed = crossed
  BY <1>1 DEF Page
<1>3. Proper(page)
  BY <1>2 DEF Proper, IInv, Types, BoundsType, ProfileType, GalleryType
<1>4. Become(calls) /\ profile' = profile /\ crossed' = crossed
  BY <1>1, <1>2, <1>3, Rendered DEF Proper
<1>5. /\ UNCHANGED <<row, trades, images, faults>> /\ faults' \in 0 .. MaxFaults /\ moves' \in 0 .. MaxMoves
  BY DEF Edit, server, IInv, Types, BoundsType
<1>6. ServerType'
  BY <1>5 DEF IInv, Types, ServerType
<1>7. /\ Unturned(OnAccount) /\ Unturned(ProfileKinds) /\ Unturned(TradeKinds) /\ Unturned(GalleryKinds)
  BY <1>4, KeptUnturned
<1>8. FetchInv' /\ DataInv' /\ CacheInv'
  BY <1>4, <1>5, <1>7, FetchKept, CacheKept DEF IInv
<1>9. page.form # None => Told(page.form)
  BY <1>2, <1>4, <1>5, <1>7, PickerKept DEF IInv
<1>10. Catches(page)
  BY <1>2, <1>5, <1>7, GalleryKept DEF IInv
<1> QED
  BY <1>1, <1>3, <1>5, <1>6, <1>7, <1>8, <1>9, <1>10, RenderStep

LEMMA PickerOf ==
    ASSUME IInv, profileForm # None
    PROVE  /\ profileForm \in ProfileForms(Len(calls)) /\ profile.data # None /\ profile.data \in Profiles
           /\ profileForm.assigned \subseteq Trades /\ profileForm.pending \subseteq Trades
           /\ profileForm.fields \in Values
<1>1. profileForm \in ProfileForms(Len(calls))
  BY DEF IInv, Types, PickerType
<1>2. profile.data # None
  BY DEF IInv, ShownInv, FormShown, PageShown, Page
<1>3. profile.data \in Profiles
  BY <1>2 DEF IInv, Types, ProfileType, IsQuery, Query
<1> QED
  BY <1>1, <1>2, <1>3 DEF ProfileForms

LEMMA EditsKeep ==
    ASSUME IInv, RenderAccount(AccountShown'),
           (\E value \in Values : Type(value)) \/ (\E t \in Trades : Pick(t) \/ Unpick(t))
    PROVE  IInv'
<1>1. ASSUME NEW value \in Values, Type(value) PROVE IInv'
  <2>1. PICK form : form = [profileForm EXCEPT !.fields = value] /\ Edit(form)
    BY <1>1 DEF Type
  <2>2. form \in ProfileForms(Len(calls)) /\ form.assigned = profileForm.assigned /\ form.clean = profileForm.clean
    BY <1>1, <2>1, PickerOf DEF Type, ProfileForms
  <2> QED
    BY <1>1, <2>1, <2>2, PageEditKeeps DEF Type
<1>2. ASSUME NEW t \in Trades, Pick(t) \/ Unpick(t) PROVE IInv'
  <2>1. PICK pending : /\ pending = profileForm.pending \cup {t} \/ pending = profileForm.pending \ {t}
                       /\ Edit([profileForm EXCEPT !.pending = pending])
    BY <1>2 DEF Pick, Unpick
  <2>2. PICK form : form = [profileForm EXCEPT !.pending = pending] /\ Edit(form)
    BY <2>1
  <2>3. profileForm # None
    BY <1>2 DEF Pick, Unpick
  <2>4. pending \subseteq Trades
    BY <2>1, <2>3, PickerOf
  <2>5. form \in ProfileForms(Len(calls)) /\ form.assigned = profileForm.assigned /\ form.clean = profileForm.clean
    BY <2>2, <2>3, <2>4, PickerOf DEF ProfileForms
  <2> QED
    BY <2>2, <2>3, <2>5, PageEditKeeps
<1> QED
  BY <1>1, <1>2

LEMMA GoToKeeps ==
    ASSUME IInv, RenderAccount(AccountShown'), NEW p \in Tabs \cup {"away"}, GoTo(p)
    PROVE  IInv'
<1>1. PICK q : q = IF p = "profile" THEN Observed(profile, Idle(calls)) ELSE profile
  OBVIOUS
<1>2. PICK page : /\ page = [Page EXCEPT !.place = p, !.profile = q,
                                         !.crossed = crossed \/ (q # profile /\ ~Idle(calls))]
                  /\ Render(page)
  BY <1>1 DEF GoTo, Page
<1>3. /\ page.place = p /\ page.profile = q /\ page.gallery = gallery /\ page.form = profileForm
      /\ page.calls = calls /\ page.crossed = (crossed \/ (q # profile /\ ~Idle(calls)))
  BY <1>2 DEF Page
<1>4. IsQuery(profile, Profiles) /\ crossed \in BOOLEAN
  BY DEF IInv, Types, ProfileType
<1>5. PICK idle \in BOOLEAN : idle = Idle(calls)
  BY DEF Idle
<1>6. /\ IsQuery(q, Profiles) /\ q.data = profile.data
      /\ q.fetch # profile.fetch => q # profile /\ q.fetch.phase = "sent" /\ q.fetch.clean = idle
  <2>1. CASE p = "profile" /\ profile.fetch.phase = "idle" /\ (profile.data = None \/ profile.stale)
    <3>1. q = StartFetch(profile, idle)
      BY <1>1, <1>5, <2>1 DEF Observed
    <3> QED
      BY <1>4, <3>1, QueryStarted
  <2>2. CASE ~(p = "profile" /\ profile.fetch.phase = "idle" /\ (profile.data = None \/ profile.stale))
    <3>1. q = profile
      BY <1>1, <2>2 DEF Observed
    <3> QED
      BY <1>4, <3>1
  <2> QED
    BY <2>1, <2>2
<1>7. Proper(page)
  BY <1>3, <1>4, <1>6 DEF Proper, IInv, Types, GalleryType, PickerType
<1>8. Become(calls) /\ profile' = q /\ crossed' = (crossed \/ (q # profile /\ ~Idle(calls)))
  BY <1>2, <1>3, <1>7, Rendered DEF Proper
<1>9. /\ UNCHANGED <<row, trades, images, faults>> /\ faults' \in 0 .. MaxFaults /\ moves' \in 0 .. MaxMoves
  BY DEF GoTo, server, IInv, Types, BoundsType
<1>10. ServerType'
  BY <1>9 DEF IInv, Types, ServerType
<1>11. /\ Unturned(OnAccount) /\ Unturned(ProfileKinds) /\ Unturned(TradeKinds) /\ Unturned(GalleryKinds)
  BY <1>8, KeptUnturned
<1>12. FetchInv'
  <2>1. CASE q.fetch = profile.fetch
    BY <1>8, <1>9, <1>11, <2>1, FetchKept DEF IInv
  <2>2. CASE q.fetch # profile.fetch
    <3>1. idle => Busy(ProfileKinds) = {}
      BY <1>5 DEF Idle, Busy
    <3> QED
      BY <1>5, <1>6, <1>8, <1>11, <2>2, <3>1 DEF FetchInv, Unturned
  <2> QED
    BY <2>1, <2>2
<1>13. DataInv' /\ CacheInv'
  BY <1>6, <1>8, <1>9, <1>11, CacheKept DEF IInv
<1>14. page.form # None => Told(page.form)
  BY <1>3, <1>8, <1>9, <1>11, PickerKept DEF IInv
<1>15. Catches(page)
  BY <1>3, <1>9, <1>11, GalleryKept DEF IInv
<1> QED
  BY <1>2, <1>7, <1>9, <1>10, <1>11, <1>12, <1>13, <1>14, <1>15, RenderStep

(* Steps that render nothing.                                              *)
LEMMA QuietStep ==
    ASSUME IInv, RenderAccount(AccountShown'), UNCHANGED <<place, profileForm, crossed>>,
           profile'.data = profile.data, profile'.error = profile.error, IsQuery(profile', Profiles),
           Calls(calls)', Len(calls') = Len(calls), Unturned(OnAccount), ServerType',
           faults' \in 0 .. MaxFaults, moves' \in 0 .. MaxMoves,
           FetchInv', DataInv', CacheInv', PickerInv', GalleryType', GalleryInv'
    PROVE  IInv'
<1>1. ShownInv'
  BY StillShown
<1>2. BoundsType' /\ ProfileType' /\ PickerType'
  BY DEF IInv, Types, BoundsType, ProfileType, PickerType
<1> QED
  BY <1>1, <1>2, ProfileStep DEF ProfileTypes, ProfileInv

LEMMA PickerStays ==
    ASSUME ProfileInv, UNCHANGED <<profileForm, crossed, trades>>, Unturned(TradeKinds)
    PROVE  PickerInv'
<1>1. profileForm # None => Told(profileForm)
  BY PickerKept
<1> QED
  BY <1>1 DEF Told, ProfileInv, PickerInv

LEMMA GalleryStays ==
    ASSUME IInv, UNCHANGED <<profileForm, images>>, Unturned(GalleryKinds),
           IsQuery(gallery', Images),
           FreshIsTrue(gallery, images) => FreshIsTrue(gallery', images),
           ShownIsTrue(gallery, images) => ShownIsTrue(gallery', images)
    PROVE  GalleryType' /\ GalleryInv'
<1>1. Unheard(GalleryKinds)' <=> Unheard(GalleryKinds)
  BY DEF Unheard, Unturned, Like
<1> QED
  BY <1>1 DEF IInv, ProfileInv, GalleryInv, GalleryType

LEMMA AgeKeeps ==
    ASSUME IInv, RenderAccount(AccountShown'), Age
    PROVE  IInv'
<1>1. /\ UNCHANGED <<row, trades, images, profileForm, crossed, place, calls, faults>>
      /\ profile' = [profile EXCEPT !.stale = profile.data # None]
      /\ gallery' = [gallery EXCEPT !.stale = gallery.data # None]
      /\ faults' \in 0 .. MaxFaults /\ moves' \in 0 .. MaxMoves
  BY DEF Age, server, IInv, Types, BoundsType
<1>2. IsQuery(profile, Profiles) /\ IsQuery(gallery, Images)
  BY DEF IInv, Types, ProfileType, GalleryType
<1>3. /\ IsQuery(profile', Profiles) /\ profile'.data = profile.data /\ profile'.fetch = profile.fetch
      /\ profile'.error = profile.error
  BY <1>1, <1>2, QueryAged
<1>4. /\ IsQuery(gallery', Images)
      /\ FreshIsTrue(gallery, images) => FreshIsTrue(gallery', images)
      /\ ShownIsTrue(gallery, images) => ShownIsTrue(gallery', images)
  BY <1>1, <1>2, QueryAged
<1>5. Become(calls)
  BY <1>1, CallsAsTheyAre
<1>6. /\ Unturned(OnAccount) /\ Unturned(ProfileKinds) /\ Unturned(TradeKinds) /\ Unturned(GalleryKinds)
  BY <1>5, KeptUnturned
<1>7. Calls(calls)' /\ ServerType' /\ Len(calls') = Len(calls)
  BY <1>1 DEF IInv, Types, Calls, ServerType
<1>8. FetchInv' /\ DataInv' /\ CacheInv'
  BY <1>1, <1>3, <1>6, FetchKept, CacheKept DEF IInv
<1>9. PickerInv' /\ GalleryType' /\ GalleryInv'
  BY <1>1, <1>4, <1>6, PickerStays, GalleryStays DEF IInv
<1> QED
  BY <1>1, <1>3, <1>6, <1>7, <1>8, <1>9, QuietStep

(* The portfolio's query.                                                  *)
LEMMA GalleryFetchKeeps ==
    ASSUME IInv, RenderAccount(AccountShown'), AnswerGallery \/ ReceiveGallery \/ GalleryFails
    PROVE  IInv'
<1>1. /\ UNCHANGED <<row, trades, images, profile, profileForm, crossed, place, calls>>
      /\ faults' \in 0 .. MaxFaults /\ moves' \in 0 .. MaxMoves
  BY DEF AnswerGallery, ReceiveGallery, GalleryFails, server, IInv, Types, BoundsType
<1>2. IsQuery(profile, Profiles) /\ IsQuery(gallery, Images) /\ images \in Images
  BY DEF IInv, Types, ProfileType, GalleryType, ServerType
<1>3. /\ IsQuery(gallery', Images)
      /\ FreshIsTrue(gallery, images) => FreshIsTrue(gallery', images) /\ ShownIsTrue(gallery', images)
  <2>1. CASE AnswerGallery
    BY <1>2, <2>1, QueryAnswered DEF AnswerGallery
  <2>2. CASE ReceiveGallery
    BY <1>2, <2>2, QueryReceived DEF ReceiveGallery
  <2>3. CASE GalleryFails
    BY <1>2, <2>3, QueryFailed DEF GalleryFails
  <2> QED
    BY <2>1, <2>2, <2>3
<1>4. Become(calls)
  BY <1>1, CallsAsTheyAre
<1>5. /\ Unturned(OnAccount) /\ Unturned(ProfileKinds) /\ Unturned(TradeKinds) /\ Unturned(GalleryKinds)
  BY <1>4, KeptUnturned
<1>6. Calls(calls)' /\ ServerType' /\ Len(calls') = Len(calls)
  BY <1>1 DEF IInv, Types, Calls, ServerType
<1>7. FetchInv' /\ DataInv' /\ CacheInv' /\ PickerInv'
  BY <1>1, <1>5, FetchKept, CacheKept, PickerStays DEF IInv
<1>8. Unheard(GalleryKinds)' <=> Unheard(GalleryKinds)
  BY <1>5 DEF Unheard, Unturned, Like
<1>9. GalleryType' /\ GalleryInv'
  BY <1>1, <1>3, <1>8 DEF IInv, ProfileInv, GalleryInv, GalleryType
<1> QED
  BY <1>1, <1>2, <1>5, <1>6, <1>7, <1>9, QuietStep

(* The profile's query.                                                    *)
LEMMA AnswerProfileKeeps ==
    ASSUME IInv, RenderAccount(AccountShown'), AnswerProfile
    PROVE  IInv'
<1>1. /\ UNCHANGED <<row, trades, images, gallery, profileForm, crossed, place, calls>>
      /\ faults' \in 0 .. MaxFaults /\ moves' \in 0 .. MaxMoves
      /\ profile.fetch.phase = "sent" /\ profile' = Answered(profile, [row |-> row, trades |-> trades])
  BY DEF AnswerProfile, server, IInv, Types, BoundsType
<1>2. /\ IsQuery(profile, Profiles) /\ IsQuery(gallery, Images) /\ [row |-> row, trades |-> trades] \in Profiles
  BY DEF IInv, Types, ProfileType, GalleryType, ServerType, Profiles
<1>3. /\ IsQuery(profile', Profiles) /\ profile'.data = profile.data /\ profile'.error = profile.error
      /\ profile'.fetch.clean = profile.fetch.clean
      /\ profile'.fetch.answer = [row |-> row, trades |-> trades]
  BY <1>1, <1>2, QueryAnswered
<1>4. Become(calls)
  BY <1>1, CallsAsTheyAre
<1>5. /\ Unturned(OnAccount) /\ Unturned(ProfileKinds) /\ Unturned(TradeKinds) /\ Unturned(GalleryKinds)
  BY <1>4, KeptUnturned
<1>6. Calls(calls)' /\ ServerType' /\ Len(calls') = Len(calls)
  BY <1>1 DEF IInv, Types, Calls, ServerType
<1>7. DataInv' /\ CacheInv' /\ PickerInv' /\ GalleryType' /\ GalleryInv'
  BY <1>1, <1>2, <1>3, <1>5, CacheKept, PickerStays, GalleryStays DEF IInv
<1>8. FetchInv'
  BY <1>1, <1>3, <1>5 DEF IInv, ProfileInv, FetchInv, Unturned
<1> QED
  BY <1>1, <1>3, <1>5, <1>6, <1>7, <1>8, QuietStep

LEMMA ReceiveProfileKeeps ==
    ASSUME IInv, RenderAccount(AccountShown'), ReceiveProfile
    PROVE  IInv'
<1>1. PICK q : q = Received(profile)
  OBVIOUS
<1>2. PICK page : /\ page = [Page EXCEPT !.profile = q, !.crossed = crossed /\ ~profile.fetch.clean]
                  /\ Render(page)
  BY <1>1 DEF ReceiveProfile, Page
<1>3. /\ page.place = place /\ page.profile = q /\ page.gallery = gallery /\ page.form = profileForm
      /\ page.calls = calls /\ page.crossed = (crossed /\ ~profile.fetch.clean)
  BY <1>2 DEF Page
<1>4. IsQuery(profile, Profiles) /\ crossed \in BOOLEAN /\ profile.fetch.phase = "answered"
  BY DEF IInv, Types, ProfileType, ReceiveProfile
<1>5. /\ IsQuery(q, Profiles) /\ q.data = profile.fetch.answer /\ q.data \in Profiles
      /\ q.fetch.phase = "idle"
  BY <1>1, <1>4, QueryReceived
<1>6. Proper(page)
  BY <1>3, <1>4, <1>5 DEF Proper, IInv, Types, BoundsType, GalleryType, PickerType
<1>7. Become(calls) /\ profile' = q /\ crossed' = (crossed /\ ~profile.fetch.clean)
  BY <1>2, <1>3, <1>6, Rendered DEF Proper
<1>8. /\ UNCHANGED <<row, trades, images>> /\ faults' \in 0 .. MaxFaults /\ moves' \in 0 .. MaxMoves
  BY DEF ReceiveProfile, server, IInv, Types, BoundsType
<1>9. ServerType'
  BY <1>8 DEF IInv, Types, ServerType
<1>10. /\ Unturned(OnAccount) /\ Unturned(ProfileKinds) /\ Unturned(TradeKinds) /\ Unturned(GalleryKinds)
  BY <1>7, KeptUnturned
<1>11. FetchInv' /\ DataInv'
  BY <1>5, <1>7 DEF FetchInv, DataInv
<1>12. CacheInv'
  <2> SUFFICES ASSUME ~crossed' PROVE CacheInv'
    BY DEF CacheInv
  <2>1. /\ Busy(ProfileKinds)' = {} /\ q.data = [row |-> row, trades |-> trades]
    BY <1>4, <1>5, <1>7, <1>10 DEF IInv, ProfileInv, FetchInv, Unturned
  <2>2. Busy(RowKinds)' = {} /\ Busy(TradeKinds)' = {} /\ Busy(Toggles)' = {}
    BY <2>1, KindsAre DEF Busy
  <2> QED
    BY <1>7, <1>8, <2>1, <2>2 DEF CacheInv, OneEach, RowKnown, TradesKnown, Undoes
<1>13. page.form # None => Told(page.form)
  <2> SUFFICES ASSUME profileForm # None, profileForm' # None, profileForm.clean PROVE Told(profileForm)
    BY <1>3 DEF Told
  <2>1. ~crossed
    BY DEF IInv, ProfileInv, PickerInv
  <2> QED
    BY <1>8, <1>10, <2>1, PickerKept DEF IInv
<1>14. Catches(page)
  BY <1>3, <1>8, <1>10, GalleryKept DEF IInv
<1> QED
  BY <1>2, <1>6, <1>8, <1>9, <1>10, <1>11, <1>12, <1>13, <1>14, RenderStep

LEMMA ProfileFailsKeeps ==
    ASSUME IInv, RenderAccount(AccountShown'), ProfileFails
    PROVE  IInv'
<1>1. PICK q : q = FetchFailed(profile)
  OBVIOUS
<1>2. PICK page : page = [Page EXCEPT !.profile = q] /\ Render(page)
  BY <1>1 DEF ProfileFails
<1>3. /\ page.place = place /\ page.profile = q /\ page.gallery = gallery /\ page.form = profileForm
      /\ page.calls = calls /\ page.crossed = crossed
  BY <1>2 DEF Page
<1>4. IsQuery(profile, Profiles) /\ crossed \in BOOLEAN
  BY DEF IInv, Types, ProfileType
<1>5. IsQuery(q, Profiles) /\ q.data = profile.data /\ q.fetch.phase = "idle"
  BY <1>1, <1>4, QueryFailed
<1>6. Proper(page)
  BY <1>3, <1>4, <1>5 DEF Proper, IInv, Types, BoundsType, GalleryType, PickerType
<1>7. Become(calls) /\ profile' = q /\ crossed' = crossed
  BY <1>2, <1>3, <1>6, Rendered DEF Proper
<1>8. /\ UNCHANGED <<row, trades, images>> /\ faults' \in 0 .. MaxFaults /\ moves' \in 0 .. MaxMoves
  BY DEF ProfileFails, server, IInv, Types, BoundsType
<1>9. ServerType'
  BY <1>8 DEF IInv, Types, ServerType
<1>10. /\ Unturned(OnAccount) /\ Unturned(ProfileKinds) /\ Unturned(TradeKinds) /\ Unturned(GalleryKinds)
  BY <1>7, KeptUnturned
<1>11. FetchInv' /\ DataInv' /\ CacheInv'
  BY <1>5, <1>7, <1>8, <1>10, CacheKept DEF IInv, FetchInv
<1>12. page.form # None => Told(page.form)
  BY <1>3, <1>7, <1>8, <1>10, PickerKept DEF IInv
<1>13. Catches(page)
  BY <1>3, <1>8, <1>10, GalleryKept DEF IInv
<1> QED
  BY <1>2, <1>6, <1>8, <1>9, <1>10, <1>11, <1>12, <1>13, RenderStep

-----------------------------------------------------------------------------
(* Calls the profile tab sends.                                            *)

LEMMA ManyOpened ==
    ASSUME NEW new, Opens(new), \A i \in DOMAIN new : new[i].phase = "sent", NEW kinds
    PROVE  /\ Busy(kinds) \subseteq Busy(kinds)'
           /\ \A c \in Busy(kinds) : Like(calls'[c], calls[c]) /\ (Stays(calls[c]) => calls'[c].mounted)
           /\ \A c \in Busy(kinds)' \ Busy(kinds) :
                 \E i \in DOMAIN new : /\ c = Len(calls) + i /\ new[i].kind \in kinds
                                       /\ Like(calls'[c], new[i]) /\ (Stays(new[i]) => calls'[c].mounted)
           /\ \A i \in DOMAIN new : new[i].kind \in kinds => Len(calls) + i \in Busy(kinds)'
<1>1. ASSUME NEW c \in DOMAIN calls' PROVE c \in DOMAIN calls \/ \E i \in DOMAIN new : c = Len(calls) + i
  <2>1. CASE c \notin DOMAIN calls
    <3>1. c - Len(calls) \in DOMAIN new /\ Len(calls) + (c - Len(calls)) = c
      BY <2>1 DEF Opens
    <3> QED
      BY <3>1
  <2> QED
    BY <2>1
<1>2. \A c \in DOMAIN calls : c \in DOMAIN calls'
  BY DEF Opens
<1>3. \A i \in DOMAIN new : Len(calls) + i \in DOMAIN calls' /\ Len(calls) + i \notin DOMAIN calls
  BY DEF Opens
<1>4. \A c \in DOMAIN calls : Like(calls'[c], calls[c]) /\ (Stays(calls[c]) => calls'[c].mounted)
  BY DEF Opens
<1>5. ASSUME NEW i \in DOMAIN new, NEW d, d = Len(calls) + i
      PROVE  d \in DOMAIN calls' /\ Like(calls'[d], new[i]) /\ (Stays(new[i]) => calls'[d].mounted)
  BY <1>5 DEF Opens, Like
<1>6. Busy(kinds) \subseteq Busy(kinds)'
  BY <1>2, <1>4 DEF Busy, InFlight, Like
<1>7. ASSUME NEW i \in DOMAIN new, new[i].kind \in kinds PROVE Len(calls) + i \in Busy(kinds)'
  <2>1. PICK d : d = Len(calls) + i
    OBVIOUS
  <2>2. d \in DOMAIN calls' /\ Like(calls'[d], new[i])
    BY <1>5, <2>1
  <2>3. new[i].phase = "sent"
    OBVIOUS
  <2> QED
    BY <1>7, <2>1, <2>2, <2>3 DEF Busy, InFlight, Like
<1>8. ASSUME NEW c \in Busy(kinds)', c \notin Busy(kinds)
      PROVE  \E i \in DOMAIN new : /\ c = Len(calls) + i /\ new[i].kind \in kinds
                                   /\ Like(calls'[c], new[i]) /\ (Stays(new[i]) => calls'[c].mounted)
  <2>1. c \notin DOMAIN calls
    BY <1>4, <1>8 DEF Busy, InFlight, Like
  <2>2. PICK i \in DOMAIN new : c = Len(calls) + i
    BY <1>1, <1>8, <2>1 DEF Busy
  <2>3. Like(calls'[c], new[i]) /\ (Stays(new[i]) => calls'[c].mounted)
    BY <1>5, <2>2
  <2>4. new[i].kind \in kinds
    BY <1>8, <2>3 DEF Busy, Like
  <2> QED
    BY <2>2, <2>3, <2>4
<1> QED
  BY <1>4, <1>6, <1>7, <1>8 DEF Busy

LEMMA Underways ==
    ASSUME NEW kinds
    PROVE  Underway(kinds) <=> Busy(kinds) # {}
BY DEF Underway, Busy

LEMMA Overlapped ==
    ASSUME NEW kind, ~Overlaps(kind)
    PROVE  /\ kind \in RowKinds => Busy(RowKinds) = {}
           /\ kind \in TradeKinds => Busy(TradeKinds) = {} /\ Busy(Toggles) = {}
           /\ kind \in Toggles => Busy(TradeKinds) = {}
           /\ kind \in FormKinds => profile.fetch.phase = "idle"
<1>1. Busy(TradeKinds \cup Toggles) = {} => Busy(TradeKinds) = {} /\ Busy(Toggles) = {}
  BY DEF Busy
<1> QED
  BY <1>1, Underways DEF Overlaps

(* What is sent settles nothing and answers nothing.                       *)
LEMMA OpenedSettles ==
    ASSUME NEW new, Opens(new), \A i \in DOMAIN new : new[i].phase = "sent", NEW kinds
    PROVE  /\ Settled(kinds)' => Settled(kinds)
           /\ \A c \in Busy(kinds)' : calls'[c].phase = "answered" =>
                 c \in Busy(kinds) /\ Like(calls'[c], calls[c])
<1>1. /\ Busy(kinds) \subseteq Busy(kinds)' /\ \A c \in Busy(kinds) : Like(calls'[c], calls[c])
      /\ \A c \in Busy(kinds)' \ Busy(kinds) : \E i \in DOMAIN new : Like(calls'[c], new[i])
  BY ManyOpened
<1>2. \A c \in Busy(kinds)' \ Busy(kinds) : calls'[c].phase = "sent"
  BY <1>1 DEF Like
<1> QED
  BY <1>1, <1>2 DEF Settled, Like

LEMMA OneMore ==
    ASSUME NEW new, Opens(new), \A i \in DOMAIN new : new[i].phase = "sent", NEW kinds,
           \A c, d \in Busy(kinds) : c = d,
           \A i, j \in DOMAIN new : new[i].kind \in kinds /\ new[j].kind \in kinds => i = j,
           \A i \in DOMAIN new : new[i].kind \in kinds => Busy(kinds) = {}
    PROVE  \A c, d \in Busy(kinds)' : c = d
<1>1. \A c \in Busy(kinds)' \ Busy(kinds) :
         \E i \in DOMAIN new : c = Len(calls) + i /\ new[i].kind \in kinds
  BY ManyOpened
<1>2. ASSUME NEW c \in Busy(kinds)', NEW d \in Busy(kinds)' PROVE c = d
  <2>1. CASE c \in Busy(kinds) /\ d \in Busy(kinds)
    BY <2>1
  <2>2. CASE c \notin Busy(kinds) \/ d \notin Busy(kinds)
    <3>1. c \notin Busy(kinds) /\ d \notin Busy(kinds)
      BY <1>1, <1>2, <2>2
    <3> QED
      BY <1>1, <1>2, <3>1
  <2> QED
    BY <2>1, <2>2
<1> QED
  BY <1>2

LEMMA FormSends ==
    ASSUME IInv, NEW new, Opens(new), DOMAIN new # {},
           \A i \in DOMAIN new : new[i].phase = "sent" /\ new[i].kind \in FormKinds,
           \A i, j \in DOMAIN new :
               \/ new[i].kind \in RowKinds /\ new[j].kind \in RowKinds
               \/ new[i].kind \in TradeKinds /\ new[j].kind \in TradeKinds
               => i = j,
           crossed' = (crossed \/ \E i \in DOMAIN new : Overlaps(new[i].kind)),
           profile.data # None, profile'.data = profile.data,
           profile'.fetch.phase = profile.fetch.phase, profile'.fetch.clean = FALSE,
           UNCHANGED <<row, trades>>
    PROVE  FetchInv' /\ DataInv' /\ CacheInv'
<1>1. DataInv'
  BY DEF DataInv
<1>2. \A i \in DOMAIN new : new[i].phase = "sent"
  OBVIOUS
<1>3. ASSUME ~crossed'
      PROVE  /\ ~crossed
             /\ \A i \in DOMAIN new : /\ new[i].kind \in RowKinds => Busy(RowKinds) = {}
                                      /\ new[i].kind \in TradeKinds => Busy(TradeKinds) = {} /\ Busy(Toggles) = {}
                                      /\ profile.fetch.phase = "idle"
  BY <1>3, Overlapped
<1>4. FetchInv'
  BY <1>3 DEF FetchInv
<1>5. CacheInv'
  <2> SUFFICES ASSUME ~crossed' PROVE CacheInv'
    BY DEF CacheInv
  <2>1. OneEach /\ RowKnown /\ TradesKnown /\ Undoes
    BY <1>3 DEF IInv, ProfileInv, CacheInv
  <2>2. Unturned(Toggles)
    <3>1. \A i \in DOMAIN new : new[i].kind \notin Toggles
      BY DEF FormKinds, Toggles
    <3> QED
      BY <3>1, OpenedUnturned
  <2>3. \A c, d \in Busy(RowKinds)' : c = d
    <3>1. \A c, d \in Busy(RowKinds) : c = d
      BY <2>1 DEF OneEach
    <3>2. \A i, j \in DOMAIN new : new[i].kind \in RowKinds /\ new[j].kind \in RowKinds => i = j
      OBVIOUS
    <3> QED
      BY <1>2, <1>3, <3>1, <3>2, OneMore
  <2>4. \A c, d \in Busy(TradeKinds)' : c = d
    <3>1. \A c, d \in Busy(TradeKinds) : c = d
      BY <2>1 DEF OneEach
    <3>2. \A i, j \in DOMAIN new : new[i].kind \in TradeKinds /\ new[j].kind \in TradeKinds => i = j
      OBVIOUS
    <3> QED
      BY <1>2, <1>3, <3>1, <3>2, OneMore
  <2>5. Busy(Toggles)' = {} \/ Busy(TradeKinds)' = {}
    <3>1. CASE \E i \in DOMAIN new : new[i].kind \in TradeKinds
      BY <1>3, <2>2, <3>1 DEF Unturned
    <3>2. CASE \A i \in DOMAIN new : new[i].kind \notin TradeKinds
      <4>1. Unturned(TradeKinds)
        BY <3>2, OpenedUnturned
      <4> QED
        BY <2>1, <2>2, <4>1 DEF OneEach, Unturned
    <3> QED
      BY <3>1, <3>2
  <2>6. OneEach'
    BY <2>3, <2>4, <2>5 DEF OneEach
  <2>7. RowKnown' /\ TradesKnown'
    <3>1. /\ Settled(RowKinds)' => Settled(RowKinds)
          /\ \A c \in Busy(RowKinds)' : calls'[c].phase = "answered" =>
                c \in Busy(RowKinds) /\ Like(calls'[c], calls[c])
      BY <1>2, OpenedSettles
    <3>2. /\ Settled(TradeKinds)' => Settled(TradeKinds)
          /\ \A c \in Busy(TradeKinds)' : calls'[c].phase = "answered" =>
                c \in Busy(TradeKinds) /\ Like(calls'[c], calls[c])
      BY <1>2, OpenedSettles
    <3> QED
      BY <2>1, <3>1, <3>2 DEF RowKnown, TradesKnown, Like
  <2>8. Undoes'
    BY <2>1, <2>2 DEF Undoes, Unturned, Like
  <2> QED
    BY <2>6, <2>7, <2>8 DEF CacheInv
<1> QED
  BY <1>1, <1>4, <1>5

LEMMA PickerSends ==
    ASSUME IInv, NEW new, Opens(new),
           \A i \in DOMAIN new : new[i].phase = "sent" /\ new[i].kind \in FormKinds /\ new[i].mounted,
           crossed => crossed', UNCHANGED trades, NEW form,
           profileForm # None, form.assigned = profileForm.assigned, form.clean = profileForm.clean
    PROVE  Told(form)
<1> SUFFICES ASSUME profileForm' # None, form.clean, ~crossed' PROVE Told(form)
  BY DEF Told
<1>1. /\ \A c \in Busy(TradeKinds) : calls[c].mounted
      /\ Settled(TradeKinds) => form.assigned = trades
  BY DEF IInv, ProfileInv, PickerInv
<1>2. \A i \in DOMAIN new : new[i].phase = "sent" /\ Stays(new[i])
  BY DEF Stays
<1>3. Settled(TradeKinds)' => Settled(TradeKinds)
  BY <1>2, OpenedSettles
<1>4. ASSUME NEW c \in Busy(TradeKinds)' PROVE calls'[c].mounted
  <2>1. CASE c \in Busy(TradeKinds)
    <3>1. Stays(calls[c])
      BY <1>1, <2>1, KindsAre DEF Stays, Busy
    <3> QED
      BY <2>1, <3>1, <1>2, ManyOpened
  <2>2. CASE c \notin Busy(TradeKinds)
    BY <1>2, <1>4, <2>2, ManyOpened
  <2> QED
    BY <2>1, <2>2
<1> QED
  BY <1>1, <1>3, <1>4 DEF Told

Unclean(q) == [q EXCEPT !.fetch.clean = FALSE]

LEMMA QueryUnclean ==
    ASSUME NEW D, NEW q, IsQuery(q, D), NEW r, r = Unclean(q)
    PROVE  /\ IsQuery(r, D) /\ r.data = q.data /\ r.fetch.phase = q.fetch.phase /\ r.fetch.clean = FALSE
BY DEF IsQuery, Query, Unclean

(* The form sends requests, and stays as it is but for what it awaits.     *)
OfForm(new) ==
    /\ new \in Seq(Call) /\ DOMAIN new # {} /\ CanSend(Len(new))
    /\ \A i \in DOMAIN new : /\ Fits(new[i]) /\ new[i].kind \in FormKinds
                             /\ new[i].phase = "sent" /\ new[i].mounted
    /\ \A i, j \in DOMAIN new :
           \/ new[i].kind \in RowKinds /\ new[j].kind \in RowKinds
           \/ new[i].kind \in TradeKinds /\ new[j].kind \in TradeKinds
           => i = j
SentOn(page, new) ==
    /\ page.place = place /\ page.gallery = gallery /\ page.calls = calls \o new
    /\ page.crossed = (crossed \/ \E i \in DOMAIN new : Overlaps(new[i].kind))
    /\ page.profile = [profile EXCEPT !.fetch.clean = FALSE]
    /\ page.form \in ProfileForms(Len(calls) + Len(new))
    /\ page.form.assigned = profileForm.assigned /\ page.form.clean = profileForm.clean

LEMMA SendKeeps ==
    ASSUME IInv, RenderAccount(AccountShown'), profileForm # None, NEW new, OfForm(new),
           NEW page, SentOn(page, new), Render(page), UNCHANGED <<server, faults, moves>>
    PROVE  IInv'
<1>1. /\ UNCHANGED <<row, trades, images>> /\ faults' \in 0 .. MaxFaults /\ moves' \in 0 .. MaxMoves
  BY DEF server, IInv, Types, BoundsType
<1>2. Calls(calls) /\ IsQuery(profile, Profiles) /\ profile.data # None /\ crossed \in BOOLEAN
  BY PickerOf DEF IInv, Types, ProfileType
<1>3. /\ new \in Seq(Call) /\ Len(calls) + Len(new) <= MaxCalls
      /\ \A i \in DOMAIN new : Fits(new[i])
  BY DEF OfForm, CanSend
<1>4. \A i \in DOMAIN new : new[i].kind \in FormKinds /\ new[i].phase = "sent" /\ new[i].mounted
  BY DEF OfForm
<1>5. PICK cs : cs = calls \o new /\ cs = page.calls
  BY DEF SentOn
<1>6. Calls(cs) /\ Len(cs) = Len(calls) + Len(new)
  BY <1>2, <1>3, <1>5, CallsAdded
<1>7. PICK q : q = Unclean(profile) /\ q = page.profile
  BY DEF SentOn, Unclean
<1>8. /\ IsQuery(q, Profiles) /\ q.data = profile.data
      /\ q.fetch.phase = profile.fetch.phase /\ q.fetch.clean = FALSE
  BY <1>2, <1>7, QueryUnclean
<1>9. page.crossed \in BOOLEAN
  BY <1>2 DEF SentOn
<1>10. Proper(page)
  BY <1>5, <1>6, <1>7, <1>8, <1>9 DEF SentOn, Proper, IInv, Types, BoundsType, GalleryType
<1>11. Become(cs) /\ profile' = q /\ crossed' = page.crossed
  BY <1>5, <1>7, <1>10, Rendered DEF Proper
<1>12. Opens(new)
  BY <1>2, <1>3, <1>5, <1>11, BecomeOpens
<1>13. /\ Unturned(OnAccount) /\ Unturned(GalleryKinds)
  <2>1. \A i \in DOMAIN new : new[i].kind \notin OnAccount /\ new[i].kind \notin GalleryKinds
    BY <1>4 DEF FormKinds, OnAccount, AccountKinds, GalleryKinds
  <2> QED
    BY <1>12, <2>1, OpenedUnturned
<1>14. ServerType'
  BY <1>1 DEF IInv, Types, ServerType
<1>15. crossed' = (crossed \/ \E i \in DOMAIN new : Overlaps(new[i].kind))
  BY <1>11 DEF SentOn
<1>16. FetchInv' /\ DataInv' /\ CacheInv'
  <2>1. /\ \A i \in DOMAIN new : new[i].phase = "sent" /\ new[i].kind \in FormKinds
        /\ DOMAIN new # {}
        /\ \A i, j \in DOMAIN new :
               \/ new[i].kind \in RowKinds /\ new[j].kind \in RowKinds
               \/ new[i].kind \in TradeKinds /\ new[j].kind \in TradeKinds
               => i = j
    BY DEF OfForm
  <2>2. /\ profile'.data = profile.data /\ profile'.fetch.phase = profile.fetch.phase
        /\ profile'.fetch.clean = FALSE
    BY <1>8, <1>11
  <2> QED
    BY <1>1, <1>2, <1>12, <1>15, <2>1, <2>2, FormSends
<1>17. Told(page.form)
  <2>1. page.form.assigned = profileForm.assigned /\ page.form.clean = profileForm.clean
    BY DEF SentOn
  <2> QED
    BY <1>1, <1>4, <1>12, <1>15, <2>1, PickerSends
<1>18. Catches(page)
  BY <1>1, <1>13, GalleryKept DEF IInv, SentOn
<1> QED
  BY <1>1, <1>10, <1>13, <1>14, <1>16, <1>17, <1>18, RenderStep

LEMMA FormCall ==
    ASSUME NEW kind \in FormKinds, NEW arg \in Args, kind = "save" => arg \in Values,
           kind = "assign" => arg \subseteq Trades, NEW call, call = NewCall(kind, arg, None)
    PROVE  /\ call \in Call /\ Fits(call) /\ call.kind = kind /\ call.arg = arg
           /\ call.phase = "sent" /\ call.mounted
<1>1. kind \in Kinds
  BY DEF Kinds
<1>2. Carries(NewCall(kind, arg, None))
  BY DEF NewCall, Carries, FormKinds, Toggles
<1> QED
  BY <1>1, <1>2, NewCalls DEF NewCall

LEMMA LonePickerSend ==
    ASSUME IInv, RenderAccount(AccountShown'), profileForm # None, CanSend(1),
           NEW kind \in FormKinds, NEW arg \in Args, kind \notin {"save", "assign"},
           Render(Sent(Page, <<NewCall(kind, arg, None)>>)), UNCHANGED <<server, faults, moves>>
    PROVE  IInv'
<1>1. PICK call : call = NewCall(kind, arg, None)
  OBVIOUS
<1>2. PICK new : new = <<call>>
  OBVIOUS
<1>3. call \in Call /\ Fits(call) /\ call.kind = kind /\ call.phase = "sent" /\ call.mounted
  BY <1>1, FormCall
<1>4. /\ new \in Seq(Call) /\ Len(new) = 1 /\ DOMAIN new = {1} /\ new[1] = call
  BY <1>2, <1>3
<1>5. PICK page : page = Sent(Page, new) /\ Render(page)
  BY <1>1, <1>2
<1>6. /\ page.place = place /\ page.gallery = gallery /\ page.calls = calls \o new
      /\ page.crossed = (crossed \/ \E i \in DOMAIN new : Overlaps(new[i].kind))
      /\ page.profile = [profile EXCEPT !.fetch.clean = FALSE] /\ page.form = profileForm
  BY <1>5 DEF Sent, Page
<1>7. page.form \in ProfileForms(Len(calls) + Len(new))
  <2>1. Len(calls) \in Nat
    BY CallsAre DEF IInv, Types
  <2>2. 1 .. Len(calls) \subseteq 1 .. Len(calls) + Len(new)
    BY <1>4, <2>1
  <2> QED
    BY <1>6, <2>2, PickerOf DEF ProfileForms, Submission
<1>8. \A i \in DOMAIN new : /\ Fits(new[i]) /\ new[i].kind \in FormKinds
                            /\ new[i].phase = "sent" /\ new[i].mounted
  BY <1>3, <1>4
<1>9. OfForm(new)
  BY <1>4, <1>8 DEF OfForm
<1>10. SentOn(page, new)
  BY <1>6, <1>7 DEF SentOn
<1> QED
  BY <1>5, <1>9, <1>10, SendKeeps

LEMMA RemoveTradeKeeps ==
    ASSUME IInv, RenderAccount(AccountShown'), NEW t \in Trades, RemoveTrade(t)
    PROVE  IInv'
<1>1. "remove" \in FormKinds /\ t \in Args
  BY DEF FormKinds, Args
<1> QED
  BY <1>1, LonePickerSend DEF RemoveTrade

LEMMA UploadCniKeeps ==
    ASSUME IInv, RenderAccount(AccountShown'), UploadCni
    PROVE  IInv'
<1>1. "cni" \in FormKinds /\ None \in Args
  BY DEF FormKinds, Args
<1> QED
  BY <1>1, LonePickerSend DEF UploadCni

LEMMA SubmitKeeps ==
    ASSUME IInv, RenderAccount(AccountShown'), Submit
    PROVE  IInv'
<1> DEFINE saves == IF IsDirty THEN <<NewCall("save", profileForm.fields, None)>> ELSE <<>>
           assigns == IF profileForm.pending # {} THEN <<NewCall("assign", profileForm.pending, None)>> ELSE <<>>
<1>1. PICK new : new = saves \o assigns
  OBVIOUS
<1>2. PICK form : form = [profileForm EXCEPT !.submit =
                             [values |-> profileForm.fields, awaits |-> {Len(calls) + i : i \in DOMAIN new}]]
  OBVIOUS
<1>3. PICK page : page = Sent([Page EXCEPT !.form = form], new) /\ Render(page)
  BY <1>1, <1>2 DEF Submit, Page
<1>4. profileForm # None /\ CanSend(Len(new)) /\ UNCHANGED <<server, faults, moves>> /\ CanSubmit
  BY <1>1 DEF Submit
<1>5. PICK save : save = NewCall("save", profileForm.fields, None)
  OBVIOUS
<1>6. PICK assign : assign = NewCall("assign", profileForm.pending, None)
  OBVIOUS
<1>7. /\ save \in Call /\ Fits(save) /\ save.kind = "save" /\ save.phase = "sent" /\ save.mounted
      /\ assign \in Call /\ Fits(assign) /\ assign.kind = "assign" /\ assign.phase = "sent" /\ assign.mounted
  <2>1. "save" \in FormKinds /\ "assign" \in FormKinds
    BY DEF FormKinds
  <2>2. profileForm.fields \in Args /\ profileForm.pending \in Args
    BY <1>4, PickerOf DEF Args
  <2> QED
    BY <1>4, <1>5, <1>6, <2>1, <2>2, PickerOf, FormCall
<1>8. new \in {<<save>>, <<assign>>, <<save, assign>>}
  <2>1. saves \in {<<save>>, <<>>} /\ assigns \in {<<assign>>, <<>>} /\ (saves # <<>> \/ assigns # <<>>)
    BY <1>4, <1>5, <1>6 DEF CanSubmit
  <2>2. <<save>> \in Seq(Call) /\ <<assign>> \in Seq(Call)
    BY <1>7
  <2>3. <<save>> \o <<>> = <<save>> /\ <<>> \o <<assign>> = <<assign>>
    BY <2>2, ConcatEmptySeq
  <2>4. <<save>> \o <<assign>> = <<save, assign>>
    <3>1. Append(<<save>>, assign) = <<save>> \o <<assign>>
      BY <1>7, <2>2, AppendIsConcat
    <3>2. Append(<<save>>, assign) = <<save, assign>>
      <4> PICK pair : pair = <<save, assign>>
        OBVIOUS
      <4>1. pair \in Seq(Call) /\ Len(pair) = 2 /\ pair[1] = save /\ pair[2] = assign
        BY <1>7
      <4>2. PICK added : added = Append(<<save>>, assign)
        OBVIOUS
      <4>3. added \in Seq(Call) /\ Len(added) = 2 /\ added[1] = save /\ added[2] = assign
        BY <1>7, <4>2, AppendProperties
      <4>4. \A i \in 1 .. Len(pair) : pair[i] = added[i]
        BY <4>1, <4>3
      <4> QED
        BY <4>1, <4>2, <4>3, <4>4, SeqEqual
    <3> QED
      BY <3>1, <3>2
  <2> HIDE DEF saves, assigns
  <2> QED
    BY <1>1, <2>1, <2>3, <2>4
<1>9. /\ new \in Seq(Call) /\ DOMAIN new # {} /\ Len(new) \in Nat /\ DOMAIN new = 1 .. Len(new)
      /\ \A i \in DOMAIN new : new[i] \in {save, assign}
      /\ \A i, j \in DOMAIN new : new[i].kind = new[j].kind => i = j
  <2>1. CASE new = <<save>>
    BY <1>7, <2>1
  <2>2. CASE new = <<assign>>
    BY <1>7, <2>2
  <2>3. CASE new = <<save, assign>>
    BY <1>7, <2>3
  <2> QED
    BY <1>8, <2>1, <2>2, <2>3
<1>10. \A i \in DOMAIN new : /\ Fits(new[i]) /\ new[i].kind \in FormKinds
                             /\ new[i].phase = "sent" /\ new[i].mounted
  BY <1>7, <1>9 DEF FormKinds
<1>11. \A i, j \in DOMAIN new :
               \/ new[i].kind \in RowKinds /\ new[j].kind \in RowKinds
               \/ new[i].kind \in TradeKinds /\ new[j].kind \in TradeKinds
               => i = j
  BY <1>7, <1>9 DEF RowKinds, TradeKinds, Toggles
<1>12. /\ page.place = place /\ page.gallery = gallery /\ page.calls = calls \o new
       /\ page.crossed = (crossed \/ \E i \in DOMAIN new : Overlaps(new[i].kind))
       /\ page.profile = [profile EXCEPT !.fetch.clean = FALSE] /\ page.form = form
  BY <1>3 DEF Sent, Page
<1>13. /\ form \in ProfileForms(Len(calls) + Len(new))
       /\ form.assigned = profileForm.assigned /\ form.clean = profileForm.clean
  <2>1. Len(calls) \in Nat
    BY CallsAre DEF IInv, Types
  <2>2. {Len(calls) + i : i \in DOMAIN new} \subseteq 1 .. Len(calls) + Len(new)
    BY <1>9, <2>1
  <2>3. profileForm \in ProfileForms(Len(calls)) /\ profileForm.fields \in Values
    BY <1>4, PickerOf
  <2> QED
    BY <1>2, <2>2, <2>3 DEF ProfileForms, Submission
<1>14. OfForm(new)
  BY <1>4, <1>9, <1>10, <1>11 DEF OfForm
<1>15. SentOn(page, new)
  BY <1>12, <1>13 DEF SentOn
<1> QED
  BY <1>3, <1>4, <1>14, <1>15, SendKeeps

LEMMA LonerOpens ==
    ASSUME Calls(calls), NEW call \in Call, Fits(call), CanSend(1), NEW cs, cs = Append(calls, call)
    PROVE  /\ Calls(cs) /\ Len(cs) = Len(calls) + 1 /\ cs = calls \o <<call>>
           /\ Become(cs) => Opens(<<call>>)
<1>1. PICK new : new = <<call>>
  OBVIOUS
<1>2. /\ new \in Seq(Call) /\ Len(new) = 1 /\ DOMAIN new = {1} /\ new[1] = call
  BY <1>1
<1>3. Len(calls) + Len(new) <= MaxCalls /\ \A i \in DOMAIN new : Fits(new[i])
  BY <1>2 DEF CanSend
<1>4. cs = calls \o new
  BY <1>1, AppendIsConcat DEF Calls
<1>5. Calls(cs) /\ Len(cs) = Len(calls) + Len(new)
  BY <1>2, <1>3, <1>4, CallsAdded
<1>6. Become(cs) => Opens(new)
  BY <1>2, <1>3, <1>4, BecomeOpens
<1> QED
  BY <1>1, <1>2, <1>4, <1>5, <1>6

LEMMA ManyFormsFit ==
    ASSUME NEW n \in Nat, NEW form \in ProfileForms(n) \cup {None}
    PROVE  form \in ProfileForms(n + 1) \cup {None}
<1>1. 1 .. n \subseteq 1 .. (n + 1)
  OBVIOUS
<1> QED
  BY <1>1 DEF ProfileForms, Submission

(* An image is uploaded or deleted.                                        *)
LEMMA GallerySend ==
    ASSUME IInv, RenderAccount(AccountShown'), NEW kind \in GalleryKinds, NEW arg \in 0 .. MaxCalls, CanSend(1),
           Render([Page EXCEPT !.calls = Append(calls, NewCall(kind, arg, None))]),
           UNCHANGED <<server, faults, moves>>
    PROVE  IInv'
<1>1. PICK call : call = NewCall(kind, arg, None)
  OBVIOUS
<1>2. call \in Call /\ Fits(call) /\ call.kind = kind /\ call.phase = "sent"
  <2>1. kind \in Kinds /\ arg \in Args /\ kind \in {"upload", "delete"}
    BY DEF Kinds, Args, GalleryKinds
  <2>2. Carries(call)
    BY <1>1, <2>1 DEF NewCall, Carries, Toggles
  <2> QED
    BY <1>1, <2>1, <2>2, NewCalls DEF NewCall
<1>3. PICK cs : cs = Append(calls, call)
  OBVIOUS
<1>4. PICK page : page = [Page EXCEPT !.calls = cs] /\ Render(page)
  BY <1>1, <1>3
<1>5. /\ page.place = place /\ page.profile = profile /\ page.gallery = gallery
      /\ page.form = profileForm /\ page.calls = cs /\ page.crossed = crossed
  BY <1>4 DEF Page
<1>6. /\ Calls(calls) /\ Len(calls) \in Nat
  BY CallsAre DEF IInv, Types
<1>7. /\ Calls(cs) /\ Len(cs) = Len(calls) + 1 /\ (Become(cs) => Opens(<<call>>))
  BY <1>2, <1>3, <1>6, LonerOpens
<1>8. profileForm \in ProfileForms(Len(cs)) \cup {None}
  BY <1>6, <1>7, ManyFormsFit DEF IInv, Types, PickerType
<1>9. Proper(page)
  BY <1>5, <1>7, <1>8 DEF Proper, IInv, Types, BoundsType, ProfileType, GalleryType
<1>10. Become(cs) /\ profile' = profile /\ crossed' = crossed
  BY <1>4, <1>5, <1>9, Rendered DEF Proper
<1>11. PICK new : new = <<call>>
  OBVIOUS
<1>12. Opens(new) /\ \A i \in DOMAIN new : new[i].phase = "sent" /\ new[i].kind = kind
  BY <1>2, <1>7, <1>10, <1>11
<1>13. /\ UNCHANGED <<row, trades, images>> /\ faults' \in 0 .. MaxFaults /\ moves' \in 0 .. MaxMoves
  BY DEF server, IInv, Types, BoundsType
<1>14. Unturned(OnAccount) /\ Unturned(ProfileKinds) /\ Unturned(TradeKinds)
  <2>1. kind \notin OnAccount /\ kind \notin ProfileKinds /\ kind \notin TradeKinds
    BY DEF OnAccount, AccountKinds, ProfileKinds, Toggles, FormKinds, TradeKinds, GalleryKinds
  <2> QED
    BY <1>12, <2>1, OpenedUnturned
<1>15. ServerType'
  BY <1>13 DEF IInv, Types, ServerType
<1>16. FetchInv' /\ DataInv' /\ CacheInv'
  BY <1>10, <1>13, <1>14, FetchKept, CacheKept DEF IInv
<1>17. page.form # None => Told(page.form)
  BY <1>5, <1>10, <1>13, <1>14, PickerKept DEF IInv
<1>18. Catches(page)
  <2>1. \A i \in DOMAIN new : new[i].phase = "sent"
    BY <1>12
  <2>2. /\ Busy(GalleryKinds) \subseteq Busy(GalleryKinds)'
        /\ \A c \in Busy(GalleryKinds) : Like(calls'[c], calls[c])
    BY <1>12, <2>1, ManyOpened
  <2>3. Unheard(GalleryKinds) => Unheard(GalleryKinds)'
    BY <2>2 DEF Unheard, Like
  <2> QED
    BY <1>5, <1>13, <2>3 DEF IInv, ProfileInv, GalleryInv, Catches
<1> QED
  BY <1>4, <1>9, <1>13, <1>14, <1>15, <1>16, <1>17, <1>18, RenderStep

LEMMA ImagesKeep ==
    ASSUME IInv, RenderAccount(AccountShown'), UploadImage \/ \E image \in Shown(gallery) : DeleteImage(image)
    PROVE  IInv'
<1>1. Len(calls) \in Nat
  BY CallsAre DEF IInv, Types
<1>2. ASSUME UploadImage PROVE IInv'
  <2>1. Len(calls) + 1 \in 0 .. MaxCalls /\ "upload" \in GalleryKinds
    BY <1>1, <1>2 DEF UploadImage, CanSend, GalleryKinds
  <2>2. Render([Page EXCEPT !.calls = Append(calls, NewCall("upload", Len(calls) + 1, None))])
    BY <1>2 DEF UploadImage, Page
  <2> QED
    BY <1>2, <2>1, <2>2, GallerySend DEF UploadImage
<1>3. ASSUME NEW image \in Shown(gallery), DeleteImage(image) PROVE IInv'
  <2>1. image \in 0 .. MaxCalls /\ "delete" \in GalleryKinds
    BY DEF Shown, GalleryKinds, IInv, Types, GalleryType, IsQuery, Query, Images
  <2>2. Render([Page EXCEPT !.calls = Append(calls, NewCall("delete", image, None))])
    BY <1>3 DEF DeleteImage, Page
  <2> QED
    BY <1>3, <2>1, <2>2, GallerySend DEF DeleteImage
<1> QED
  BY <1>2, <1>3

(* The switch turns in the cache, which keeps what to turn it back to.     *)
LEMMA ToggleKeeps ==
    ASSUME IInv, RenderAccount(AccountShown'), Toggle
    PROVE  IInv'
<1> DEFINE available == ~profile.data.row.available
<1>1. PICK call : call = NewCall("availability", available, profile.data)
  OBVIOUS
<1>2. PICK new : new = <<call>>
  OBVIOUS
<1>3. PICK data : data = [profile.data EXCEPT !.row.available = available]
  OBVIOUS
<1>4. PICK q : q = [SetData(profile, data) EXCEPT !.fetch = NoFetch]
  OBVIOUS
<1>5. PICK page : page = Sent([Page EXCEPT !.profile = q], new) /\ Render(page)
  BY <1>1, <1>2, <1>3, <1>4 DEF Toggle
<1>6. PICK r : r = Unclean(q)
  OBVIOUS
<1>7. PICK cs : cs = calls \o new
  OBVIOUS
<1>8. /\ page.place = place /\ page.profile = r /\ page.gallery = gallery
      /\ page.form = profileForm /\ page.calls = cs
      /\ page.crossed = (crossed \/ \E i \in DOMAIN new : Overlaps(new[i].kind))
  BY <1>5, <1>6, <1>7 DEF Page, Sent, Unclean
<1>9. profile.data \in Profiles /\ IsQuery(profile, Profiles) /\ crossed \in BOOLEAN
  BY DEF Toggle, PageShown, Page, IInv, Types, ProfileType, IsQuery, Query
<1>10. data \in Profiles /\ data.trades = profile.data.trades
  BY <1>3, <1>9 DEF Profiles, Rows
<1>11. IsQuery(q, Profiles) /\ q.data = data /\ q.fetch.phase = "idle"
  <2>1. PICK written : written = SetData(profile, data)
    OBVIOUS
  <2>2. IsQuery(written, Profiles) /\ written.data = data
    BY <1>9, <1>10, <2>1, QueryWritten
  <2> QED
    BY <1>4, <2>1, <2>2 DEF IsQuery, Query, NoFetch
<1>12. IsQuery(r, Profiles) /\ r.data = data /\ r.fetch.phase = "idle"
  BY <1>6, <1>11, QueryUnclean
<1>13. /\ call \in Call /\ Fits(call) /\ call.kind = "availability" /\ call.phase = "sent"
       /\ call.before = profile.data
  <2>1. PICK arg : arg = available
    OBVIOUS
  <2>2. arg \in Args /\ arg \in BOOLEAN /\ "availability" \in Kinds
    BY <2>1 DEF Args, Kinds, Toggles
  <2>3. Carries(NewCall("availability", arg, profile.data))
    BY <1>9, <2>2 DEF NewCall, Carries, Toggles
  <2> QED
    BY <1>1, <1>9, <2>1, <2>2, <2>3, NewCalls DEF NewCall
<1>14. new \in Seq(Call) /\ Len(new) = 1 /\ DOMAIN new = {1} /\ new[1] = call
  BY <1>2, <1>13
<1>15. Calls(calls) /\ Len(calls) \in Nat /\ Len(calls) + Len(new) <= MaxCalls /\ \A i \in DOMAIN new : Fits(new[i])
  <2>1. CanSend(1)
    BY DEF Toggle
  <2>2. Calls(calls) /\ Len(calls) \in Nat
    BY CallsAre DEF IInv, Types
  <2> QED
    BY <1>13, <1>14, <2>1, <2>2 DEF CanSend
<1>16. Calls(cs) /\ Len(cs) = Len(calls) + 1
  <2>1. new \in Seq(Call) /\ Calls(calls) /\ Len(calls) + Len(new) <= MaxCalls /\ \A i \in DOMAIN new : Fits(new[i])
    BY <1>14, <1>15
  <2>2. Calls(cs) /\ Len(cs) = Len(calls) + Len(new)
    BY <1>7, <2>1, CallsAdded
  <2> QED
    BY <1>14, <2>2
<1>17. page.form \in ProfileForms(Len(page.calls)) \cup {None}
  BY <1>8, <1>15, <1>16, ManyFormsFit DEF IInv, Types, PickerType
<1>18. Proper(page)
  BY <1>8, <1>9, <1>12, <1>16, <1>17 DEF Proper, IInv, Types, BoundsType, GalleryType
<1>19. Become(cs) /\ profile' = r /\ crossed' = page.crossed
  BY <1>5, <1>8, <1>18, Rendered DEF Proper
<1>20. Opens(new) /\ \A i \in DOMAIN new : new[i].phase = "sent"
  BY <1>7, <1>13, <1>14, <1>15, <1>19, BecomeOpens
<1>21. /\ UNCHANGED <<row, trades, images>> /\ faults' \in 0 .. MaxFaults /\ moves' \in 0 .. MaxMoves
  BY DEF Toggle, server, IInv, Types, BoundsType
<1>22. Unturned(OnAccount) /\ Unturned(TradeKinds) /\ Unturned(GalleryKinds)
  <2>1. \A i \in DOMAIN new : new[i].kind \notin OnAccount /\ new[i].kind \notin TradeKinds /\ new[i].kind \notin GalleryKinds
    BY <1>13, <1>14 DEF OnAccount, AccountKinds, TradeKinds, GalleryKinds
  <2> QED
    BY <1>20, <2>1, OpenedUnturned
<1>23. ServerType'
  BY <1>21 DEF IInv, Types, ServerType
<1>24. FetchInv' /\ DataInv'
  BY <1>10, <1>12, <1>19 DEF FetchInv, DataInv
<1>25. ~crossed' => /\ ~crossed /\ Busy(RowKinds) = {} /\ Busy(TradeKinds) = {}
  <2>1. ~crossed' => ~crossed /\ ~Overlaps("availability")
    BY <1>8, <1>13, <1>14, <1>19
  <2>2. "availability" \in RowKinds /\ "availability" \in Toggles
    BY DEF RowKinds, Toggles
  <2> QED
    BY <2>1, <2>2, Overlapped
<1>26. CacheInv'
  <2> SUFFICES ASSUME ~crossed' PROVE CacheInv'
    BY DEF CacheInv
  <2>1. OneEach /\ RowKnown /\ TradesKnown /\ Undoes /\ Busy(RowKinds) = {} /\ Busy(TradeKinds) = {}
    BY <1>25 DEF IInv, ProfileInv, CacheInv
  <2>2. profile.data.row = row /\ profile.data.trades = trades
    BY <1>9, <2>1 DEF RowKnown, TradesKnown, Settled
  <2>3. PICK n : /\ Busy(RowKinds)' = {n} /\ Like(calls'[n], call) /\ Busy(Toggles)' = {n}
    <3>1. "availability" \in RowKinds /\ "availability" \in Toggles /\ Busy(Toggles) = {}
      BY <2>1, KindsAre DEF RowKinds, Toggles, Busy
    <3>2. Opens(<<call>>)
      BY <1>2, <1>20
    <3>3. PICK n : n = Len(calls) + 1
      OBVIOUS
    <3>4. /\ Busy(RowKinds)' = Busy(RowKinds) \cup {n} /\ Like(calls'[n], call)
          /\ Busy(Toggles)' = Busy(Toggles) \cup {n}
      BY <1>13, <3>1, <3>2, <3>3, OneOpened
    <3> QED
      BY <2>1, <3>1, <3>4
  <2>4. Busy(TradeKinds)' = {}
    BY <1>22, <2>1 DEF Unturned
  <2>5. calls'[n].kind = "availability" /\ calls'[n].phase = "sent" /\ calls'[n].before = profile.data
    BY <1>13, <2>3 DEF Like
  <2>6. OneEach'
    BY <2>3, <2>4 DEF OneEach
  <2>7. RowKnown'
    BY <2>3, <2>5 DEF RowKnown, Settled, Toggles
  <2>8. TradesKnown'
    BY <1>10, <1>12, <1>19, <1>21, <2>2, <2>4 DEF TradesKnown
  <2>9. Undoes'
    BY <1>21, <2>2, <2>3, <2>5 DEF Undoes
  <2> QED
    BY <2>6, <2>7, <2>8, <2>9 DEF CacheInv
<1>27. page.form # None => Told(page.form)
  BY <1>8, <1>19, <1>21, <1>22, PickerKept DEF IInv
<1>28. Catches(page)
  BY <1>8, <1>21, <1>22, GalleryKept DEF IInv
<1> QED
  BY <1>5, <1>18, <1>21, <1>22, <1>23, <1>24, <1>26, <1>27, <1>28, RenderStep

-----------------------------------------------------------------------------
(* Calls that are checked, commit or fail: one turns, and stays under way. *)
TurnsOn(c, call) ==
    /\ Turns(c, call) /\ call.kind = calls[c].kind /\ call.before = calls[c].before
    /\ call.mounted = calls[c].mounted /\ call.phase # "done" /\ calls[c].phase # "done"

LEMMA TurnedOn ==
    ASSUME NEW c, NEW call, TurnsOn(c, call), NEW kinds
    PROVE  /\ Busy(kinds)' = Busy(kinds)
           /\ c \in Busy(kinds) <=> calls[c].kind \in kinds
           /\ \A d \in Busy(kinds) : calls'[d].kind = calls[d].kind /\ calls'[d].before = calls[d].before
           /\ \A d \in Busy(kinds) : d # c => Like(calls'[d], calls[d])
           /\ calls'[c].phase = call.phase /\ calls'[c].answer = call.answer
<1>1. /\ c \in DOMAIN calls /\ DOMAIN calls' = DOMAIN calls
      /\ \A d \in DOMAIN calls : d # c => Like(calls'[d], calls[d])
      /\ calls'[c].kind = calls[c].kind /\ calls'[c].before = calls[c].before
      /\ calls'[c].phase = call.phase /\ calls'[c].answer = call.answer
      /\ call.phase # "done" /\ calls[c].phase # "done"
  BY DEF TurnsOn, Turns, Like
<1>2. \A d \in DOMAIN calls : calls'[d].kind = calls[d].kind /\ calls'[d].before = calls[d].before
  BY <1>1 DEF Like
<1>3. \A d \in DOMAIN calls : InFlight(calls'[d]) <=> InFlight(calls[d])
  BY <1>1 DEF Like, InFlight
<1> QED
  BY <1>1, <1>2, <1>3 DEF Busy, InFlight

(* A fetch beside the call stays unbelievable.                             *)
LEMMA TurnedFetch ==
    ASSUME ProfileInv, NEW c, NEW call, TurnsOn(c, call), calls[c].kind \in ProfileKinds,
           UNCHANGED profile, crossed => crossed'
    PROVE  FetchInv' /\ DataInv'
<1>1. Busy(ProfileKinds)' = Busy(ProfileKinds) /\ c \in Busy(ProfileKinds)
  BY TurnedOn
<1> QED
  BY <1>1 DEF ProfileInv, FetchInv, DataInv

(* Nothing was answered, and nothing is.                                   *)
LEMMA TurnedQuietly ==
    ASSUME ProfileInv, NEW c, NEW call, TurnsOn(c, call), call.phase # "answered",
           UNCHANGED <<profile, row, trades>>, ~crossed' => ~crossed /\ calls[c].phase # "answered"
    PROVE  CacheInv'
<1> SUFFICES ASSUME ~crossed' PROVE CacheInv'
  BY DEF CacheInv
<1>1. OneEach /\ RowKnown /\ TradesKnown /\ Undoes /\ calls[c].phase # "answered"
  BY DEF ProfileInv, CacheInv
<1>2. ASSUME NEW kinds
      PROVE  /\ Busy(kinds)' = Busy(kinds)
             /\ \A d \in Busy(kinds) :
                   /\ calls'[d].kind = calls[d].kind /\ calls'[d].before = calls[d].before
                   /\ calls'[d].phase = "answered" <=> calls[d].phase = "answered"
                   /\ calls'[d].phase = "answered" => calls'[d].answer = calls[d].answer
  BY <1>1, TurnedOn DEF Like
<1>3. OneEach'
  BY <1>1, <1>2 DEF OneEach
<1>4. (Settled(RowKinds)' <=> Settled(RowKinds)) /\ (Settled(TradeKinds)' <=> Settled(TradeKinds))
  <2>1. ASSUME NEW kinds PROVE Settled(kinds)' <=> Settled(kinds)
    BY <1>2 DEF Settled
  <2> QED
    BY <2>1
<1>5. RowKnown' /\ TradesKnown'
  BY <1>1, <1>2, <1>4 DEF RowKnown, TradesKnown
<1>6. Undoes'
  BY <1>1, <1>2 DEF Undoes
<1> QED
  BY <1>3, <1>5, <1>6 DEF CacheInv

(* The row is written and answered.                                        *)
LEMMA TurnedRow ==
    ASSUME ProfileInv, NEW c, NEW call, TurnsOn(c, call), calls[c].kind \in RowKinds,
           call.phase = "answered", call.answer = row', UNCHANGED <<profile, trades, crossed>>
    PROVE  CacheInv'
<1> SUFFICES ASSUME ~crossed PROVE CacheInv'
  BY DEF CacheInv
<1>1. OneEach /\ RowKnown /\ TradesKnown /\ Undoes
  BY DEF ProfileInv, CacheInv
<1>2. /\ Busy(RowKinds)' = Busy(RowKinds) /\ Busy(TradeKinds)' = Busy(TradeKinds) /\ Busy(Toggles)' = Busy(Toggles)
      /\ c \in Busy(RowKinds) /\ calls'[c].phase = "answered" /\ calls'[c].answer = row'
  BY TurnedOn
<1>3. Busy(RowKinds) = {c} /\ Busy(Toggles) \subseteq {c}
  BY <1>1, <1>2, KindsAre DEF OneEach, Busy
<1>4. Unturned(TradeKinds)
  <2>1. calls[c].kind \notin TradeKinds
    BY KindsAre
  <2> QED
    BY <2>1, TurnedUnturned DEF TurnsOn
<1>5. Settled(TradeKinds)' <=> Settled(TradeKinds)
  BY <1>4 DEF Settled, Unturned, Like
<1>6. OneEach'
  BY <1>1, <1>2 DEF OneEach
<1>7. RowKnown'
  BY <1>2, <1>3 DEF RowKnown, Settled
<1>8. TradesKnown'
  BY <1>1, <1>4, <1>5 DEF TradesKnown, Unturned, Like
<1>9. Undoes'
  <2>1. \A d \in Busy(Toggles) : calls'[d].before = calls[d].before
    BY TurnedOn
  <2> QED
    BY <1>1, <1>2, <1>3, <2>1 DEF Undoes
<1> QED
  BY <1>6, <1>7, <1>8, <1>9 DEF CacheInv

(* The list of trades is changed and answered.                             *)
LEMMA TurnedTrades ==
    ASSUME ProfileInv, NEW c, NEW call, TurnsOn(c, call), calls[c].kind \in TradeKinds,
           call.phase = "answered", call.answer = trades', UNCHANGED <<profile, row, crossed>>
    PROVE  CacheInv'
<1> SUFFICES ASSUME ~crossed PROVE CacheInv'
  BY DEF CacheInv
<1>1. OneEach /\ RowKnown /\ TradesKnown
  BY DEF ProfileInv, CacheInv
<1>2. /\ Busy(RowKinds)' = Busy(RowKinds) /\ Busy(TradeKinds)' = Busy(TradeKinds) /\ Busy(Toggles)' = Busy(Toggles)
      /\ c \in Busy(TradeKinds) /\ calls'[c].phase = "answered" /\ calls'[c].answer = trades'
  BY TurnedOn
<1>3. Busy(TradeKinds) = {c} /\ Busy(Toggles) = {}
  BY <1>1, <1>2 DEF OneEach
<1>4. Unturned(RowKinds)
  <2>1. calls[c].kind \notin RowKinds
    BY KindsAre
  <2> QED
    BY <2>1, TurnedUnturned DEF TurnsOn
<1>5. Settled(RowKinds)' <=> Settled(RowKinds)
  BY <1>4 DEF Settled, Unturned, Like
<1>6. OneEach'
  BY <1>1, <1>2 DEF OneEach
<1>7. RowKnown'
  BY <1>1, <1>4, <1>5 DEF RowKnown, Unturned, Like
<1>8. TradesKnown'
  BY <1>2, <1>3 DEF TradesKnown, Settled
<1>9. Undoes'
  BY <1>2, <1>3 DEF Undoes
<1> QED
  BY <1>6, <1>7, <1>8, <1>9 DEF CacheInv

(* The picker hears of the call: now, or when it is received.              *)
LEMMA TurnedPicker ==
    ASSUME ProfileInv, NEW c, NEW call, TurnsOn(c, call), calls[c].kind \in TradeKinds, crossed => crossed',
           call.phase = "answered" \/ (UNCHANGED trades /\ (~crossed' => calls[c].phase # "answered")),
           NEW form, form # None => form = profileForm
    PROVE  form # None => Told(form)
<1> SUFFICES ASSUME form # None, profileForm' # None, profileForm.clean, ~crossed' PROVE Told(form)
  BY DEF Told
<1>1. /\ \A d \in Busy(TradeKinds) : calls[d].mounted
      /\ Settled(TradeKinds) => form.assigned = trades
  BY DEF ProfileInv, PickerInv
<1>2. /\ Busy(TradeKinds)' = Busy(TradeKinds) /\ c \in Busy(TradeKinds) /\ calls'[c].phase = call.phase
      /\ \A d \in Busy(TradeKinds) : calls'[d].kind = calls[d].kind
      /\ \A d \in Busy(TradeKinds) : d # c => Like(calls'[d], calls[d])
  BY TurnedOn
<1>3. ASSUME NEW d \in Busy(TradeKinds) PROVE calls'[d].mounted
  <2>1. calls[d].mounted /\ calls[d].kind \in FormKinds /\ d \in DOMAIN calls
    BY <1>1, KindsAre DEF Busy
  <2>2. CASE d = c
    <3>1. Stays(call)
      BY <2>1, <2>2 DEF Stays, TurnsOn
    <3> QED
      BY <2>2, <3>1 DEF TurnsOn, Turns
  <2>3. CASE d # c
    <3>1. Stays(calls[d])
      BY <2>1 DEF Stays
    <3> QED
      BY <2>1, <2>3, <3>1 DEF TurnsOn, Turns
  <2> QED
    BY <2>2, <2>3
<1>4. Settled(TradeKinds)' => form.assigned = trades'
  <2>1. CASE call.phase = "answered"
    BY <1>2, <2>1 DEF Settled
  <2>2. CASE call.phase # "answered"
    <3>1. Settled(TradeKinds)' => Settled(TradeKinds)
      BY <1>2, <2>2 DEF Settled, Like
    <3> QED
      BY <1>1, <2>2, <3>1
  <2> QED
    BY <2>1, <2>2
<1> QED
  BY <1>2, <1>3, <1>4 DEF Told

(* What an endpoint replies, at last or for its second step.               *)
Suits(kind, phase, answer) ==
    /\ phase \in {"checked", "answered", "failed"} /\ answer \in Answers
    /\ kind \in RowKinds /\ phase = "answered" => answer \in Rows
    /\ kind \in TradeKinds /\ phase = "answered" => answer \subseteq Trades
    /\ kind = "assign" /\ phase = "checked" => answer \subseteq Trades

LEMMA Replied ==
    ASSUME IInv, NEW c \in DOMAIN calls, calls[c].kind \in OnProfile, calls[c].phase # "done",
           NEW phase, NEW answer, Suits(calls[c].kind, phase, answer), Reply(c, phase, answer)
    PROVE  /\ UNCHANGED <<place, profile, gallery, profileForm, crossed, faults, moves>>
           /\ Calls(calls)' /\ Len(calls') = Len(calls) /\ Unturned(OnAccount)
           /\ \E call : TurnsOn(c, call) /\ call.phase = phase /\ call.answer = answer
<1>1. calls[c] \in Call /\ Fits(calls[c])
  BY CallsAre DEF IInv, Types
<1>2. PICK call : call = [calls[c] EXCEPT !.phase = phase, !.answer = answer]
  OBVIOUS
<1>3. phase \in Phases /\ phase # "done" /\ answer \in Answers
  BY DEF Suits, Phases
<1>4. /\ call \in Call /\ call.kind = calls[c].kind /\ call.arg = calls[c].arg
      /\ call.before = calls[c].before /\ call.mounted = calls[c].mounted
      /\ call.phase = phase /\ call.answer = answer
  BY <1>1, <1>2, <1>3 DEF Call
<1>5. Fits(call)
  <2>1. Carries(call)
    BY <1>1, <1>4 DEF Fits, InFlight, Carries
  <2>2. call.kind \notin UpdateKinds
    BY <1>4, KindsAre
  <2>3. IsTold(call)
    BY <1>4, <2>2 DEF IsTold, Suits
  <2> QED
    BY <2>1, <2>3 DEF Fits
<1>6. calls' = [calls EXCEPT ![c] = call]
  BY <1>2 DEF Reply
<1>7. Calls(calls)' /\ Turns(c, call)
  BY <1>4, <1>5, <1>6, CallMoved DEF IInv, Types
<1>8. Len(calls') = Len(calls)
  BY <1>7 DEF Turns
<1>9. TurnsOn(c, call)
  BY <1>3, <1>4, <1>7 DEF TurnsOn
<1>10. Unturned(OnAccount)
  BY <1>4, <1>7, KindsAre, TurnedUnturned
<1>11. UNCHANGED <<place, profile, gallery, profileForm, crossed, faults, moves>>
  BY DEF Reply
<1> QED
  BY <1>4, <1>7, <1>8, <1>9, <1>10, <1>11

(* An endpoint of the profile replies: no image changes.                   *)
LEMMA ProfileReplied ==
    ASSUME IInv, RenderAccount(AccountShown'), NEW c \in DOMAIN calls, NEW call, TurnsOn(c, call),
           calls[c].kind \in ProfileKinds, Calls(calls)', Unturned(OnAccount), Len(calls') = Len(calls),
           UNCHANGED <<place, profile, gallery, profileForm, crossed, faults, moves, images>>,
           row' \in Rows, trades' \subseteq Trades, CacheInv', profileForm # None => Told(profileForm)
    PROVE  IInv'
<1>1. Unturned(GalleryKinds)
  <2>1. calls[c].kind \notin GalleryKinds
    BY KindsAre
  <2> QED
    BY <2>1, TurnedUnturned DEF TurnsOn
<1>2. FetchInv' /\ DataInv'
  BY TurnedFetch DEF IInv
<1>3. PickerInv'
  BY DEF Told, IInv, ProfileInv, PickerInv
<1>4. IsQuery(gallery', Images) /\ IsQuery(profile', Profiles)
  BY DEF IInv, Types, GalleryType, ProfileType, IsQuery
<1>5. GalleryType' /\ GalleryInv'
  BY <1>1, <1>4, GalleryStays DEF FreshIsTrue, ShownIsTrue
<1>6. ServerType' /\ faults' \in 0 .. MaxFaults /\ moves' \in 0 .. MaxMoves
  BY DEF IInv, Types, ServerType, BoundsType
<1> QED
  BY <1>2, <1>3, <1>4, <1>5, <1>6, QuietStep

(* The row of the profile is written.                                      *)
LEMMA CommitRowKeeps ==
    ASSUME IInv, RenderAccount(AccountShown'), NEW c \in DOMAIN calls, CommitRow(c)
    PROVE  IInv'
<1>1. /\ calls[c].kind \in RowKinds /\ calls[c].phase = "sent" /\ row' = RowAfter(calls[c])
      /\ Reply(c, "answered", row') /\ UNCHANGED <<trades, images>>
  BY DEF CommitRow
<1>2. calls[c].kind \in ProfileKinds /\ calls[c].kind \in OnProfile
  BY <1>1, KindsAre
<1>3. calls[c] \in Call /\ Carries(calls[c])
  BY <1>1, CallsAre DEF IInv, Types, Fits, InFlight
<1>4. row \in Rows /\ trades \subseteq Trades
  BY DEF IInv, Types, ServerType
<1>5. row' \in Rows
  <2>1. CASE calls[c].kind \in Toggles
    <3>1. row' = [row EXCEPT !.available = calls[c].arg] /\ calls[c].arg \in BOOLEAN
      BY <1>1, <1>3, <2>1 DEF RowAfter, Carries, Toggles
    <3> QED
      BY <1>4, <3>1 DEF Rows
  <2>2. CASE calls[c].kind = "save"
    <3>1. row' = [row EXCEPT !.fields = calls[c].arg] /\ calls[c].arg \in Values
      BY <1>1, <1>3, <2>2 DEF RowAfter, Carries, Toggles
    <3> QED
      BY <1>4, <3>1 DEF Rows
  <2>3. CASE calls[c].kind = "cni"
    <3>1. row' = [row EXCEPT !.cni = IF @ = "verified" THEN @ ELSE "pending"]
      BY <1>1, <2>3 DEF RowAfter, Toggles
    <3> QED
      BY <1>4, <3>1 DEF Rows, Statuses
  <2> QED
    BY <1>1, <2>1, <2>2, <2>3 DEF RowKinds
<1>6. Suits(calls[c].kind, "answered", row')
  BY <1>1, <1>2, <1>5, KindsAre DEF Suits, Answers
<1>7. /\ UNCHANGED <<place, profile, gallery, profileForm, crossed, faults, moves>>
      /\ Calls(calls)' /\ Len(calls') = Len(calls) /\ Unturned(OnAccount)
      /\ \E call : TurnsOn(c, call) /\ call.phase = "answered" /\ call.answer = row'
  BY <1>1, <1>2, <1>6, Replied
<1>8. PICK call : TurnsOn(c, call) /\ call.phase = "answered" /\ call.answer = row'
  BY <1>7
<1>9. CacheInv'
  BY <1>1, <1>7, <1>8, TurnedRow DEF IInv
<1>10. Unturned(TradeKinds)
  <2>1. calls[c].kind \notin TradeKinds
    BY <1>1, <1>2, KindsAre
  <2> QED
    BY <1>8, <2>1, TurnedUnturned DEF TurnsOn
<1>11. profileForm # None => Told(profileForm)
  BY <1>1, <1>7, <1>10, PickerKept DEF IInv
<1> QED
  BY <1>1, <1>2, <1>4, <1>5, <1>7, <1>8, <1>9, <1>11, ProfileReplied

(* The list of trades: what is checked or refused changes nothing.         *)
LEMMA TradesUntouched ==
    ASSUME IInv, RenderAccount(AccountShown'), NEW c \in DOMAIN calls, calls[c].kind \in TradeKinds,
           calls[c].phase \in {"sent", "checked"}, NEW phase, NEW answer,
           phase \in {"checked", "failed"}, answer \subseteq Trades \/ (answer = None /\ phase = "failed"),
           Reply(c, phase, answer), UNCHANGED <<row, trades, images>>
    PROVE  IInv'
<1>1. calls[c].kind \in ProfileKinds /\ calls[c].kind \in OnProfile /\ calls[c].kind \notin RowKinds
  BY KindsAre
<1>2. Suits(calls[c].kind, phase, answer)
  BY <1>1 DEF Suits, Answers
<1>3. /\ UNCHANGED <<place, profile, gallery, profileForm, crossed, faults, moves>>
      /\ Calls(calls)' /\ Len(calls') = Len(calls) /\ Unturned(OnAccount)
      /\ \E call : TurnsOn(c, call) /\ call.phase = phase /\ call.answer = answer
  BY <1>1, <1>2, Replied
<1>4. PICK call : TurnsOn(c, call) /\ call.phase = phase /\ call.answer = answer
  BY <1>3
<1>5. CacheInv'
  BY <1>3, <1>4, TurnedQuietly DEF IInv
<1>6. profileForm # None => Told(profileForm)
  BY <1>3, <1>4, TurnedPicker DEF IInv
<1>7. row' \in Rows /\ trades' \subseteq Trades
  BY DEF IInv, Types, ServerType
<1> QED
  BY <1>1, <1>3, <1>4, <1>5, <1>6, <1>7, ProfileReplied

LEMMA TradesChanged ==
    ASSUME IInv, RenderAccount(AccountShown'), NEW c \in DOMAIN calls, calls[c].kind \in TradeKinds,
           calls[c].phase \in {"sent", "checked"}, trades' \subseteq Trades,
           Reply(c, "answered", trades'), UNCHANGED <<row, images>>
    PROVE  IInv'
<1>1. calls[c].kind \in ProfileKinds /\ calls[c].kind \in OnProfile /\ calls[c].kind \notin RowKinds
  BY KindsAre
<1>2. Suits(calls[c].kind, "answered", trades')
  BY <1>1 DEF Suits, Answers
<1>3. /\ UNCHANGED <<place, profile, gallery, profileForm, crossed, faults, moves>>
      /\ Calls(calls)' /\ Len(calls') = Len(calls) /\ Unturned(OnAccount)
      /\ \E call : TurnsOn(c, call) /\ call.phase = "answered" /\ call.answer = trades'
  BY <1>1, <1>2, Replied
<1>4. PICK call : TurnsOn(c, call) /\ call.phase = "answered" /\ call.answer = trades'
  BY <1>3
<1>5. CacheInv'
  BY <1>3, <1>4, TurnedTrades DEF IInv
<1>6. profileForm # None => Told(profileForm)
  BY <1>3, <1>4, TurnedPicker DEF IInv
<1>7. row' \in Rows
  BY DEF IInv, Types, ServerType
<1> QED
  BY <1>1, <1>3, <1>4, <1>5, <1>6, <1>7, ProfileReplied

LEMMA CommitTradesKeeps ==
    ASSUME IInv, RenderAccount(AccountShown'), NEW c \in DOMAIN calls,
           CheckAssign(c) \/ InsertAssign(c) \/ CommitRemove(c)
    PROVE  IInv'
<1>1. /\ calls[c].kind \in TradeKinds /\ calls[c].phase \in {"sent", "checked"}
  BY DEF CheckAssign, InsertAssign, CommitRemove, TradeKinds
<1>2. calls[c] \in Call /\ Fits(calls[c]) /\ InFlight(calls[c])
  BY <1>1, CallsAre DEF IInv, Types, InFlight
<1>3. Carries(calls[c]) /\ IsTold(calls[c]) /\ trades \subseteq Trades
  BY <1>2 DEF Fits, IInv, Types, ServerType
<1>4. CASE CheckAssign(c)
  <2>1. calls[c].arg \subseteq Trades /\ UNCHANGED <<row, trades, images>>
    BY <1>3, <1>4 DEF CheckAssign, Carries, server
  <2>2. \/ Reply(c, "failed", None)
        \/ \E new : new = calls[c].arg \ trades /\ Reply(c, "checked", new)
    BY <1>4 DEF CheckAssign
  <2>3. CASE Reply(c, "failed", None)
    BY <1>1, <2>1, <2>3, TradesUntouched
  <2>4. CASE \E new : new = calls[c].arg \ trades /\ Reply(c, "checked", new)
    <3>1. PICK new : new = calls[c].arg \ trades /\ Reply(c, "checked", new)
      BY <2>4
    <3>2. new \subseteq Trades
      BY <2>1, <3>1
    <3> QED
      BY <1>1, <2>1, <3>1, <3>2, TradesUntouched
  <2> QED
    BY <2>2, <2>3, <2>4
<1>5. CASE InsertAssign(c)
  <2>1. calls[c].answer \subseteq Trades /\ UNCHANGED <<row, images>>
    BY <1>3, <1>5 DEF InsertAssign, IsTold
  <2>2. CASE Reply(c, "failed", None) /\ UNCHANGED trades
    BY <1>1, <2>1, <2>2, TradesUntouched
  <2>3. CASE trades' = trades \cup calls[c].answer /\ Reply(c, "answered", trades')
    <3>1. trades' \subseteq Trades
      BY <1>3, <2>1, <2>3
    <3> QED
      BY <1>1, <2>1, <2>3, <3>1, TradesChanged
  <2> QED
    BY <1>5, <2>2, <2>3 DEF InsertAssign
<1>6. CASE CommitRemove(c)
  <2>1. UNCHANGED <<row, images>>
    BY <1>6 DEF CommitRemove
  <2>2. CASE Reply(c, "failed", None) /\ UNCHANGED trades
    BY <1>1, <2>1, <2>2, TradesUntouched
  <2>3. CASE trades' = trades \ {calls[c].arg} /\ Reply(c, "answered", trades')
    <3>1. trades' \subseteq Trades
      BY <1>3, <2>3
    <3> QED
      BY <1>1, <2>1, <2>3, <3>1, TradesChanged
  <2> QED
    BY <1>6, <2>2, <2>3 DEF CommitRemove
<1> QED
  BY <1>4, <1>5, <1>6

(* The portfolio.                                                          *)
LEMMA ImagesReplied ==
    ASSUME IInv, RenderAccount(AccountShown'), NEW c \in DOMAIN calls, calls[c].kind \in GalleryKinds,
           calls[c].phase \in {"sent", "checked"}, NEW phase, phase \in {"checked", "answered", "failed"},
           Reply(c, phase, None), UNCHANGED <<row, trades>>, images' \in Images,
           phase = "answered" \/ images' = images
    PROVE  IInv'
<1>1. /\ calls[c].kind \in OnProfile /\ calls[c].kind \notin ProfileKinds
      /\ calls[c].kind \notin RowKinds /\ calls[c].kind \notin TradeKinds /\ calls[c].kind # "assign"
  BY KindsAre DEF TradeKinds
<1>2. Suits(calls[c].kind, phase, None)
  BY <1>1 DEF Suits, Answers
<1>3. /\ UNCHANGED <<place, profile, gallery, profileForm, crossed, faults, moves>>
      /\ Calls(calls)' /\ Len(calls') = Len(calls) /\ Unturned(OnAccount)
      /\ \E call : TurnsOn(c, call) /\ call.phase = phase /\ call.answer = None
  BY <1>1, <1>2, Replied
<1>4. PICK call : TurnsOn(c, call) /\ call.phase = phase
  BY <1>3
<1>5. Unturned(ProfileKinds) /\ Unturned(TradeKinds)
  BY <1>1, <1>4, TurnedUnturned DEF TurnsOn
<1>6. FetchInv' /\ DataInv' /\ CacheInv' /\ PickerInv'
  BY <1>3, <1>5, FetchKept, CacheKept, PickerStays DEF IInv
<1>7. IsQuery(gallery', Images) /\ IsQuery(profile', Profiles)
  BY <1>3 DEF IInv, Types, GalleryType, ProfileType, IsQuery
<1>8. /\ Busy(GalleryKinds)' = Busy(GalleryKinds) /\ c \in Busy(GalleryKinds) /\ calls'[c].phase = phase
      /\ \A d \in Busy(GalleryKinds) : d # c => Like(calls'[d], calls[d])
  BY <1>4, TurnedOn
<1>9. GalleryType' /\ GalleryInv'
  <2>1. CASE phase = "answered"
    <3>1. Unheard(GalleryKinds)'
      BY <1>8, <2>1 DEF Unheard
    <3> QED
      BY <1>7, <3>1 DEF GalleryInv, GalleryType
  <2>2. CASE phase # "answered" /\ images' = images
    <3>1. Unheard(GalleryKinds)' <=> Unheard(GalleryKinds)
      BY <1>8, <2>2 DEF Unheard, Like
    <3> QED
      BY <1>3, <1>7, <2>2, <3>1 DEF IInv, ProfileInv, GalleryInv, GalleryType, FreshIsTrue, ShownIsTrue
  <2> QED
    BY <2>1, <2>2
<1>10. ServerType' /\ faults' \in 0 .. MaxFaults /\ moves' \in 0 .. MaxMoves
  BY <1>3 DEF IInv, Types, ServerType, BoundsType
<1> QED
  BY <1>3, <1>6, <1>7, <1>9, <1>10, QuietStep

LEMMA CommitImagesKeeps ==
    ASSUME IInv, RenderAccount(AccountShown'), NEW c \in DOMAIN calls,
           CheckUpload(c) \/ CreateImage(c) \/ CommitDelete(c)
    PROVE  IInv'
<1>1. calls[c].kind \in GalleryKinds /\ calls[c].phase \in {"sent", "checked"}
  BY DEF CheckUpload, CreateImage, CommitDelete, GalleryKinds
<1>2. Carries(calls[c]) /\ images \in Images
  BY <1>1, CallsAre DEF IInv, Types, Fits, InFlight, ServerType
<1>3. CASE CheckUpload(c)
  <2>1. PICK phase \in {"checked", "failed"} : Reply(c, phase, None)
    BY <1>3 DEF CheckUpload
  <2>2. UNCHANGED <<row, trades, images>> /\ images' \in Images
    BY <1>2, <1>3 DEF CheckUpload, server
  <2> QED
    BY <1>1, <2>1, <2>2, ImagesReplied
<1>4. CASE CreateImage(c)
  <2>1. Reply(c, "answered", None) /\ UNCHANGED <<row, trades>> /\ images' = images \cup {calls[c].arg}
    BY <1>4 DEF CreateImage
  <2>2. images' \in Images
    BY <1>2, <1>4, <2>1 DEF CreateImage, Carries, Images
  <2> QED
    BY <1>1, <2>1, <2>2, ImagesReplied
<1>5. CASE CommitDelete(c)
  <2>1. /\ Reply(c, IF calls[c].arg \in images THEN "answered" ELSE "failed", None)
        /\ UNCHANGED <<row, trades>> /\ images' = images \ {calls[c].arg}
    BY <1>5 DEF CommitDelete
  <2>2. images' \in Images
    BY <1>2, <2>1 DEF Images
  <2>3. CASE calls[c].arg \in images
    <3>1. Reply(c, "answered", None)
      BY <2>1, <2>3
    <3> QED
      BY <1>1, <2>1, <2>2, <3>1, ImagesReplied
  <2>4. CASE calls[c].arg \notin images
    <3>1. Reply(c, "failed", None) /\ images' = images
      BY <2>1, <2>4
    <3> QED
      BY <1>1, <2>1, <2>2, <3>1, ImagesReplied
  <2> QED
    BY <2>3, <2>4
<1> QED
  BY <1>3, <1>4, <1>5

(* A request or an answer is lost.                                         *)
LEMMA CallFailed ==
    ASSUME IInv, NEW c \in DOMAIN calls, calls[c].phase # "done", NEW call,
           call = [calls[c] EXCEPT !.phase = "failed", !.answer = None]
    PROVE  /\ call \in Call /\ Fits(call) /\ call.kind = calls[c].kind /\ call.before = calls[c].before
           /\ call.mounted = calls[c].mounted /\ call.phase = "failed"
<1>1. calls[c] \in Call /\ Fits(calls[c])
  BY CallsAre DEF IInv, Types
<1>2. /\ call \in Call /\ call.kind = calls[c].kind /\ call.arg = calls[c].arg
      /\ call.before = calls[c].before /\ call.mounted = calls[c].mounted
      /\ call.phase = "failed"
  BY <1>1 DEF Call, Phases, Answers
<1> QED
  BY <1>1, <1>2 DEF Fits, InFlight, Carries, IsTold

LEMMA CallTakenOut ==
    ASSUME NEW cs, Calls(cs), NEW c \in DOMAIN cs, NEW call, NEW ds,
           call = [cs[c] EXCEPT !.phase = "failed", !.answer = None],
           ds = [[cs EXCEPT ![c].phase = "failed"] EXCEPT ![c].answer = None]
    PROVE  ds = [cs EXCEPT ![c] = call]
<1>1. PICK once : once = [cs[c] EXCEPT !.phase = "failed"]
  OBVIOUS
<1>2. cs[c] \in Call
  BY CallsAre
<1>3. call = [once EXCEPT !.answer = None]
  BY <1>1, <1>2 DEF Call
<1>4. ds = [[cs EXCEPT ![c] = once] EXCEPT ![c].answer = None]
  BY <1>1
<1>5. PICK es : es = [cs EXCEPT ![c] = once]
  OBVIOUS
<1>6. es[c] = once /\ DOMAIN es = DOMAIN cs
  BY <1>5
<1>7. ds = [es EXCEPT ![c] = call]
  BY <1>3, <1>4, <1>5, <1>6
<1> QED
  BY <1>5, <1>7

LEMMA LostImages ==
    ASSUME IInv, NEW c, NEW call, TurnsOn(c, call), call.phase = "failed", calls[c].kind \in GalleryKinds,
           UNCHANGED images, NEW page, page.form = profileForm, NEW lost \in BOOLEAN,
           lost = (calls[c].phase = "answered"), page.gallery = [gallery EXCEPT !.missed = gallery.missed \/ lost]
    PROVE  Catches(page)
<1>1. IsQuery(gallery, Images)
  BY DEF IInv, Types, GalleryType
<1>2. PICK q : q = [gallery EXCEPT !.missed = gallery.missed \/ lost]
  OBVIOUS
<1>3. /\ lost \/ FreshIsTrue(gallery, images) => FreshIsTrue(q, images)
      /\ lost \/ ShownIsTrue(gallery, images) => ShownIsTrue(q, images)
  BY <1>1, <1>2, QueryMissed
<1>4. CASE lost
  BY <1>2, <1>3, <1>4 DEF Catches
<1>5. CASE ~lost
  <2>1. /\ Busy(GalleryKinds)' = Busy(GalleryKinds) /\ c \in Busy(GalleryKinds) /\ calls'[c].phase = "failed"
        /\ \A d \in Busy(GalleryKinds) : d # c => Like(calls'[d], calls[d])
    BY TurnedOn
  <2>2. Unheard(GalleryKinds)' <=> Unheard(GalleryKinds)
    BY <1>5, <2>1 DEF Unheard, Like
  <2> QED
    BY <1>2, <1>3, <2>2 DEF Catches, IInv, ProfileInv, GalleryInv
<1> QED
  BY <1>4, <1>5

LEMMA ProfileCallFailsKeeps ==
    ASSUME IInv, RenderAccount(AccountShown'), NEW c \in DOMAIN calls, ProfileCallFails(c)
    PROVE  IInv'
<1>1. /\ calls[c].kind \in OnProfile /\ calls[c].phase # "done" /\ calls[c].kind \notin OnAccount
      /\ UNCHANGED <<row, trades, images>> /\ faults' \in 0 .. MaxFaults /\ moves' \in 0 .. MaxMoves
  BY KindsAre DEF ProfileCallFails, OnProfile, server, IInv, Types, BoundsType
<1>2. PICK lost \in BOOLEAN : lost = (calls[c].phase = "answered")
  OBVIOUS
<1>3. PICK call : call = [calls[c] EXCEPT !.phase = "failed", !.answer = None]
  OBVIOUS
<1>4. /\ call \in Call /\ Fits(call) /\ call.kind = calls[c].kind /\ call.before = calls[c].before
      /\ call.mounted = calls[c].mounted /\ call.phase = "failed"
  BY <1>1, <1>3, CallFailed
<1>5. PICK page : /\ page = [Page EXCEPT
                       !.calls[c].phase = "failed", !.calls[c].answer = None,
                       !.crossed = @ \/ (lost /\ calls[c].kind \in ProfileKinds),
                       !.gallery.missed = @ \/ (lost /\ calls[c].kind \in GalleryKinds)]
                  /\ Render(page)
  BY <1>2 DEF ProfileCallFails
<1>6. /\ page.place = place /\ page.profile = profile /\ page.form = profileForm
      /\ page.calls = [[calls EXCEPT ![c].phase = "failed"] EXCEPT ![c].answer = None]
      /\ page.crossed = (crossed \/ (lost /\ calls[c].kind \in ProfileKinds))
      /\ page.gallery = [gallery EXCEPT !.missed = gallery.missed \/ (lost /\ calls[c].kind \in GalleryKinds)]
  BY <1>5 DEF Page
<1>7. Calls(calls) /\ IsQuery(gallery, Images) /\ IsQuery(profile, Profiles) /\ crossed \in BOOLEAN
  BY DEF IInv, Types, GalleryType, ProfileType
<1>8. PICK cs : cs = page.calls
  OBVIOUS
<1>9. cs = [calls EXCEPT ![c] = call]
  BY <1>3, <1>6, <1>7, <1>8, CallTakenOut
<1>10. Calls(cs) /\ Len(cs) = Len(calls)
  <2>1. call \in Call /\ Fits(call) /\ Calls(calls)
    BY <1>4, <1>7
  <2> QED
    BY <1>9, <2>1, CallTurned DEF Calls
<1>11. PICK also \in BOOLEAN : also = (lost /\ calls[c].kind \in GalleryKinds)
  OBVIOUS
<1>12. PICK q : q = [gallery EXCEPT !.missed = gallery.missed \/ also]
  OBVIOUS
<1>13. page.gallery = q
  BY <1>6, <1>11, <1>12
<1>14. /\ IsQuery(q, Images)
  BY <1>7, <1>12, QueryMissed
<1>15. Proper(page)
  BY <1>6, <1>7, <1>8, <1>10, <1>13, <1>14 DEF Proper, IInv, Types, BoundsType, PickerType
<1>16. /\ Become(cs) /\ profile' = profile
       /\ crossed' = (crossed \/ (lost /\ calls[c].kind \in ProfileKinds))
  BY <1>5, <1>6, <1>8, <1>15, Rendered DEF Proper
<1>17. TurnsOn(c, call)
  BY <1>1, <1>4, <1>7, <1>9, <1>16, BecomeTurns DEF TurnsOn
<1>18. Unturned(OnAccount)
  BY <1>1, <1>4, <1>17, TurnedUnturned DEF TurnsOn
<1>19. ServerType'
  BY <1>1 DEF IInv, Types, ServerType
<1>20. FetchInv' /\ DataInv' /\ CacheInv' /\ (page.form # None => Told(page.form)) /\ Catches(page)
  <2>1. CASE calls[c].kind \in ProfileKinds
    <3>1. calls[c].kind \notin GalleryKinds
      BY <2>1, KindsAre
    <3>2. Unturned(GalleryKinds)
      BY <1>17, <3>1, TurnedUnturned DEF TurnsOn
    <3>3. crossed => crossed'
      BY <1>16
    <3>4. ~crossed' => ~crossed /\ calls[c].phase # "answered"
      BY <1>2, <1>16, <2>1
    <3>5. FetchInv' /\ DataInv'
      BY <1>16, <1>17, <2>1, <3>3, TurnedFetch DEF IInv
    <3>6. CacheInv'
      BY <1>1, <1>4, <1>16, <1>17, <3>4, TurnedQuietly DEF IInv
    <3>7. page.form # None => Told(page.form)
      <4>1. CASE calls[c].kind \in TradeKinds
        BY <1>1, <1>4, <1>6, <1>17, <3>3, <3>4, <4>1, TurnedPicker DEF IInv
      <4>2. CASE calls[c].kind \notin TradeKinds
        <5>1. Unturned(TradeKinds)
          BY <1>17, <4>2, TurnedUnturned DEF TurnsOn
        <5> QED
          BY <1>1, <1>6, <3>3, <5>1, PickerKept DEF IInv
      <4> QED
        BY <4>1, <4>2
    <3>8. page.gallery = gallery
      <4>1. gallery.missed \in BOOLEAN
        BY <1>7 DEF IsQuery, Query
      <4>2. q = [gallery EXCEPT !.missed = gallery.missed]
        BY <1>11, <1>12, <3>1, <4>1
      <4> QED
        BY <1>7, <1>13, <4>2 DEF IsQuery, Query
    <3>9. Catches(page)
      BY <1>1, <1>6, <3>2, <3>8, GalleryKept DEF IInv
    <3> QED
      BY <3>5, <3>6, <3>7, <3>9
  <2>2. CASE calls[c].kind \notin ProfileKinds
    <3>1. calls[c].kind \in GalleryKinds /\ calls[c].kind \notin TradeKinds
      BY <1>1, <2>2, KindsAre DEF OnProfile
    <3>2. Unturned(ProfileKinds) /\ Unturned(TradeKinds)
      BY <1>17, <2>2, <3>1, TurnedUnturned DEF TurnsOn
    <3>3. crossed' = crossed
      BY <1>7, <1>16, <2>2
    <3>4. FetchInv' /\ DataInv' /\ CacheInv'
      BY <1>1, <1>16, <3>2, <3>3, FetchKept, CacheKept DEF IInv
    <3>5. page.form # None => Told(page.form)
      BY <1>1, <1>6, <3>2, <3>3, PickerKept DEF IInv
    <3>6. also = lost
      BY <1>11, <3>1
    <3>7. page.gallery = [gallery EXCEPT !.missed = gallery.missed \/ lost]
      BY <1>12, <1>13, <3>6
    <3>8. Catches(page)
      BY <1>1, <1>2, <1>4, <1>6, <1>17, <3>1, <3>7, LostImages
    <3> QED
      BY <3>4, <3>5, <3>8
  <2> QED
    BY <2>1, <2>2
<1> QED
  BY <1>1, <1>5, <1>15, <1>18, <1>19, <1>20, RenderStep

-----------------------------------------------------------------------------
(* An answer is received.                                                  *)

(* The form takes the list of trades, and is reset by the last answer.     *)
TradesTaken(form, c) ==
    IF calls[c].mounted /\ calls[c].phase = "answered" /\ calls[c].kind \in TradeKinds
    THEN calls[c].answer ELSE form.assigned

LEMMA TradesAreTaken ==
    ASSUME NEW n, NEW form \in ProfileForms(n), NEW call \in Call, IsTold(call), NEW next,
           next = TradesAfter(form, call, call.phase = "answered")
    PROVE  /\ next \in ProfileForms(n) /\ next.clean = form.clean /\ next.submit = form.submit
           /\ next.assigned = IF call.phase = "answered" /\ call.kind \in TradeKinds
                              THEN call.answer ELSE form.assigned
<1>1. CASE call.phase = "answered" /\ call.kind = "assign"
  <2>1. next = [form EXCEPT !.assigned = call.answer, !.pending = {}]
    BY <1>1 DEF TradesAfter
  <2>2. call.answer \subseteq Trades /\ call.kind \in TradeKinds
    BY <1>1 DEF IsTold, TradeKinds
  <2> QED
    BY <1>1, <2>1, <2>2 DEF ProfileForms
<1>2. CASE call.phase = "answered" /\ call.kind = "remove"
  <2>1. next = [form EXCEPT !.assigned = call.answer]
    BY <1>2 DEF TradesAfter
  <2>2. call.answer \subseteq Trades /\ call.kind \in TradeKinds
    BY <1>2 DEF IsTold, TradeKinds
  <2> QED
    BY <1>2, <2>1, <2>2 DEF ProfileForms
<1>3. CASE call.phase # "answered" \/ call.kind \notin TradeKinds
  <2>1. next = form
    BY <1>3 DEF TradesAfter, TradeKinds
  <2> QED
    BY <1>3, <2>1
<1> QED
  BY <1>1, <1>2, <1>3 DEF TradeKinds

LEMMA SubmissionAnswered ==
    ASSUME NEW n, NEW form \in ProfileForms(n), NEW c, NEW next, next = SubmitAfter(form, c)
    PROVE  next \in ProfileForms(n) /\ next.clean = form.clean /\ next.assigned = form.assigned
<1>1. CASE form.submit = None \/ c \notin form.submit.awaits
  BY <1>1 DEF SubmitAfter
<1>2. CASE ~(form.submit = None \/ c \notin form.submit.awaits)
  <2>1. form.submit \in Submission(n)
    BY <1>2 DEF ProfileForms
  <2>2. CASE form.submit.awaits = {c}
    <3>1. PICK values : values = form.submit.values
      OBVIOUS
    <3>2. values \in Values
      BY <2>1, <3>1 DEF Submission
    <3>3. next = [form EXCEPT !.submit = None, !.fields = values, !.base = values]
      BY <1>2, <2>2, <3>1 DEF SubmitAfter
    <3> QED
      BY <3>2, <3>3 DEF ProfileForms
  <2>3. CASE form.submit.awaits # {c}
    <3>1. PICK submit : submit = [form.submit EXCEPT !.awaits = @ \ {c}]
      OBVIOUS
    <3>2. submit \in Submission(n)
      BY <2>1, <3>1 DEF Submission
    <3>3. next = [form EXCEPT !.submit = submit]
      BY <1>2, <2>3, <3>1 DEF SubmitAfter
    <3> QED
      BY <3>2, <3>3 DEF ProfileForms
  <2> QED
    BY <2>2, <2>3
<1> QED
  BY <1>1, <1>2

LEMMA FormHears ==
    ASSUME IInv, NEW c \in DOMAIN calls, calls[c].phase \in {"answered", "failed"},
           NEW form, form = FormAfter(c)
    PROVE  /\ form \in ProfileForms(Len(calls)) \cup {None}
           /\ form # None => /\ profileForm # None /\ form.clean = profileForm.clean
                             /\ form.assigned = TradesTaken(profileForm, c)
<1>1. profileForm \in ProfileForms(Len(calls)) \cup {None}
  BY DEF IInv, Types, PickerType
<1>2. CASE ~calls[c].mounted \/ profileForm = None
  BY <1>1, <1>2 DEF FormAfter, TradesTaken
<1>3. CASE calls[c].mounted /\ profileForm # None
  <2>1. profileForm \in ProfileForms(Len(calls))
    BY <1>1, <1>3
  <2>2. PICK call : call = calls[c]
    OBVIOUS
  <2>3. call \in Call /\ IsTold(call)
    BY <2>2, CallsAre DEF IInv, Types, Fits, InFlight
  <2>4. PICK next : next = TradesAfter(profileForm, call, call.phase = "answered")
    OBVIOUS
  <2>5. /\ next \in ProfileForms(Len(calls)) /\ next.clean = profileForm.clean
        /\ next.assigned = IF call.phase = "answered" /\ call.kind \in TradeKinds
                           THEN call.answer ELSE profileForm.assigned
    BY <2>1, <2>3, <2>4, TradesAreTaken
  <2>6. form = SubmitAfter(next, c)
    BY <1>3, <2>2, <2>4 DEF FormAfter
  <2>7. form \in ProfileForms(Len(calls)) /\ form.clean = next.clean /\ form.assigned = next.assigned
    BY <2>5, <2>6, SubmissionAnswered
  <2> QED
    BY <1>3, <2>2, <2>5, <2>7 DEF TradesTaken
<1> QED
  BY <1>2, <1>3

(* The call is done, and no other turns.                                   *)
Hears(c) ==
    /\ c \in DOMAIN calls /\ calls[c].phase \in {"answered", "failed"}
    /\ \E call : Turns(c, call) /\ call.kind = calls[c].kind /\ call.phase = "done"

LEMMA Heard ==
    ASSUME NEW c, Hears(c), NEW kinds
    PROVE  /\ Busy(kinds)' = Busy(kinds) \ {c} /\ (c \in Busy(kinds) <=> calls[c].kind \in kinds)
           /\ \A d \in Busy(kinds) \ {c} : Like(calls'[d], calls[d])
           /\ calls[c].kind \notin kinds => Unturned(kinds)
<1>1. PICK call : Turns(c, call) /\ call.kind = calls[c].kind /\ call.phase = "done"
  BY DEF Hears
<1>2. /\ Busy(kinds)' = Busy(kinds) \ {c}
      /\ \A d \in Busy(kinds) \ {c} : Like(calls'[d], calls[d])
  BY <1>1, OneTurned
<1>3. c \in Busy(kinds) <=> calls[c].kind \in kinds
  BY DEF Busy, InFlight, Hears
<1>4. calls[c].kind \notin kinds => Unturned(kinds)
  BY <1>1, TurnedUnturned
<1> QED
  BY <1>2, <1>3, <1>4

(* What the hooks write in the cache, when calls cross nothing.            *)
CacheWritten ==
    /\ IsQuery(profile', Profiles) /\ profile'.fetch = profile.fetch
    /\ profile'.data \in Profiles /\ profile.data \in Profiles

LEMMA HookWrites ==
    ASSUME IInv, NEW c, Hears(c), calls[c].kind \in ProfileKinds, NEW q,
           q = CacheAfter(calls[c], calls[c].phase = "answered")
    PROVE  /\ IsQuery(q, Profiles) /\ q.fetch = profile.fetch
           /\ q.data \in Profiles /\ profile.data \in Profiles
           /\ calls[c].kind \in RowKinds /\ calls[c].phase = "answered" =>
                 q.data.row = calls[c].answer /\ q.data.trades = profile.data.trades
           /\ calls[c].kind \in TradeKinds /\ calls[c].phase = "answered" =>
                 q.data.trades = calls[c].answer /\ q.data.row = profile.data.row
           /\ calls[c].kind \in Toggles /\ calls[c].phase # "answered" => q.data = calls[c].before
           /\ calls[c].kind \notin Toggles /\ calls[c].phase # "answered" => q.data = profile.data
<1>1. PICK call : call = calls[c]
  OBVIOUS
<1>2. call \in Call /\ Carries(call) /\ IsTold(call) /\ call.phase \in {"answered", "failed"}
  BY <1>1, CallsAre DEF Hears, IInv, Types, Fits, InFlight
<1>3. IsQuery(profile, Profiles) /\ (call.kind \in RowKinds <=> call.kind \notin TradeKinds)
  BY <1>1, KindsAre DEF IInv, Types, ProfileType
<1>4. c \in Busy(ProfileKinds)
  BY Heard
<1>5. profile.data # None /\ profile.data \in Profiles
  BY <1>3, <1>4 DEF IInv, ProfileInv, DataInv, IsQuery, Query
<1>6. CASE call.kind \in RowKinds /\ call.phase = "answered"
  <2>1. PICK data : data = [profile.data EXCEPT !.row = call.answer]
    OBVIOUS
  <2>2. data \in Profiles /\ data.row = call.answer /\ data.trades = profile.data.trades
    BY <1>2, <1>5, <1>6, <2>1 DEF Profiles, IsTold
  <2>3. q = SetData(profile, data)
    <3>1. q = RowAnswered(call)
      BY <1>1, <1>3, <1>6 DEF CacheAfter
    <3> QED
      BY <2>1, <3>1 DEF RowAnswered
  <2>4. IsQuery(q, Profiles) /\ q.data = data /\ q.fetch = profile.fetch
    BY <1>3, <2>2, <2>3, QueryWritten
  <2> QED
    BY <1>1, <1>5, <1>6, <2>2, <2>4, KindsAre
<1>7. CASE call.kind \in TradeKinds /\ call.phase = "answered"
  <2>1. PICK data : data = [profile.data EXCEPT !.trades = call.answer]
    OBVIOUS
  <2>2. data \in Profiles /\ data.trades = call.answer /\ data.row = profile.data.row
    BY <1>2, <1>5, <1>7, <2>1 DEF Profiles, IsTold
  <2>3. call.kind \notin RowKinds
    BY <1>7, KindsAre
  <2>4. q = SetData(profile, data)
    <3>1. q = TradesAnswered(call)
      BY <1>1, <1>7, <2>3 DEF CacheAfter
    <3> QED
      BY <2>1, <3>1 DEF TradesAnswered
  <2>5. IsQuery(q, Profiles) /\ q.data = data /\ q.fetch = profile.fetch
    BY <1>3, <2>2, <2>4, QueryWritten
  <2> QED
    BY <1>1, <1>5, <1>7, <2>2, <2>3, <2>5
<1>8. CASE call.kind \in Toggles /\ call.phase # "answered"
  <2>1. call.before \in Profiles
    BY <1>2, <1>8 DEF Carries
  <2>2. q = SetData(profile, call.before)
    <3>1. q = RolledBack(call)
      BY <1>1, <1>8 DEF CacheAfter
    <3> QED
      BY <3>1 DEF RolledBack
  <2>3. IsQuery(q, Profiles) /\ q.data = call.before /\ q.fetch = profile.fetch
    BY <1>3, <2>1, <2>2, QueryWritten
  <2> QED
    BY <1>1, <1>5, <1>8, <2>1, <2>3
<1>9. CASE call.kind \notin Toggles /\ call.phase # "answered"
  <2>1. q = profile
    BY <1>1, <1>9 DEF CacheAfter
  <2> QED
    BY <1>1, <1>3, <1>5, <1>9, <2>1
<1>10. call.kind \in RowKinds \/ call.kind \in TradeKinds
  BY <1>1, KindsAre
<1> QED
  BY <1>6, <1>7, <1>8, <1>9, <1>10

LEMMA RowsHeard ==
    ASSUME IInv, NEW c, Hears(c), calls[c].kind \in RowKinds,
           profile' = CacheAfter(calls[c], calls[c].phase = "answered"), UNCHANGED <<row, trades, crossed>>
    PROVE  CacheInv'
<1> SUFFICES ASSUME ~crossed PROVE CacheInv'
  BY DEF CacheInv
<1>1. OneEach /\ RowKnown /\ TradesKnown /\ Undoes
  BY DEF IInv, ProfileInv, CacheInv
<1>2. /\ calls[c].kind \in ProfileKinds /\ calls[c].kind \notin TradeKinds
      /\ c \in DOMAIN calls /\ calls[c].phase \in {"answered", "failed"}
  BY KindsAre DEF Hears
<1>3. /\ Busy(RowKinds)' = Busy(RowKinds) \ {c} /\ c \in Busy(RowKinds) /\ Unturned(TradeKinds)
      /\ Busy(Toggles)' = Busy(Toggles) \ {c}
  BY <1>2, Heard
<1>4. Busy(RowKinds) = {c} /\ Busy(Toggles) \subseteq {c}
  BY <1>1, <1>3, KindsAre DEF OneEach, Busy
<1>5. Busy(RowKinds)' = {} /\ Busy(Toggles)' = {} /\ Busy(TradeKinds)' = Busy(TradeKinds)
  BY <1>3, <1>4 DEF Unturned
<1>6. PICK q : q = CacheAfter(calls[c], calls[c].phase = "answered")
  OBVIOUS
<1>7. /\ q.data \in Profiles /\ profile.data \in Profiles
      /\ calls[c].phase = "answered" => q.data.row = calls[c].answer /\ q.data.trades = profile.data.trades
      /\ calls[c].kind \in Toggles /\ calls[c].phase # "answered" => q.data = calls[c].before
      /\ calls[c].kind \notin Toggles /\ calls[c].phase # "answered" => q.data = profile.data
  BY <1>2, <1>6, HookWrites
<1>8. profile'.data = q.data /\ profile.data # None
  BY <1>6, <1>7
<1>9. /\ calls[c].phase = "answered" => calls[c].answer = row
      /\ calls[c].kind \in Toggles =>
            /\ calls[c].before.trades = trades
            /\ calls[c].phase # "answered" => calls[c].before.row = row
      /\ calls[c].kind \notin Toggles /\ calls[c].phase # "answered" => profile.data.row = row
  <2>1. calls[c].kind \in Toggles => c \in Busy(Toggles)
    BY <1>2 DEF Busy, InFlight
  <2>2. calls[c].kind \notin Toggles /\ calls[c].phase # "answered" => Settled(RowKinds)
    BY <1>4 DEF Settled
  <2> QED
    BY <1>1, <1>3, <1>8, <2>1, <2>2 DEF RowKnown, Undoes
<1>10. q.data.row = row
  BY <1>2, <1>7, <1>9
<1>11. Settled(TradeKinds) => q.data.trades = trades
  BY <1>1, <1>2, <1>7, <1>8, <1>9 DEF TradesKnown
<1>12. Settled(TradeKinds)' <=> Settled(TradeKinds)
  BY <1>3 DEF Settled, Unturned, Like
<1>13. RowKnown'
  BY <1>5, <1>8, <1>10 DEF RowKnown
<1>14. TradesKnown'
  BY <1>1, <1>3, <1>8, <1>11, <1>12 DEF TradesKnown, Unturned, Like
<1>15. OneEach' /\ Undoes'
  BY <1>1, <1>5 DEF OneEach, Undoes
<1> QED
  BY <1>13, <1>14, <1>15 DEF CacheInv

LEMMA ListsHeard ==
    ASSUME IInv, NEW c, Hears(c), calls[c].kind \in TradeKinds,
           profile' = CacheAfter(calls[c], calls[c].phase = "answered"), UNCHANGED <<row, trades, crossed>>
    PROVE  CacheInv'
<1> SUFFICES ASSUME ~crossed PROVE CacheInv'
  BY DEF CacheInv
<1>1. OneEach /\ RowKnown /\ TradesKnown
  BY DEF IInv, ProfileInv, CacheInv
<1>2. /\ calls[c].kind \in ProfileKinds /\ calls[c].kind \notin RowKinds /\ calls[c].kind \notin Toggles
      /\ c \in DOMAIN calls /\ calls[c].phase \in {"answered", "failed"}
  BY KindsAre DEF Hears
<1>3. /\ Busy(TradeKinds)' = Busy(TradeKinds) \ {c} /\ c \in Busy(TradeKinds) /\ Unturned(RowKinds)
      /\ Unturned(Toggles)
  BY <1>2, Heard
<1>4. Busy(TradeKinds) = {c} /\ Busy(Toggles) = {}
  BY <1>1, <1>3 DEF OneEach
<1>5. Busy(TradeKinds)' = {} /\ Busy(Toggles)' = {} /\ Busy(RowKinds)' = Busy(RowKinds)
  BY <1>3, <1>4 DEF Unturned
<1>6. PICK q : q = CacheAfter(calls[c], calls[c].phase = "answered")
  OBVIOUS
<1>7. /\ q.data \in Profiles /\ profile.data \in Profiles
      /\ calls[c].phase = "answered" => q.data.trades = calls[c].answer /\ q.data.row = profile.data.row
      /\ calls[c].phase # "answered" => q.data = profile.data
  BY <1>2, <1>6, HookWrites
<1>8. profile'.data = q.data /\ profile.data # None
  BY <1>6, <1>7
<1>9. q.data.trades = trades
  <2>1. calls[c].phase # "answered" => Settled(TradeKinds)
    BY <1>2, <1>4 DEF Settled
  <2> QED
    BY <1>1, <1>3, <1>7, <1>8, <2>1 DEF TradesKnown
<1>10. q.data.row = profile.data.row
  BY <1>7
<1>11. Settled(RowKinds)' <=> Settled(RowKinds)
  BY <1>3 DEF Settled, Unturned, Like
<1>12. TradesKnown'
  BY <1>5, <1>8, <1>9 DEF TradesKnown
<1>13. RowKnown'
  BY <1>1, <1>3, <1>8, <1>10, <1>11 DEF RowKnown, Unturned, Like
<1>14. OneEach' /\ Undoes'
  BY <1>1, <1>5 DEF OneEach, Undoes
<1> QED
  BY <1>12, <1>13, <1>14 DEF CacheInv

LEMMA FetchUnheard ==
    ASSUME IInv, NEW c, Hears(c), calls[c].kind \in ProfileKinds,
           profile' = CacheAfter(calls[c], calls[c].phase = "answered"), UNCHANGED crossed
    PROVE  FetchInv' /\ DataInv'
<1>1. c \in Busy(ProfileKinds)
  BY Heard
<1>2. PICK q : q = CacheAfter(calls[c], calls[c].phase = "answered")
  OBVIOUS
<1>3. q.fetch = profile.fetch /\ q.data \in Profiles
  BY <1>2, HookWrites
<1>4. profile'.fetch = profile.fetch /\ profile'.data # None
  BY <1>2, <1>3
<1> QED
  BY <1>1, <1>4 DEF FetchInv, DataInv, IInv, ProfileInv

(* The picker hears of what the cache hears of.                            *)
LEMMA PickerHears ==
    ASSUME IInv, NEW c, Hears(c), UNCHANGED <<trades, crossed>>, NEW form, form = FormAfter(c)
    PROVE  form # None => Told(form)
<1>1. c \in DOMAIN calls /\ calls[c].phase \in {"answered", "failed"}
  BY DEF Hears
<1>2. form # None => /\ profileForm # None /\ form.clean = profileForm.clean
                     /\ form.assigned = TradesTaken(profileForm, c)
  BY <1>1, FormHears
<1>3. CASE calls[c].kind \in TradeKinds
  <2> SUFFICES ASSUME form # None, profileForm' # None, form.clean, ~crossed PROVE Told(form)
    BY DEF Told
  <2>1. /\ profileForm # None /\ profileForm.clean
        /\ \A d \in Busy(TradeKinds) : calls[d].mounted
        /\ Settled(TradeKinds) => profileForm.assigned = trades
    BY <1>2 DEF IInv, ProfileInv, PickerInv
  <2>2. OneEach /\ TradesKnown
    BY DEF IInv, ProfileInv, CacheInv
  <2>3. Busy(TradeKinds)' = Busy(TradeKinds) \ {c} /\ c \in Busy(TradeKinds)
    BY <1>3, Heard
  <2>4. Busy(TradeKinds) = {c} /\ Busy(TradeKinds)' = {}
    BY <2>2, <2>3 DEF OneEach
  <2>5. CASE calls[c].phase = "answered"
    <3>1. form.assigned = calls[c].answer /\ calls[c].answer = trades
      BY <1>2, <1>3, <2>1, <2>2, <2>3, <2>5 DEF TradesTaken, TradesKnown
    <3> QED
      BY <2>4, <3>1 DEF Told
  <2>6. CASE calls[c].phase # "answered"
    <3>1. Settled(TradeKinds)
      BY <1>3, <2>4, <2>6, KindsAre DEF Settled
    <3>2. form.assigned = trades
      BY <1>2, <2>1, <2>6, <3>1 DEF TradesTaken
    <3> QED
      BY <2>4, <3>2 DEF Told
  <2> QED
    BY <2>5, <2>6
<1>4. CASE calls[c].kind \notin TradeKinds
  <2>1. Unturned(TradeKinds)
    BY <1>4, Heard
  <2>2. form # None => /\ profileForm # None /\ form.assigned = profileForm.assigned
                       /\ form.clean => profileForm.clean
    BY <1>2, <1>4 DEF TradesTaken
  <2> QED
    BY <2>1, <2>2, PickerKept DEF IInv
<1> QED
  BY <1>3, <1>4

(* An upload or a deletion has the portfolio fetched again.                *)
GalleryAfter(c) ==
    IF calls[c].phase = "answered" /\ calls[c].kind \in GalleryKinds
    THEN Invalidated(gallery, profileForm # None) ELSE gallery

LEMMA GalleryHears ==
    ASSUME IInv, NEW c, Hears(c), UNCHANGED images, NEW page, page.gallery = GalleryAfter(c),
           page.form # None => profileForm # None
    PROVE  IsQuery(page.gallery, Images) /\ Catches(page)
<1>1. IsQuery(gallery, Images)
  BY DEF IInv, Types, GalleryType
<1>2. CASE calls[c].phase = "answered" /\ calls[c].kind \in GalleryKinds
  <2>1. PICK looking \in BOOLEAN : looking = (profileForm # None)
    OBVIOUS
  <2>2. page.gallery = Invalidated(gallery, looking)
    BY <1>2, <2>1 DEF GalleryAfter
  <2>3. PICK q : q = Invalidated(gallery, looking)
    OBVIOUS
  <2>4. IsQuery(q, Images) /\ FreshIsTrue(q, images) /\ (looking => ShownIsTrue(q, images))
    BY <1>1, <2>3, QueryInvalidated
  <2> QED
    BY <2>1, <2>2, <2>3, <2>4 DEF Catches
<1>3. CASE calls[c].kind \notin GalleryKinds
  <2>1. Unturned(GalleryKinds) /\ page.gallery = gallery
    BY <1>3, Heard DEF GalleryAfter
  <2>2. Catches(page)
    BY <2>1, GalleryKept DEF IInv
  <2> QED
    BY <1>1, <2>1, <2>2
<1>4. CASE calls[c].phase # "answered"
  <2>1. page.gallery = gallery
    BY <1>4 DEF GalleryAfter
  <2>2. /\ Busy(GalleryKinds)' = Busy(GalleryKinds) \ {c}
        /\ \A d \in Busy(GalleryKinds) \ {c} : Like(calls'[d], calls[d])
    BY Heard
  <2>3. Unheard(GalleryKinds)' <=> Unheard(GalleryKinds)
    BY <1>4, <2>2 DEF Unheard, Like
  <2> QED
    BY <1>1, <2>1, <2>3 DEF Catches, IInv, ProfileInv, GalleryInv
<1> QED
  BY <1>2, <1>3, <1>4

LEMMA ReceiveProfileCallKeeps ==
    ASSUME IInv, RenderAccount(AccountShown'), NEW c \in DOMAIN calls, ReceiveProfileCall(c)
    PROVE  IInv'
<1>1. /\ calls[c].kind \in OnProfile /\ calls[c].phase \in {"answered", "failed"}
      /\ calls[c].kind \notin OnAccount
      /\ UNCHANGED <<row, trades, images>> /\ faults' \in 0 .. MaxFaults /\ moves' \in 0 .. MaxMoves
  BY KindsAre DEF ReceiveProfileCall, OnProfile, server, IInv, Types, BoundsType
<1>2. PICK call : call = Done(calls[c])
  OBVIOUS
<1>3. call \in Call /\ Fits(call) /\ call.kind = calls[c].kind /\ call.phase = "done"
  BY <1>2, CallDone
<1>4. PICK q : q = CacheAfter(calls[c], calls[c].phase = "answered")
  OBVIOUS
<1>5. PICK form : form = FormAfter(c)
  OBVIOUS
<1>6. PICK page : /\ page = [Page EXCEPT !.profile = q, !.form = form, !.gallery = GalleryAfter(c),
                                         !.calls[c] = call]
                  /\ Render(page)
  BY <1>2, <1>4, <1>5 DEF ReceiveProfileCall, GalleryAfter
<1>7. /\ page.place = place /\ page.profile = q /\ page.form = form /\ page.gallery = GalleryAfter(c)
      /\ page.calls = [calls EXCEPT ![c] = call] /\ page.crossed = crossed
  BY <1>6 DEF Page
<1>8. Calls(calls) /\ IsQuery(profile, Profiles) /\ crossed \in BOOLEAN
  BY DEF IInv, Types, ProfileType
<1>9. PICK cs : cs = [calls EXCEPT ![c] = call]
  OBVIOUS
<1>10. Calls(cs) /\ Len(cs) = Len(calls)
  BY <1>3, <1>8, <1>9, CallTurned DEF Calls
<1>11. /\ form \in ProfileForms(Len(calls)) \cup {None}
       /\ form # None => profileForm # None
  BY <1>1, <1>5, FormHears
<1>12. Become(cs) /\ profile' = q /\ crossed' = crossed
  BY <1>6, <1>7, <1>9, <1>10, Rendered
<1>13. Turns(c, call)
  BY <1>3, <1>8, <1>9, <1>12, BecomeTurns
<1>14. Hears(c)
  BY <1>1, <1>3, <1>13 DEF Hears
<1>15. IsQuery(page.gallery, Images) /\ Catches(page)
  BY <1>1, <1>7, <1>11, <1>14, GalleryHears
<1>16. page.form # None => Told(page.form)
  BY <1>1, <1>5, <1>7, <1>12, <1>14, PickerHears
<1>17. Unturned(OnAccount)
  BY <1>1, <1>14, Heard
<1>18. ServerType'
  BY <1>1 DEF IInv, Types, ServerType
<1>19. IsQuery(q, Profiles) /\ FetchInv' /\ DataInv' /\ CacheInv'
  <2>1. CASE calls[c].kind \in ProfileKinds
    <3>1. calls[c].kind \in RowKinds \/ calls[c].kind \in TradeKinds
      BY <2>1, KindsAre
    <3>2. IsQuery(q, Profiles)
      BY <1>4, <1>14, <2>1, HookWrites
    <3>3. profile' = CacheAfter(calls[c], calls[c].phase = "answered")
      BY <1>4, <1>12
    <3>4. FetchInv' /\ DataInv'
      BY <1>12, <1>14, <2>1, <3>3, FetchUnheard
    <3>5. CacheInv'
      BY <1>1, <1>12, <1>14, <3>1, <3>3, RowsHeard, ListsHeard
    <3> QED
      BY <3>2, <3>4, <3>5
  <2>2. CASE calls[c].kind \notin ProfileKinds
    <3>1. calls[c].kind \notin RowKinds /\ calls[c].kind \notin TradeKinds /\ calls[c].kind \notin Toggles
      BY <2>2, KindsAre
    <3>2. q = profile
      BY <1>4, <3>1 DEF CacheAfter
    <3>3. Unturned(ProfileKinds)
      BY <1>14, <2>2, Heard
    <3> QED
      BY <1>1, <1>8, <1>12, <3>2, <3>3, FetchKept, CacheKept DEF IInv
  <2> QED
    BY <2>1, <2>2
<1>20. Proper(page)
  BY <1>7, <1>8, <1>9, <1>10, <1>11, <1>15, <1>19 DEF Proper, IInv, Types, BoundsType
<1> QED
  BY <1>1, <1>6, <1>15, <1>16, <1>17, <1>18, <1>19, <1>20, RenderStep

LEMMA ProfileKeeps ==
    ASSUME IInv, ProfileNext, RenderAccount(AccountShown')
    PROVE  IInv'
<1>1. ASSUME NEW c \in DOMAIN calls,
             \/ CommitRow(c) \/ CheckAssign(c) \/ InsertAssign(c) \/ CommitRemove(c)
             \/ CheckUpload(c) \/ CreateImage(c) \/ CommitDelete(c)
             \/ ProfileCallFails(c) \/ ReceiveProfileCall(c)
      PROVE  IInv'
  BY <1>1, CommitRowKeeps, CommitTradesKeeps, CommitImagesKeeps, ProfileCallFailsKeeps, ReceiveProfileCallKeeps
<1>2. ASSUME NEW t \in Trades, Pick(t) \/ Unpick(t) \/ RemoveTrade(t) PROVE IInv'
  BY <1>2, EditsKeep, RemoveTradeKeeps
<1>3. CASE Toggle \/ Submit \/ UploadCni \/ UploadImage \/ \E image \in Shown(gallery) : DeleteImage(image)
  BY <1>3, ToggleKeeps, SubmitKeeps, UploadCniKeeps, ImagesKeep
<1>4. CASE (\E value \in Values : Type(value)) \/ (\E p \in Tabs \cup {"away"} : GoTo(p)) \/ Age
  BY <1>4, EditsKeep, GoToKeeps, AgeKeeps
<1>5. CASE AnswerProfile \/ ReceiveProfile \/ ProfileFails \/ AnswerGallery \/ ReceiveGallery \/ GalleryFails
  BY <1>5, AnswerProfileKeeps, ReceiveProfileKeeps, ProfileFailsKeeps, GalleryFetchKeeps
<1> QED
  BY <1>1, <1>2, <1>3, <1>4, <1>5 DEF ProfileNext

-----------------------------------------------------------------------------
(* The invariant holds at first, and every step keeps it.                  *)

LEMMA NewQueries ==
    ASSUME NEW D
    PROVE  /\ IsQuery(NewQuery, D) /\ NewQuery.data = None /\ NewQuery.fetch.phase = "idle"
           /\ \A truth : FreshIsTrue(NewQuery, truth) /\ ShownIsTrue(NewQuery, truth)
BY DEF NewQuery, NoFetch, IsQuery, Query, FreshIsTrue, ShownIsTrue

LEMMA Initially ==
    ASSUME Init
    PROVE  IInv
<1>1. /\ place \in {"profile", "away"} /\ calls = <<>> /\ faults = 0 /\ moves = 0
      /\ row \in Rows /\ trades \subseteq Trades /\ images = OldImages
      /\ gallery = NewQuery /\ profileForm = None /\ crossed = FALSE
      /\ account \in Accounts /\ account.point = account.label /\ enabled \in Settings
      /\ user = Read(account) /\ language = account.language
      /\ preferences = NewQuery /\ accountForm = None /\ mixed = FALSE
  BY DEF Init, ProfileInit, AccountInit, Settings
<1>2. DOMAIN calls = {} /\ Len(calls) = 0 /\ calls \in Seq(Call)
  BY <1>1
<1>3. ASSUME NEW kinds PROVE Busy(kinds) = {} /\ ~Unheard(kinds)
  BY <1>2 DEF Busy, Unheard
<1>4. Calls(calls)
  BY <1>2 DEF Calls
<1>5. /\ IsQuery(profile, Profiles) /\ profile.fetch.phase # "answered"
      /\ profile.data # None => profile.data.row = row /\ profile.data.trades = trades
  <2>1. PICK data : data = [row |-> row, trades |-> trades]
    OBVIOUS
  <2>2. data \in Profiles /\ data.row = row /\ data.trades = trades
    BY <1>1, <2>1 DEF Profiles
  <2>3. CASE place = "away"
    <3>1. profile = [NewQuery EXCEPT !.data = data, !.stale = TRUE]
      BY <2>1, <2>3 DEF Init, ProfileInit
    <3> QED
      BY <2>2, <3>1 DEF NewQuery, NoFetch, IsQuery, Query
  <2>4. CASE place # "away"
    <3>1. profile = StartFetch(NewQuery, TRUE)
      BY <2>4 DEF Init, ProfileInit
    <3>2. PICK fetch : fetch = [phase |-> "sent", answer |-> None, clean |-> TRUE]
      OBVIOUS
    <3>3. profile = [data |-> None, error |-> FALSE, stale |-> FALSE, missed |-> FALSE, fetch |-> fetch]
      BY <3>1, <3>2 DEF StartFetch, NewQuery
    <3>4. fetch \in [phase : {"idle", "sent", "answered"}, answer : Profiles \cup {None}, clean : BOOLEAN]
      BY <3>2
    <3>5. profile \in Query(Profiles)
      BY <3>3, <3>4 DEF Query
    <3> QED
      BY <3>2, <3>3, <3>5 DEF IsQuery
  <2> QED
    BY <2>3, <2>4
<1>6. Types
  <2>1. BoundsType
    BY <1>1 DEF BoundsType, Tabs
  <2>2. OldImages \in Images
    BY DEF Images
  <2>3. ServerType /\ ProfileType /\ PickerType /\ GalleryType
    BY <1>1, <1>5, <2>2, NewQueries DEF ServerType, ProfileType, PickerType, GalleryType
  <2>4. AccountType /\ PreferencesType /\ AccountFormType
    BY <1>1, NewQueries DEF AccountType, PreferencesType, AccountFormType, Accounts, Users, Read
  <2> QED
    BY <1>4, <2>1, <2>3, <2>4 DEF Types
<1>7. ShownInv
  BY <1>1 DEF ShownInv
<1>8. AccountInv
  <2>1. LanguageInv
    BY <1>1, <1>3 DEF LanguageInv, Read
  <2>2. FormInv
    BY <1>1 DEF FormInv
  <2>3. PointInv
    BY <1>1, <1>3 DEF PointInv, PointIsTheLabels
  <2>4. PreferencesInv
    BY <1>1, NewQueries DEF PreferencesInv
  <2> QED
    BY <2>1, <2>2, <2>3, <2>4 DEF AccountInv
<1>9. ProfileInv
  <2>1. FetchInv /\ DataInv
    BY <1>3, <1>5 DEF FetchInv, DataInv
  <2>2. CacheInv
    BY <1>3, <1>5 DEF CacheInv, OneEach, RowKnown, TradesKnown, Undoes
  <2>3. PickerInv
    BY <1>1 DEF PickerInv
  <2>4. GalleryInv
    BY <1>1, NewQueries DEF GalleryInv
  <2> QED
    BY <2>1, <2>2, <2>3, <2>4 DEF ProfileInv
<1> QED
  BY <1>6, <1>7, <1>8, <1>9 DEF IInv

LEMMA Stutters ==
    ASSUME IInv, UNCHANGED vars
    PROVE  IInv'
<1>1. /\ UNCHANGED <<place, calls, faults, moves, profileVars>>
      /\ UNCHANGED <<account, enabled, user, language, preferences, accountForm, mixed>>
  BY DEF vars, accountVars
<1>2. Unturned(OnProfile) /\ Unturned(UpdateKinds) /\ Unturned({"account"}) /\ Unturned({"preference"})
  BY <1>1, CallsAsTheyAre, KeptUnturned
<1>3. AccountInv'
  <2>1. accountForm # None => PointOK(accountForm.fields)
    BY FormOf
  <2> QED
    BY <1>1, <1>2, <2>1, LanguageKept, FormKept, PointKept, PreferencesKept DEF IInv, AccountInv
<1>4. AccountTypes' /\ BoundsType'
  BY <1>1 DEF IInv, Types, AccountTypes, AccountType, PreferencesType, IsQuery, AccountFormType, BoundsType
<1>5. Calls(calls)' /\ Len(calls') >= Len(calls)
  BY <1>1, LenProperties DEF IInv, Types, Calls
<1> QED
  BY <1>1, <1>2, <1>3, <1>4, <1>5, AccountStep

LEMMA EveryStep ==
    ASSUME IInv, [Next]_vars
    PROVE  IInv'
<1>1. CASE ProfileNext /\ RenderAccount(AccountShown')
  BY <1>1, ProfileKeeps
<1>2. CASE (AccountNext \/ Header) /\ UNCHANGED profileVars
  BY <1>2, AccountKeeps
<1>3. CASE UNCHANGED vars
  BY <1>3, Stutters
<1> QED
  BY <1>1, <1>2, <1>3 DEF Next

(* IInv holds of every state the dashboard can be in.                      *)
THEOREM Inductive == Spec => []IInv
<1>1. Init => IInv
  BY Initially
<1>2. IInv /\ [Next]_vars => IInv'
  BY EveryStep
<1> QED
  BY <1>1, <1>2, PTL DEF Spec

-----------------------------------------------------------------------------
(* What the invariant says of the tabs.                                    *)

LEMMA NoneUnderway ==
    ASSUME NEW kinds
    PROVE  ~Underway(kinds) <=> Busy(kinds) = {}
BY DEF Underway, Busy

LEMMA TypesAre ==
    ASSUME IInv
    PROVE  TypeOK
<1>1. /\ place \in Tabs \cup {"away"}
      /\ Len(calls) <= MaxCalls /\ faults <= MaxFaults /\ moves <= MaxMoves
  BY DEF IInv, Types, BoundsType, Calls
<1>2. DOMAIN calls = 1 .. Len(calls) /\ \A c \in DOMAIN calls : calls[c] \in Call
  BY CallsAre DEF IInv, Types
<1>3. \A c \in DOMAIN calls : calls[c].kind \in Kinds
  BY <1>2 DEF Call
<1>4. ProfileTypeOK
  <2>1. row \in Rows /\ trades \subseteq Trades /\ images \subseteq 0 .. MaxCalls
    BY DEF IInv, Types, ServerType, Images
  <2>2. profile.data = None \/ profile.data \in Profiles
    BY DEF IInv, Types, ProfileType, IsQuery, Query
  <2>3. gallery.data = None \/ gallery.data \subseteq 0 .. MaxCalls
    BY DEF IInv, Types, GalleryType, IsQuery, Query, Images
  <2>4. CASE profileForm # None
    <3>1. profileForm \in ProfileForms(Len(calls))
      BY <2>4, PickerOf
    <3>2. profileForm.submit # None => profileForm.submit.awaits \subseteq DOMAIN calls
      BY <1>2, <3>1 DEF ProfileForms, Submission
    <3>3. /\ {profileForm.fields, profileForm.base} \subseteq Values
          /\ profileForm.assigned \cup profileForm.pending \subseteq Trades
      BY <3>1 DEF ProfileForms
    <3> QED
      BY <2>1, <2>2, <2>3, <3>2, <3>3 DEF ProfileTypeOK
  <2> QED
    BY <2>1, <2>2, <2>3, <2>4 DEF ProfileTypeOK
<1>5. AccountTypeOK
  <2>1. /\ account \in Accounts /\ enabled \in [Switches -> BOOLEAN]
        /\ user \in Users /\ language \in Languages
    BY DEF IInv, Types, AccountType, Settings
  <2>2. preferences.data = None \/ preferences.data \in [Switches -> BOOLEAN]
    BY DEF IInv, Types, PreferencesType, IsQuery, Query, Settings
  <2>3. accountForm = None \/
           {accountForm.fields, accountForm.base} \subseteq [name : Names, label : Labels, point : places]
    BY DEF IInv, Types, AccountFormType, AccountForms, Fields
  <2> QED
    BY <2>1, <2>2, <2>3 DEF AccountTypeOK
<1>6. profileForm # None => accountForm = None /\ place = "profile"
  BY DEF IInv, ShownInv, AccountShown, FormShown, Page
<1> QED
  BY <1>1, <1>3, <1>4, <1>5, <1>6 DEF TypeOK

LEMMA ProfileIsTold ==
    ASSUME IInv
    PROVE  ProfileTellsTruth
<1>1. ASSUME Idle(calls) PROVE Settled(RowKinds) /\ Settled(TradeKinds) /\ Busy(TradeKinds) = {}
  BY <1>1, KindsAre DEF Idle, Settled, Busy
<1>2. CacheTellsTruth
  <2> SUFFICES ASSUME ~crossed, profile.data # None, Idle(calls)
               PROVE  profile.data = [row |-> row, trades |-> trades]
    BY DEF CacheTellsTruth
  <2>1. profile.data.row = row /\ profile.data.trades = trades
    BY <1>1 DEF IInv, ProfileInv, CacheInv, RowKnown, TradesKnown
  <2>2. profile.data \in Profiles
    BY DEF IInv, Types, ProfileType, IsQuery, Query
  <2> QED
    BY <2>1, <2>2 DEF Profiles
<1>3. PickerTellsTruth
  BY <1>1 DEF PickerTellsTruth, IInv, ProfileInv, PickerInv
<1> QED
  BY <1>2, <1>3 DEF ProfileTellsTruth

LEMMA QueriesAreTrue ==
    ASSUME IInv
    PROVE  QueriesCatchUp
<1>1. ASSUME NEW kinds, ~Underway(kinds) PROVE ~Unheard(kinds)
  BY <1>1, NoneUnderway DEF Unheard
<1>2. GalleryTellsTruth
  BY <1>1 DEF GalleryTellsTruth, IInv, ProfileInv, GalleryInv, ShownIsTrue
<1>3. PreferencesTellTruth
  BY <1>1 DEF PreferencesTellTruth, IInv, AccountInv, PreferencesInv, ShownIsTrue
<1> QED
  BY <1>2, <1>3 DEF QueriesCatchUp

LEMMA AccountIsTold ==
    ASSUME IInv
    PROVE  AccountTellsTruth
<1>1. ASSUME ~Underway(UpdateKinds), ~mixed PROVE user = Read(account) /\ language = user.language
  BY <1>1, NoneUnderway DEF IInv, AccountInv, LanguageInv
<1>2. FormTellsTruth
  <2> SUFFICES ASSUME accountForm # None, accountForm.clean, ~IsAccountDirty, ~Underway(UpdateKinds)
               PROVE  Read(account) = [name |-> accountForm.fields.name, label |-> accountForm.fields.label,
                                       language |-> account.language]
    BY DEF FormTellsTruth
  <2>1. ~mixed /\ accountForm.base.name = user.name /\ accountForm.base.label = user.label
    BY DEF IInv, AccountInv, FormInv
  <2>2. user = Read(account)
    BY <1>1, <2>1
  <2> QED
    BY <2>1, <2>2 DEF Read, IsAccountDirty
<1>3. LanguageTellsTruth
  BY <1>1 DEF LanguageTellsTruth, Read
<1>4. PointIsTheLabels
  BY DEF IInv, AccountInv, PointInv
<1> QED
  BY <1>2, <1>3, <1>4 DEF AccountTellsTruth

(* Calls, queries and forms are well formed, the calls and failures stay   *)
(* within their bounds, and only one tab's form is mounted.                *)
THEOREM TypeCorrect == Spec => []TypeOK
BY Inductive, TypesAre, PTL

(* WorkerDashboardPage.tsx: once its calls have settled the cache has the  *)
(* row and the trades of the server, and the picker the trades, unless     *)
(* calls for the same part of the profile crossed or an answer was lost.   *)
THEOREM ProfileIsTrue == Spec => []ProfileTellsTruth
BY Inductive, ProfileIsTold, PTL

(* usePortfolioImages.ts, useUpdateNotificationPreference.ts: lists that   *)
(* are invalidated by every change are the server's at rest.               *)
THEOREM ListsCatchUp == Spec => []QueriesCatchUp
BY Inductive, QueriesAreTrue, PTL

(* AccountTab.tsx, useChangeLanguage.ts: a form with nothing to save shows *)
(* what is stored, the language on the screen is the account's, and a      *)
(* point is that of the label beside it.                                   *)
THEOREM AccountIsTrue == Spec => []AccountTellsTruth
BY Inductive, AccountIsTold, PTL
=============================================================================
