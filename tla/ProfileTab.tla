----------------------------- MODULE ProfileTab -----------------------------
(***************************************************************************)
(* The worker's own profile on the dashboard (src/frontend/src/features/   *)
(* worker): the availability switch of the page, the profile form with its *)
(* trades, the identity document and the portfolio, and the endpoints of   *)
(* src/src/app/api/v1/worker_profile.py they call.  Nobody else changes    *)
(* the profile.  `crossed` is history: requests overlapped that answer for *)
(* the same part of the profile, or an answer was lost.                    *)
(***************************************************************************)
EXTENDS Dashboard

CONSTANTS Trades, Values,          \* trades; contents of the form's fields
          MaxTrades, MaxImages,    \* MAX_TRADES_PER_WORKER, MAX_PORTFOLIO_IMAGES
          OldImages                \* the portfolio at the start

VARIABLES
    row,          \* worker_profile
    trades,       \* worker_trade
    images,       \* portfolio_image
    profile,      \* query ['workerProfile']
    gallery,      \* query ['portfolio-images', id]
    profileForm,  \* ProfileForm, while it is mounted
    crossed

server == <<row, trades, images>>
profileVars == <<server, profile, gallery, profileForm, crossed>>

Statuses == {"unverified", "pending", "verified"}
Rows == [fields : Values, available : BOOLEAN, cni : Statuses]
Profiles == [row : Rows, trades : SUBSET Trades]

ASSUME ProfileAssumption ==
    MaxTrades \in Nat /\ MaxImages \in Nat /\ OldImages \subseteq {0} /\ None \notin Profiles

ProfileKinds == Toggles \cup FormKinds
RowKinds == Toggles \cup {"save", "cni"}
TradeKinds == {"assign", "remove"}
-----------------------------------------------------------------------------
(* The page.                                                               *)

\* A failed refetch hides a page that still has its data.
PageShown(page) == page.place # "away" /\ page.profile.data # None /\ ~page.profile.error
FormShown(page) == PageShown(page) /\ page.place = "profile"
Visible(page) == IF PageShown(page) THEN {"page", page.place} ELSE {}

\* The form copies the profile when it is mounted, and never again.
NewForm(data, clean) ==
    [fields |-> data.row.fields, base |-> data.row.fields,
     assigned |-> data.trades, pending |-> {}, submit |-> None, clean |-> clean]

\* The state a handler works on, and what is rendered from what it leaves.
Page == [place |-> place, profile |-> profile, gallery |-> gallery,
         form |-> profileForm, calls |-> calls, crossed |-> crossed]
Idle(cs) == \A c \in DOMAIN cs : cs[c].kind \in ProfileKinds => ~InFlight(cs[c])
Render(page) ==
    LET mounts == FormShown(page) /\ page.form = None
        form == IF mounts THEN NewForm(page.profile.data, Idle(page.calls)) ELSE page.form
    IN /\ place' = page.place /\ profile' = page.profile /\ crossed' = page.crossed
       /\ profileForm' = IF FormShown(page)
                         THEN [form EXCEPT !.clean = @ /\ ~page.crossed] ELSE None
       /\ calls' = Orphaned(page.calls, Visible(page))
       /\ gallery' = IF mounts THEN Observed(page.gallery, FALSE) ELSE page.gallery

\* Sends calls, and notes what they cross.
Overlaps(kind) ==
    \/ kind \in RowKinds /\ Underway(RowKinds)
    \/ kind \in TradeKinds /\ Underway(TradeKinds \cup Toggles)
    \/ kind \in Toggles /\ Underway(TradeKinds)
    \/ kind \in FormKinds /\ profile.fetch.phase # "idle"
Sent(page, new) ==
    [page EXCEPT !.calls = @ \o new,
                 !.profile.fetch.clean = FALSE,
                 !.crossed = @ \/ \E c \in DOMAIN new : Overlaps(new[c].kind)]
-----------------------------------------------------------------------------
(* What the worker does.                                                   *)

\* mutant: a fetch under way is not cancelled
ToggleUncancelled ==
    /\ PageShown(Page) /\ ~Pending("availability") /\ CanSend(1)
    /\ LET available == ~profile.data.row.available
       IN Render(Sent([Page EXCEPT !.profile =
                          SetData(profile, [profile.data EXCEPT !.row.available = available])],
                      <<NewCall("availability", available, profile.data)>>))
    /\ UNCHANGED <<server, faults, moves>>
\* A fetch under way is cancelled, the switch turns at once.
Toggle ==
    /\ PageShown(Page) /\ ~Pending("availability") /\ CanSend(1)
    /\ LET available == ~profile.data.row.available
       IN Render(Sent([Page EXCEPT !.profile =
                          [SetData(profile, [profile.data EXCEPT !.row.available = available])
                             EXCEPT !.fetch = NoFetch]],
                      <<NewCall("availability", available, profile.data)>>))
    /\ UNCHANGED <<server, faults, moves>>

Edit(form) ==
    /\ moves < MaxMoves /\ moves' = moves + 1
    /\ Render([Page EXCEPT !.form = form])
    /\ UNCHANGED <<server, faults>>
Type(value) ==
    /\ profileForm # None /\ value # profileForm.fields
    /\ Edit([profileForm EXCEPT !.fields = value])

\* The picker: neither assigned nor picked, and fewer than the limit.
AtMax == Cardinality(profileForm.assigned) + Cardinality(profileForm.pending) >= MaxTrades
SelectableTrades == Trades \ (profileForm.assigned \cup profileForm.pending)
Pick(t) ==
    /\ profileForm # None /\ ~AtMax /\ t \in SelectableTrades
    /\ Edit([profileForm EXCEPT !.pending = @ \cup {t}])
Unpick(t) ==
    /\ profileForm # None /\ t \in profileForm.pending
    /\ Edit([profileForm EXCEPT !.pending = @ \ {t}])

RemoveTrade(t) ==
    /\ profileForm # None /\ t \in profileForm.assigned
    /\ ~Pending("remove") /\ CanSend(1)
    /\ Render(Sent(Page, <<NewCall("remove", t, None)>>))
    /\ UNCHANGED <<server, faults, moves>>

\* Up to two requests; the form is reset when both have been answered.
IsDirty == profileForm.fields # profileForm.base
CanSubmit ==
    /\ IsDirty \/ profileForm.pending # {}
    /\ ~Pending("save") /\ ~Pending("assign")
Submit ==
    /\ profileForm # None /\ CanSubmit
    /\ LET requests ==
               (IF IsDirty THEN <<NewCall("save", profileForm.fields, None)>> ELSE <<>>)
               \o (IF profileForm.pending # {}
                   THEN <<NewCall("assign", profileForm.pending, None)>> ELSE <<>>)
       IN /\ CanSend(Len(requests))
          /\ Render(Sent([Page EXCEPT !.form.submit =
                 [values |-> profileForm.fields,
                  awaits |-> {Len(calls) + i : i \in DOMAIN requests}]], requests))
    /\ UNCHANGED <<server, faults, moves>>

UploadCni ==
    /\ profileForm # None /\ profile.data.row.cni # "verified"
    /\ ~Pending("cni") /\ CanSend(1)
    /\ Render(Sent(Page, <<NewCall("cni", None, None)>>))
    /\ UNCHANGED <<server, faults, moves>>

\* An image is named by the call that uploads it.
Shown(q) == IF q.data = None THEN {} ELSE q.data
UploadImage ==
    /\ profileForm # None /\ Cardinality(Shown(gallery)) < MaxImages
    /\ ~Pending("upload") /\ CanSend(1)
    /\ Render([Page EXCEPT !.calls = Append(@, NewCall("upload", Len(calls) + 1, None))])
    /\ UNCHANGED <<server, faults, moves>>
\* Only the image deleted last has its button disabled.
DeleteImage(image) ==
    /\ profileForm # None /\ image \in Shown(gallery) /\ CanSend(1)
    /\ ~\E c \in DOMAIN calls :
           LastOf("delete", c) /\ calls[c].mounted /\ calls[c].arg = image
    /\ Render([Page EXCEPT !.calls = Append(@, NewCall("delete", image, None))])
    /\ UNCHANGED <<server, faults, moves>>

\* To another tab or page, and back to the first tab: components that are
\* mounted fetch again what is stale.  Only a page that is shown has tabs.
GoTo(p) ==
    /\ p # place /\ moves < MaxMoves /\ moves' = moves + 1
    /\ IF place = "away" THEN p = "profile" ELSE p = "away" \/ PageShown(Page)
    /\ LET q == IF p = "profile" THEN Observed(profile, Idle(calls)) ELSE profile
       IN Render([Page EXCEPT !.place = p, !.profile = q,
                              !.crossed = @ \/ (q # profile /\ ~Idle(calls))])
    /\ UNCHANGED <<server, faults>>
\* staleTime has passed.
Age ==
    /\ \/ profile.data # None /\ ~profile.stale
       \/ gallery.data # None /\ ~gallery.stale
    /\ moves < MaxMoves /\ moves' = moves + 1
    /\ profile' = [profile EXCEPT !.stale = profile.data # None]
    /\ gallery' = [gallery EXCEPT !.stale = gallery.data # None]
    /\ UNCHANGED <<server, profileForm, crossed, place, calls, faults>>
-----------------------------------------------------------------------------
(* The server.                                                             *)

Reply(c, phase, answer) ==
    /\ calls' = [calls EXCEPT ![c].phase = phase, ![c].answer = answer]
    /\ UNCHANGED <<profile, gallery, profileForm, crossed, place, faults, moves>>

RowAfter(call) ==
    CASE call.kind \in Toggles -> [row EXCEPT !.available = call.arg]
      [] call.kind = "save" -> [row EXCEPT !.fields = call.arg]
      [] call.kind = "cni" -> [row EXCEPT !.cni = IF @ = "verified" THEN @ ELSE "pending"]
\* PATCH /worker-profile, /availability, POST /cni-document: the row is answered.
CommitRow(c) ==
    /\ calls[c].kind \in RowKinds /\ calls[c].phase = "sent"
    /\ row' = RowAfter(calls[c]) /\ Reply(c, "answered", row')
    /\ UNCHANGED <<trades, images>>

\* assign_trades_bulk: the trades are counted, then the new ones inserted; a
\* unique constraint refuses one that was inserted meanwhile.
CheckAssign(c) ==
    /\ calls[c].kind = "assign" /\ calls[c].phase = "sent"
    /\ LET new == calls[c].arg \ trades
       IN IF Cardinality(trades) + Cardinality(new) > MaxTrades
          THEN Reply(c, "failed", None) ELSE Reply(c, "checked", new)
    /\ UNCHANGED server
InsertAssign(c) ==
    /\ calls[c].kind = "assign" /\ calls[c].phase = "checked"
    /\ LET new == calls[c].answer
       IN IF new \cap trades # {}
          THEN Reply(c, "failed", None) /\ UNCHANGED trades
          ELSE trades' = trades \cup new /\ Reply(c, "answered", trades')
    /\ UNCHANGED <<row, images>>
\* DELETE /trade-categories/{id}.
CommitRemove(c) ==
    /\ calls[c].kind = "remove" /\ calls[c].phase = "sent"
    /\ IF calls[c].arg \in trades
       THEN trades' = trades \ {calls[c].arg} /\ Reply(c, "answered", trades')
       ELSE Reply(c, "failed", None) /\ UNCHANGED trades
    /\ UNCHANGED <<row, images>>

\* POST /portfolio-images: counted, then stored and created.
CheckUpload(c) ==
    /\ calls[c].kind = "upload" /\ calls[c].phase = "sent"
    /\ Reply(c, IF Cardinality(images) >= MaxImages THEN "failed" ELSE "checked", None)
    /\ UNCHANGED server
CreateImage(c) ==
    /\ calls[c].kind = "upload" /\ calls[c].phase = "checked"
    /\ images' = images \cup {calls[c].arg} /\ Reply(c, "answered", None)
    /\ UNCHANGED <<row, trades>>
CommitDelete(c) ==
    /\ calls[c].kind = "delete" /\ calls[c].phase = "sent"
    /\ images' = images \ {calls[c].arg}
    /\ Reply(c, IF calls[c].arg \in images THEN "answered" ELSE "failed", None)
    /\ UNCHANGED <<row, trades>>

\* A request or its answer is lost.
ProfileCallFails(c) ==
    /\ calls[c].kind \in ProfileKinds \cup GalleryKinds
    /\ calls[c].phase \in {"sent", "checked", "answered"}
    /\ faults < MaxFaults /\ faults' = faults + 1
    /\ LET lost == calls[c].phase = "answered"
       IN Render([Page EXCEPT
              !.calls[c].phase = "failed", !.calls[c].answer = None,
              !.crossed = @ \/ (lost /\ calls[c].kind \in ProfileKinds),
              !.gallery.missed = @ \/ (lost /\ calls[c].kind \in GalleryKinds)])
    /\ UNCHANGED <<server, moves>>
-----------------------------------------------------------------------------
(* Answers.                                                                *)

\* What the hooks write in the cache: the row or the list of trades of the
\* answer, or the profile as it was when the switch was turned.
RowAnswered(call) == SetData(profile, [profile.data EXCEPT !.row = call.answer])
TradesAnswered(call) == SetData(profile, [profile.data EXCEPT !.trades = call.answer])
RolledBack(call) == SetData(profile, call.before)
CacheAfter(call, ok) ==
    CASE ok /\ call.kind \in RowKinds -> RowAnswered(call)
      [] ok /\ call.kind \in TradeKinds -> TradesAnswered(call)
      [] ~ok /\ call.kind \in Toggles -> RolledBack(call)
      [] OTHER -> profile

\* The picker takes the list that was answered; picks stay if assigning failed.
TradesAfter(form, call, ok) ==
    CASE ok /\ call.kind = "assign" -> [form EXCEPT !.assigned = call.answer, !.pending = {}]
      [] ok /\ call.kind = "remove" -> [form EXCEPT !.assigned = call.answer]
      [] OTHER -> form
\* The last of a submission's answers, good or bad, resets the form to what
\* was submitted.
SubmitAfter(form, c) ==
    IF form.submit = None \/ c \notin form.submit.awaits THEN form
    ELSE IF form.submit.awaits = {c}
    THEN [form EXCEPT !.submit = None, !.fields = form.submit.values, !.base = form.submit.values]
    ELSE [form EXCEPT !.submit.awaits = @ \ {c}]

FormAfter(c) ==
    IF ~calls[c].mounted \/ profileForm = None THEN profileForm
    ELSE SubmitAfter(TradesAfter(profileForm, calls[c], calls[c].phase = "answered"), c)

ReceiveProfileCall(c) ==
    /\ calls[c].kind \in ProfileKinds \cup GalleryKinds
    /\ calls[c].phase \in {"answered", "failed"}
    /\ LET ok == calls[c].phase = "answered"
       IN Render([Page EXCEPT
              !.profile = CacheAfter(calls[c], ok),
              !.form = FormAfter(c),
              !.gallery = IF ok /\ calls[c].kind \in GalleryKinds
                          THEN Invalidated(gallery, profileForm # None) ELSE gallery,
              !.calls[c] = Done(calls[c])])
    /\ UNCHANGED <<server, faults, moves>>

AnswerProfile ==
    /\ profile.fetch.phase = "sent"
    /\ profile' = Answered(profile, [row |-> row, trades |-> trades])
    /\ UNCHANGED <<server, gallery, profileForm, crossed, place, calls, faults, moves>>
ReceiveProfile ==
    /\ profile.fetch.phase = "answered"
    /\ Render([Page EXCEPT !.profile = Received(profile),
                           !.crossed = @ /\ ~profile.fetch.clean])
    /\ UNCHANGED <<server, faults, moves>>
ProfileFails ==
    /\ profile.fetch.phase # "idle" /\ faults < MaxFaults /\ faults' = faults + 1
    /\ Render([Page EXCEPT !.profile = FetchFailed(profile)])
    /\ UNCHANGED <<server, moves>>

AnswerGallery ==
    /\ gallery.fetch.phase = "sent" /\ gallery' = Answered(gallery, images)
    /\ UNCHANGED <<server, profile, profileForm, crossed, place, calls, faults, moves>>
ReceiveGallery ==
    /\ gallery.fetch.phase = "answered" /\ gallery' = Received(gallery)
    /\ UNCHANGED <<server, profile, profileForm, crossed, place, calls, faults, moves>>
GalleryFails ==
    /\ gallery.fetch.phase # "idle" /\ faults < MaxFaults /\ faults' = faults + 1
    /\ gallery' = FetchFailed(gallery)
    /\ UNCHANGED <<server, profile, profileForm, crossed, place, calls, moves>>
-----------------------------------------------------------------------------
\* The page is opened, or was left long ago.
ProfileInit ==
    /\ row \in Rows /\ trades \in SUBSET Trades /\ Cardinality(trades) <= MaxTrades
    /\ images = OldImages
    /\ profile = IF place = "away"
                 THEN [NewQuery EXCEPT !.data = [row |-> row, trades |-> trades], !.stale = TRUE]
                 ELSE StartFetch(NewQuery, TRUE)
    /\ gallery = NewQuery
    /\ profileForm = None /\ crossed = FALSE

ProfileNext ==
    \/ Toggle
    \/ \E value \in Values : Type(value)
    \/ \E t \in Trades : Pick(t) \/ Unpick(t) \/ RemoveTrade(t)
    \/ Submit \/ UploadCni \/ UploadImage
    \/ \E image \in Shown(gallery) : DeleteImage(image)
    \/ \E p \in Tabs \cup {"away"} : GoTo(p)
    \/ Age
    \/ \E c \in DOMAIN calls :
           \/ CommitRow(c) \/ CheckAssign(c) \/ InsertAssign(c) \/ CommitRemove(c)
           \/ CheckUpload(c) \/ CreateImage(c) \/ CommitDelete(c)
           \/ ProfileCallFails(c) \/ ReceiveProfileCall(c)
    \/ AnswerProfile \/ ReceiveProfile \/ ProfileFails
    \/ AnswerGallery \/ ReceiveGallery \/ GalleryFails
-----------------------------------------------------------------------------
(* Properties.                                                             *)

ProfileTypeOK ==
    /\ row \in Rows /\ trades \subseteq Trades /\ images \subseteq 0..MaxCalls
    /\ profile.data = None \/ profile.data \in Profiles
    /\ gallery.data = None \/ gallery.data \subseteq 0..MaxCalls
    /\ profileForm = None \/
           /\ {profileForm.fields, profileForm.base} \subseteq Values
           /\ profileForm.assigned \cup profileForm.pending \subseteq Trades
           /\ profileForm.submit # None => profileForm.submit.awaits \subseteq DOMAIN calls

\* Once the calls have settled, the profile on the screen is the server's,
\* switches rolled back and refetches cancelled included, unless requests
\* for the same part of it overlapped or an answer was lost.
\* (useAvailabilityToggle.ts:15-60, useUpdateWorkerProfile.ts:12-22)
CacheTellsTruth ==
    ~crossed /\ profile.data # None /\ Idle(calls)
        => profile.data = [row |-> row, trades |-> trades]

\* The picker keeps a list of its own beside the cache: mounted at rest and
\* crossed by nothing, it shows the trades the server has.
\* (ProfileForm.tsx:25-28 and 71-96)
PickerTellsTruth ==
    profileForm # None /\ Idle(calls) => (profileForm.clean => profileForm.assigned = trades)

\* At rest the portfolio on the screen is the server's, whatever overlapped,
\* unless a fetch failed or an invalidation could start none.
\* (usePortfolioImages.ts:22-54)
GalleryTellsTruth ==
    /\ profileForm # None /\ ~Underway(GalleryKinds)
    /\ gallery.data # None /\ gallery.fetch.phase = "idle"
    /\ ~gallery.error /\ ~gallery.missed
    => gallery.data = images
=============================================================================
