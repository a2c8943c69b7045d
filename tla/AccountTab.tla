----------------------------- MODULE AccountTab -----------------------------
(***************************************************************************)
(* The account tab of the dashboard (src/frontend/src/features/user), its  *)
(* notification preferences, the language switcher of the page's header,   *)
(* and PATCH /user/{username}.                                             *)
(*                                                                         *)
(* An account has a name, the label of a place and the place's point; a    *)
(* place stands for both.  The fetches of ['user'] are Session's business: *)
(* here the user has been loaded, and changes with the answers to updates. *)
(***************************************************************************)
EXTENDS Dashboard

CONSTANTS Names, Places, Languages,
          Switches       \* (event type, channel) pairs

VARIABLES
    account,      \* users: name, label, point, language
    enabled,      \* notification preferences
    user,         \* query ['user'], a UserRead: it has no coordinates
    language,     \* i18n.language
    preferences,  \* query ['notification-preferences']
    accountForm,  \* AccountTab's form, while it is mounted
    mixed         \* history: updates overlapped, or one got no good answer

accountVars == <<account, enabled, user, language, preferences, accountForm, mixed>>
places == Places \cup {None}
Labels == places \cup {"typed"}      \* text that is no suggestion

ASSUME AccountAssumption == "typed" \notin Places

Accounts == [name : Names, label : places, point : places, language : Languages]
Users == [name : Names, label : places, language : Languages]
Read(a) == [name |-> a.name, label |-> a.label, language |-> a.language]
UpdateKinds == {"account", "language"}
-----------------------------------------------------------------------------
(* The form.                                                               *)

\* (user as any).latitude: never there.
NewFields == [name |-> user.name, label |-> user.label, point |-> None]
\* A label without its point is looked up as if it had been typed.
NewAccountForm ==
    [fields |-> NewFields, base |-> NewFields,
     search |-> IF user.label = None THEN "idle" ELSE "asked", clean |-> ~mixed /\ ~Underway(UpdateKinds)]

Typing(fields) ==
    /\ moves < MaxMoves /\ moves' = moves + 1
    /\ accountForm' = [accountForm EXCEPT !.fields = fields]
    /\ UNCHANGED <<account, enabled, user, language, preferences, mixed, place, calls, faults>>
TypeName(name) ==
    /\ accountForm # None /\ name # accountForm.fields.name
    /\ Typing([accountForm.fields EXCEPT !.name = name])

Search(search, fields) ==
    /\ accountForm' = [accountForm EXCEPT !.search = search, !.fields = fields]
    /\ UNCHANGED <<account, enabled, user, language, preferences, mixed, place, calls, faults>>
\* Text is a label without coordinates; what is listed stays until it is
\* looked up.
HandleQueryChange ==
    /\ accountForm # None /\ moves < MaxMoves /\ moves' = moves + 1
    /\ Search(IF accountForm.search \in {"listed", "relisting"} THEN "relisting" ELSE "due",
              [accountForm.fields EXCEPT !.label = "typed", !.point = None])
\* 400 ms without typing; then the geocoder answers, or fails or finds nothing.
Debounce ==
    /\ accountForm # None /\ accountForm.search \in {"due", "relisting"}
    /\ UNCHANGED moves
    /\ Search("asked", accountForm.fields)
Suggest ==
    /\ accountForm # None /\ accountForm.search = "asked"
    /\ UNCHANGED moves
    /\ \E found \in BOOLEAN : Search(IF found THEN "listed" ELSE "idle", accountForm.fields)
HandleSelect(p) ==
    /\ accountForm # None /\ accountForm.search \in {"listed", "relisting"}
    /\ UNCHANGED moves
    /\ Search("idle", [accountForm.fields EXCEPT !.label = p, !.point = p])
HandleClear ==
    /\ accountForm # None /\ accountForm.fields.label # None
    /\ UNCHANGED moves
    /\ Search("idle", [accountForm.fields EXCEPT !.label = None, !.point = None])
-----------------------------------------------------------------------------
(* Sending.                                                                *)

SendUpdate(kind, arg) ==
    /\ CanSend(1)
    /\ calls' = Append(calls, NewCall(kind, arg, None))
    /\ mixed' = (mixed \/ Underway(UpdateKinds))
Soiled(form) == IF form # None /\ mixed' THEN [form EXCEPT !.clean = FALSE] ELSE form

\* userUpdateSchema: a label and its coordinates, or none of them.
IsValid(fields) == (fields.label = None) = (fields.point = None)
IsAccountDirty == accountForm.fields # accountForm.base
Changed(fields) ==
    (IF fields.name # user.name THEN {"name"} ELSE {})
    \cup (IF fields.label # user.label THEN {"place"} ELSE {})
\* Nothing is sent when the fields are those of the user on the screen.
SubmitAccount ==
    /\ accountForm # None /\ IsAccountDirty /\ ~Pending("account")
    /\ IsValid(accountForm.fields)
    /\ IF Changed(accountForm.fields) = {}
       THEN /\ accountForm' = [accountForm EXCEPT !.base = accountForm.fields]
            /\ UNCHANGED <<calls, mixed>>
       ELSE /\ SendUpdate("account", [changed |-> Changed(accountForm.fields), fields |-> accountForm.fields])
            /\ accountForm' = Soiled(accountForm)
    /\ UNCHANGED <<account, enabled, user, language, preferences, place, faults, moves>>

\* The language changes at once, and is stored if the user's is another.
ChangeLanguage(l) ==
    /\ l # language \/ l # user.language
    /\ language' = l
    /\ IF user.language # l
       THEN SendUpdate("language", l) ELSE UNCHANGED <<calls, mixed>>
    /\ accountForm' = Soiled(accountForm)
    /\ UNCHANGED <<account, enabled, user, preferences, place, faults, moves>>

\* Only the switch turned last is disabled while its call is under way.
IsRowPending(s) ==
    \E c \in DOMAIN calls :
        LastOf("preference", c) /\ calls[c].mounted /\ calls[c].arg.switch = s
UpdatePreference(s) ==
    /\ accountForm # None /\ preferences.data # None /\ ~IsRowPending(s) /\ CanSend(1)
    /\ calls' = Append(calls, NewCall("preference", [switch |-> s, on |-> ~preferences.data[s]], None))
    /\ UNCHANGED <<accountVars, place, faults, moves>>
-----------------------------------------------------------------------------
(* The server.                                                             *)

\* mutant: a new label leaves the point of the old one
PatchKeepingPoint(a, call) ==
    IF call.kind = "language" THEN [a EXCEPT !.language = call.arg]
    ELSE [a EXCEPT !.name = IF "name" \in call.arg.changed THEN call.arg.fields.name ELSE @,
                   !.label = IF "place" \in call.arg.changed THEN call.arg.fields.label ELSE @]
\* crud_users.update: `location` is always set, to the point of the
\* coordinates that were sent, none if none were.
Patch(a, call) ==
    IF call.kind = "language" THEN [a EXCEPT !.language = call.arg, !.point = None]
    ELSE [a EXCEPT !.name = IF "name" \in call.arg.changed THEN call.arg.fields.name ELSE @,
                   !.label = IF "place" \in call.arg.changed THEN call.arg.fields.label ELSE @,
                   !.point = IF "place" \in call.arg.changed THEN call.arg.fields.point ELSE None]

CommitUpdate(c) ==
    /\ calls[c].kind \in UpdateKinds /\ calls[c].phase = "sent"
    /\ account' = Patch(account, calls[c])
    /\ calls' = [calls EXCEPT ![c].phase = "answered", ![c].answer = Read(account')]
    /\ UNCHANGED <<enabled, user, language, preferences, accountForm, mixed, place, faults, moves>>
CommitPreference(c) ==
    /\ calls[c].kind = "preference" /\ calls[c].phase = "sent"
    /\ enabled' = [enabled EXCEPT ![calls[c].arg.switch] = calls[c].arg.on]
    /\ calls' = [calls EXCEPT ![c].phase = "answered"]
    /\ UNCHANGED <<account, user, language, preferences, accountForm, mixed, place, faults, moves>>

\* A request or its answer is lost.
AccountCallFails(c) ==
    /\ calls[c].kind \in AccountKinds \cup {"language"}
    /\ calls[c].phase \in {"sent", "answered"}
    /\ faults < MaxFaults /\ faults' = faults + 1
    /\ calls' = [calls EXCEPT ![c].phase = "failed", ![c].answer = None]
    /\ mixed' = (mixed \/ calls[c].kind = "language"
                       \/ (calls[c].kind = "account" /\ calls[c].phase = "answered"))
    /\ preferences' = [preferences EXCEPT !.missed =
           @ \/ (calls[c].kind = "preference" /\ calls[c].phase = "answered")]
    /\ accountForm' = Soiled(accountForm)
    /\ UNCHANGED <<account, enabled, user, language, place, moves>>
-----------------------------------------------------------------------------
(* Answers.                                                                *)

\* useLanguageSync: an effect of a change of the user's language.
Synced(answer) == IF answer.language # user.language THEN answer.language ELSE language

\* mutant: the form is reset when the update failed as well
ResetAfterAny(call) ==
    IF accountForm = None \/ ~call.mounted \/ call.kind # "account" THEN accountForm
    ELSE [accountForm EXCEPT !.fields = call.arg.fields, !.base = call.arg.fields]
\* An update that succeeded resets the form to what was submitted.
ResetAfter(call) ==
    IF accountForm = None \/ ~call.mounted \/ call.kind # "account" \/ call.phase = "failed"
    THEN accountForm
    ELSE [accountForm EXCEPT !.fields = call.arg.fields, !.base = call.arg.fields]

ReceiveUpdate(c) ==
    /\ calls[c].kind \in UpdateKinds /\ calls[c].phase \in {"answered", "failed"}
    /\ LET ok == calls[c].phase = "answered"
       IN /\ user' = IF ok THEN calls[c].answer ELSE user
          /\ language' = IF ok THEN Synced(calls[c].answer) ELSE language
    /\ accountForm' = ResetAfter(calls[c])
    /\ calls' = [calls EXCEPT ![c] = Done(@)]
    /\ UNCHANGED <<account, enabled, preferences, mixed, place, faults, moves>>
ReceivePreference(c) ==
    /\ calls[c].kind = "preference" /\ calls[c].phase \in {"answered", "failed"}
    /\ preferences' = IF calls[c].phase = "answered"
                      THEN Invalidated(preferences, accountForm # None) ELSE preferences
    /\ calls' = [calls EXCEPT ![c] = Done(@)]
    /\ UNCHANGED <<account, enabled, user, language, accountForm, mixed, place, faults, moves>>

AnswerPreferences ==
    /\ preferences.fetch.phase = "sent" /\ preferences' = Answered(preferences, enabled)
    /\ UNCHANGED <<account, enabled, user, language, accountForm, mixed, place, calls, faults, moves>>
ReceivePreferences ==
    /\ preferences.fetch.phase = "answered" /\ preferences' = Received(preferences)
    /\ UNCHANGED <<account, enabled, user, language, accountForm, mixed, place, calls, faults, moves>>
PreferencesFail ==
    /\ preferences.fetch.phase # "idle" /\ faults < MaxFaults /\ faults' = faults + 1
    /\ preferences' = FetchFailed(preferences)
    /\ UNCHANGED <<account, enabled, user, language, accountForm, mixed, place, calls, moves>>
-----------------------------------------------------------------------------
\* The tab is mounted or left as the dashboard shows it or not.
RenderAccount(shown) ==
    /\ accountForm' = IF ~shown THEN None ELSE IF accountForm = None THEN NewAccountForm ELSE accountForm
    /\ preferences' = IF shown /\ accountForm = None THEN Observed(preferences, FALSE) ELSE preferences
    /\ UNCHANGED <<account, enabled, user, language, mixed>>

\* A user who may have a place already: the point can only be its label's.
AccountInit ==
    /\ account \in {a \in Accounts : a.point = a.label}
    /\ enabled \in [Switches -> BOOLEAN]
    /\ user = Read(account) /\ language = account.language
    /\ preferences = NewQuery /\ accountForm = None /\ mixed = FALSE

AccountNext ==
    \/ \E name \in Names : TypeName(name)
    \/ HandleQueryChange \/ Debounce \/ Suggest \/ HandleClear
    \/ \E p \in Places : HandleSelect(p)
    \/ SubmitAccount
    \/ \E s \in Switches : UpdatePreference(s)
    \/ \E c \in DOMAIN calls :
           \/ CommitUpdate(c) \/ CommitPreference(c) \/ AccountCallFails(c)
           \/ ReceiveUpdate(c) \/ ReceivePreference(c)
    \/ AnswerPreferences \/ ReceivePreferences \/ PreferencesFail
-----------------------------------------------------------------------------
(* Properties.                                                             *)

AccountTypeOK ==
    /\ account \in Accounts /\ enabled \in [Switches -> BOOLEAN]
    /\ user \in Users /\ language \in Languages
    /\ preferences.data = None \/ preferences.data \in [Switches -> BOOLEAN]
    /\ accountForm = None \/
           {accountForm.fields, accountForm.base} \subseteq [name : Names, label : Labels, point : places]

\* A point, on the server or in the form, is that of the label beside it:
\* nobody is listed at one place under another's name.
\* (LocationSearchField.tsx:14-20, AccountTab.tsx:45-51, crud_users.py:66-72)
PointIsTheLabels ==
    /\ account.point # None => account.point = account.label
    /\ accountForm # None /\ accountForm.fields.point # None
           => accountForm.fields.point = accountForm.fields.label

\* A form that shows nothing to save shows what the server has: what was
\* refused stays to be saved again.  (AccountTab.tsx:39-63)
FormTellsTruth ==
    accountForm # None => (accountForm.clean /\ ~IsAccountDirty /\ ~Underway(UpdateKinds)
        => Read(account) = [name |-> accountForm.fields.name, label |-> accountForm.fields.label,
                            language |-> account.language])

\* At rest the language on the screen, of the user and of the account are
\* one, unless updates overlapped or a change could not be stored.
\* (useChangeLanguage.ts:16-24, useLanguageSync.ts:13-22)
LanguageTellsTruth ==
    ~mixed /\ ~Underway(UpdateKinds) => language = user.language /\ language = account.language

\* At rest the switches are the server's, however many were turned at once,
\* unless a fetch failed or an invalidation could start none.
\* (useUpdateNotificationPreference.ts:12-22)
PreferencesTellTruth ==
    /\ accountForm # None /\ ~Underway({"preference"})
    /\ preferences.data # None /\ preferences.fetch.phase = "idle"
    /\ ~preferences.error /\ ~preferences.missed
    => preferences.data = enabled

\* The label of a place and its point are stored together.
\* (AccountTab.tsx:45-46, userSchema.ts:45-47)
LabelHasItsPoint == account.label # None => account.point # None
=============================================================================
