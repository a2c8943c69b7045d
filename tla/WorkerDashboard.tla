--------------------------- MODULE WorkerDashboard ---------------------------
(***************************************************************************)
(* WorkerDashboardPage (src/frontend/src/features/worker/pages): one page  *)
(* that shows one of its tabs at a time.  What a step of the profile tab   *)
(* leaves on the screen decides whether the account tab is mounted; calls, *)
(* failures and moves are counted for the page as a whole.                 *)
(***************************************************************************)
EXTENDS ProfileTab, AccountTab

vars == <<place, calls, faults, moves, profileVars, accountVars>>

AccountShown == PageShown(Page) /\ place = "account"

Init ==
    /\ place \in {"profile", "away"} /\ calls = <<>> /\ faults = 0 /\ moves = 0
    /\ ProfileInit /\ AccountInit

\* The language switcher is in the page's header.
Header == PageShown(Page) /\ \E l \in Languages : ChangeLanguage(l)

Next ==
    \/ ProfileNext /\ RenderAccount(AccountShown')
    \/ (AccountNext \/ Header) /\ UNCHANGED profileVars

Spec == Init /\ [][Next]_vars
-----------------------------------------------------------------------------
\* Both tabs' state is well formed, and the page shows at most one of them.
TypeOK ==
    /\ place \in Tabs \cup {"away"}
    /\ Len(calls) <= MaxCalls /\ faults <= MaxFaults /\ moves <= MaxMoves
    /\ \A c \in DOMAIN calls : calls[c].kind \in Kinds
    /\ ProfileTypeOK /\ AccountTypeOK
    /\ profileForm # None => accountForm = None /\ place = "profile"

\* At rest the profile tab shows the worker the server has, in the cache and
\* in the copy the picker keeps, though a switch is turned before it is
\* stored, refetches are cancelled and answers come when the form is gone.
ProfileTellsTruth == CacheTellsTruth /\ PickerTellsTruth

\* Lists that every change invalidates and nothing else writes are the
\* server's at rest, however many changes overlapped.
QueriesCatchUp == GalleryTellsTruth /\ PreferencesTellTruth

\* At rest the account tab shows as saved what is saved, the language on the
\* screen included, whichever updates were refused or lost, and a point is
\* at no time that of another label.
AccountTellsTruth == FormTellsTruth /\ LanguageTellsTruth /\ PointIsTheLabels
=============================================================================
