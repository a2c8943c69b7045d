------------------------------ MODULE Dashboard ------------------------------
(***************************************************************************)
(* What the tabs of the worker's dashboard (src/frontend/src) share: the   *)
(* tab on the screen and the mutations under way.                          *)
(*                                                                         *)
(* A mutation's call outlives the component that sent it: the callbacks of *)
(* its hook run in any case, those given to mutate() only while the        *)
(* component is mounted, and a component mounted again shows no spinner    *)
(* for the call of the one before.                                         *)
(***************************************************************************)
EXTENDS QueryCache, Naturals, Sequences, FiniteSets

CONSTANTS MaxCalls, MaxFaults, MaxMoves    \* bounds: mutations, failures, moves

VARIABLES
    place,    \* the tab shown; "away" is another page
    calls,    \* the mutations sent, in order
    faults,
    moves     \* what the user does that sends nothing, and staleTime passing

ASSUME DashboardAssumption ==
    MaxCalls \in Nat /\ MaxFaults \in Nat /\ MaxMoves \in Nat

Tabs == {"profile", "account"}
-----------------------------------------------------------------------------
(* Mutations.  A call is sent, perhaps checked (a server that reads before *)
(* it writes), then answered or failed, then done.                         *)

Toggles == {"availability"}     \* one switch is on the screen, in the sidebar or above the tabs
FormKinds == {"save", "assign", "remove", "cni"}
GalleryKinds == {"upload", "delete"}
AccountKinds == {"account", "preference"}
Kinds == Toggles \cup FormKinds \cup GalleryKinds \cup AccountKinds \cup {"language"}

\* Where the component that sends a kind of call is mounted.
Home(kind) ==
    CASE kind \in FormKinds \cup GalleryKinds -> "profile"
      [] kind \in AccountKinds -> "account"
      [] OTHER -> "page"

NewCall(kind, arg, before) ==
    [kind |-> kind, arg |-> arg, before |-> before, phase |-> "sent",
     answer |-> None, mounted |-> TRUE]
Done(call) == [NewCall(call.kind, None, None) EXCEPT !.phase = "done", !.mounted = FALSE]

InFlight(call) == call.phase # "done"
\* isPending of the hook now mounted.
Pending(kind) == \E c \in DOMAIN calls : calls[c].kind = kind /\ calls[c].mounted
\* The variables of a hook that may have several calls: its last call's.
LastOf(kind, c) ==
    /\ calls[c].kind = kind
    /\ \A d \in DOMAIN calls : d > c => calls[d].kind # kind

Underway(kinds) == \E c \in DOMAIN calls : calls[c].kind \in kinds /\ InFlight(calls[c])
CanSend(n) == Len(calls) + n <= MaxCalls

\* What is left of the calls when only `visible` components are mounted.
Orphaned(cs, visible) ==
    [c \in DOMAIN cs |-> [cs[c] EXCEPT !.mounted = @ /\ Home(cs[c].kind) \in visible]]
=============================================================================
