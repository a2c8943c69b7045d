---------------------------- MODULE MCNotifications ----------------------------
(***************************************************************************)
(* Notifications for TLC: two events for a user who opens up to two tabs.  *)
(***************************************************************************)
EXTENDS Notifications, TLC

CONSTANTS t1, t2, d1, d2

TwoTabs == {t1, t2}
TwoDispatches == {d1, d2}
FirstWithEmail == {d1}
=============================================================================
