---------------------------- MODULE SettingsDesk ----------------------------
(***************************************************************************)
(* The settings tab (components/settings/SettingsView.jsx): nine forms     *)
(* whose fields are state of the tab, and two parts that only show.  Save  *)
(* stores nothing anywhere: it shows a mark for two and a half seconds.    *)
(* What was typed lives as long as the tab is shown.                       *)
(*                                                                         *)
(* Abstracted: the fields of a form, to whether they are as at the mount.  *)
(* The directory of the users part is a view of its own and left out.      *)
(***************************************************************************)
EXTENDS Shell

VARIABLE settingsDesk \* the forms that were changed, isSaved and its timers

NewSettingsDesk == [edited |-> {}, saved |-> FALSE, timers |-> 0]

OnSettings == tab = "settings"
Forms == Subtabs["settings"] \ {"users", "roles"}

\* The bar has every part.
SettingsLinks == IF OnSettings THEN Subtabs["settings"] \ {route} ELSE {}

EditForm ==
  /\ OnSettings /\ route \in Forms
  /\ Click
  /\ settingsDesk' = [settingsDesk EXCEPT !.edited = @ \union {route}]
  /\ UNCHANGED <<place, calls>>

\* The button is above every part.
SaveSettings ==
  /\ OnSettings
  /\ Click
  /\ settingsDesk' = [settingsDesk EXCEPT !.saved = TRUE, !.timers = @ + 1]
  /\ UNCHANGED <<place, calls>>

\* The first timer that ends takes the mark away, a later save's, too.
SavedTimer ==
  /\ OnSettings /\ settingsDesk.timers > 0
  /\ settingsDesk' = [settingsDesk EXCEPT !.saved = FALSE, !.timers = @ - 1]
  /\ UNCHANGED <<place, calls, clicks>>

-----------------------------------------------------------------------------
SettingsStep == EditForm \/ SaveSettings \/ SavedTimer

SettingsTypes ==
  settingsDesk \in [edited : SUBSET Forms, saved : BOOLEAN, timers : 0..Clicks]
=============================================================================
