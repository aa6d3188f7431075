--------------------------- MODULE OperationsDesk ---------------------------
(***************************************************************************)
(* The desks of the people who run the floor, side by side in the frame:   *)
(* transfers and verification, alerts, recordings, analytics and settings, *)
(* with the banner of an incoming transfer above every tab                 *)
(* (components/layout/IncomingTransferBanner.jsx).                         *)
(*                                                                         *)
(* The frame shows one tab at a time and makes its state anew; a tab that  *)
(* is left forgets its state, its timers fire into nothing and its calls   *)
(* end without it.  A dialog lies over everything until it is closed.      *)
(***************************************************************************)
EXTENDS TransferDesk, AlertDesk, RecordingDesk, ReportDesk, SettingsDesk

VARIABLE dismissed \* was the banner put away?

desks == <<monitor, card, alertDesk, recordingDesk, reportDesk, settingsDesk>>
vars == <<place, calls, clicks, desks, dismissed>>

FreshDesks ==
  /\ monitor' = NewMonitor /\ card' = NewCard
  /\ alertDesk' = NewAlertDesk /\ recordingDesk' = NewRecordingDesk
  /\ reportDesk' = NewReportDesk /\ settingsDesk' = NewSettingsDesk

-----------------------------------------------------------------------------
(* Tabs, parts and addresses. *)

Uncovered == ~DialogOpen /\ ~InExportDialog /\ (tab = "recording" => OnRecordings)

\* A part that falls over takes the page with it.
Go(newTab, newRoute) ==
  /\ Uncovered
  /\ Click
  /\ Show(newTab, newRoute)
  /\ IF tab' = tab /\ ~Crashed'
     THEN UNCHANGED <<desks, calls>>
     ELSE FreshDesks /\ calls' = Orphaned
  /\ UNCHANGED dismissed

\* The side bar names the tabs of the role with their parts.
OpenTab(newTab, newRoute) ==
  /\ IsTabAllowed(newTab) /\ newRoute \in Subtabs[newTab] \union {Bare[newTab]}
  /\ <<newTab, newRoute>> # <<tab, route>>
  /\ Go(newTab, newRoute)

\* The links a part has to the other parts of its tab.
Links == MonitorLinks \union QueueLinks \union VerifierLinks \union AlertLinks
           \union OverviewLinks \union ReportLinks \union SettingsLinks
Navigate(newRoute) ==
  /\ newRoute \in Links
  /\ Go(tab, newRoute)

\* The bell leads everyone to the alerts.
OpenAlerts == Go("system", "alerts")

\* The banner is for verifiers and the master administrator, until it is put away.
BannerShown == role \in {"VERIFIER", "MASTER_ADMIN"} /\ ~dismissed

OpenWorkspace ==
  /\ BannerShown
  /\ Go("verifier", "workspace")

Dismiss ==
  /\ BannerShown /\ Uncovered
  /\ Click
  /\ dismissed' = TRUE
  /\ UNCHANGED <<place, calls, desks>>

\* A new document at the same address, and the banner again; one at another address
\* is an initial state.  A page that fell over falls over again.
Reload ==
  /\ clicks > 0 /\ clicks' = clicks - 1
  /\ FreshDesks
  /\ calls' = [s \in Slots |-> Idle]
  /\ dismissed' = FALSE
  /\ UNCHANGED place

-----------------------------------------------------------------------------
Init ==
  /\ ShellInit
  /\ monitor = NewMonitor /\ card = NewCard
  /\ alertDesk = NewAlertDesk /\ recordingDesk = NewRecordingDesk
  /\ reportDesk = NewReportDesk /\ settingsDesk = NewSettingsDesk
  /\ dismissed = FALSE

\* The steps of one desk leave the others alone.
DeskStep ==
  /\ ~Crashed
  /\ \/ TransferStep /\ UNCHANGED <<alertDesk, recordingDesk, reportDesk, settingsDesk>>
     \/ AlertStep /\ UNCHANGED <<monitor, card, recordingDesk, reportDesk, settingsDesk>>
     \/ RecordingStep /\ UNCHANGED <<monitor, card, alertDesk, reportDesk, settingsDesk>>
     \/ ReportStep /\ UNCHANGED <<monitor, card, alertDesk, recordingDesk, settingsDesk>>
     \/ SettingsStep /\ UNCHANGED <<monitor, card, alertDesk, recordingDesk, reportDesk>>
  /\ UNCHANGED dismissed

Next ==
  \/ \E newTab \in Tabs, newRoute \in AllRoutes : OpenTab(newTab, newRoute)
  \/ \E newRoute \in AllRoutes : Navigate(newRoute)
  \/ OpenAlerts \/ OpenWorkspace \/ Dismiss \/ Reload
  \/ \E s \in Slots, how \in {"answered", "lost"} : End(s, how) /\ UNCHANGED <<desks, dismissed>>
  \/ DeskStep

Spec == Init /\ [][Next]_vars

-----------------------------------------------------------------------------
CallTypes ==
  \A s \in Slots :
    calls[s] \in [what : {None, "retry", "resolve", "accept", "disposition", "export"},
                  about : Failed \union Outcomes \union Titles \union {None},
                  end : {"open", "answered", "lost"}, mounted : BOOLEAN]

TypeOK == /\ ShellTypes /\ CallTypes /\ dismissed \in BOOLEAN
          /\ TransferTypes /\ AlertTypes /\ RecordingTypes /\ ReportTypes /\ SettingsTypes

\* What each desk shows agrees with itself: outcomes are stated before they are
\* sent, the dialog of an alert shows its row, audits have scores, listed exports
\* have titles.
Consistent == /\ TypeOK
              /\ OutcomesStated /\ DetailIsCurrent /\ AuditsHaveScores /\ ExportsTitled

\* While a tab stays on screen, and in whatever order calls and timers end: a row
\* that left the queue stays out of it (TransfersView.jsx:47-66), an alert is not
\* opened again (useSystemState.js:67-88), and an audit is changed by its own form
\* only (RecordingView.jsx:85-102).
NothingComesBack ==
  [][tab' = tab /\ ~Crashed' /\ ~Reload =>
       /\ monitor'.queue \subseteq monitor.queue
       /\ AlertsProgress /\ AuditsByForm]_vars
=============================================================================
