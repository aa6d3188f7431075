----------------------------- MODULE AlertDesk -----------------------------
(***************************************************************************)
(* The system tab: service health, and the alerts with their filters and   *)
(* the dialog of one alert (components/system).  The third part, the       *)
(* integrations, cannot be shown (Shell, Crashed), so what it would do is  *)
(* out of reach.  Everything is sample data made anew at every mount.      *)
(*                                                                         *)
(* The dialog shows a copy of the alert taken when it was opened, which    *)
(* the two handlers change beside the row.                                 *)
(***************************************************************************)
EXTENDS Shell

CONSTANTS
  Alerts,      \* INITIAL_SYSTEM_ALERTS
  FirstStatus, \* their status in the sample
  SeverityOf

Statuses == {"ACTIVE", "ACKNOWLEDGED", "RESOLVED"}
Severities == {"CRITICAL", "WARNING", "INFO"}
ASSUME AlertSample == FirstStatus \in [Alerts -> Statuses] /\ SeverityOf \in [Alerts -> Severities]

VARIABLE alertDesk \* the status of the alerts, the alert of the dialog, the filters

NoDetail == [alert |-> None, status |-> None]
NewAlertDesk == [status |-> FirstStatus, detail |-> NoDetail,
                 severityFilter |-> "all", statusFilter |-> "all"]

OnAlerts == tab = "system" /\ route = "alerts"
DialogOpen == alertDesk.detail # NoDetail

\* A click on a row, and the arrow, lead to the health of the services.
AlertLinks == IF OnAlerts THEN {"health"} ELSE {}

\* The diagnostics put the same constants back.
RunDiagnostics ==
  /\ tab = "system" /\ route = "health"
  /\ Click
  /\ UNCHANGED <<place, calls, alertDesk>>

FilteredAlerts ==
  {a \in Alerts : /\ alertDesk.severityFilter \in {"all", SeverityOf[a]}
                  /\ alertDesk.statusFilter \in {"all", alertDesk.status[a]}}

\* The rows have the buttons, or the dialog that lies over them.  A button goes by
\* the status it is shown with.
ShownStatus(a) == IF DialogOpen THEN alertDesk.detail.status ELSE alertDesk.status[a]
ButtonsOf(a) == IF DialogOpen THEN alertDesk.detail.alert = a
                              ELSE OnAlerts /\ a \in FilteredAlerts

Filter(severity, status) ==
  /\ OnAlerts /\ ~DialogOpen
  /\ Click
  /\ \/ severity # alertDesk.severityFilter /\ status = alertDesk.statusFilter
     \/ severity = alertDesk.severityFilter /\ status # alertDesk.statusFilter
  /\ alertDesk' = [alertDesk EXCEPT !.severityFilter = severity, !.statusFilter = status]
  /\ UNCHANGED <<place, calls>>

OpenDetails(a) ==
  /\ ~DialogOpen /\ ButtonsOf(a)
  /\ Click
  /\ alertDesk' = [alertDesk EXCEPT !.detail = [alert |-> a, status |-> alertDesk.status[a]]]
  /\ UNCHANGED <<place, calls>>

CloseDetails ==
  /\ DialogOpen
  /\ Click
  /\ alertDesk' = [alertDesk EXCEPT !.detail = NoDetail]
  /\ UNCHANGED <<place, calls>>

\* The row, and the copy when it is of this alert.
WithStatus(a, status) ==
  [alertDesk EXCEPT !.status[a] = status,
                    !.detail.status = IF alertDesk.detail.alert = a THEN status ELSE @]

AcknowledgeAlert(a) ==
  /\ ButtonsOf(a) /\ ShownStatus(a) = "ACTIVE"
  /\ Click
  /\ alertDesk' = WithStatus(a, "ACKNOWLEDGED")
  /\ UNCHANGED <<place, calls>>

ResolveAlert(a) ==
  /\ ButtonsOf(a) /\ ShownStatus(a) # "RESOLVED"
  /\ Click
  /\ alertDesk' = WithStatus(a, "RESOLVED")
  /\ UNCHANGED <<place, calls>>

-----------------------------------------------------------------------------
AlertStep ==
  \/ \E severity \in Severities \union {"all"}, status \in Statuses \union {"all"} :
       Filter(severity, status)
  \/ \E a \in Alerts : OpenDetails(a) \/ AcknowledgeAlert(a) \/ ResolveAlert(a)
  \/ CloseDetails \/ RunDiagnostics

AlertTypes ==
  alertDesk \in [status : [Alerts -> Statuses],
                 detail : [alert : Alerts \union {None}, status : Statuses \union {None}],
                 severityFilter : Severities \union {"all"}, statusFilter : Statuses \union {"all"}]

\* The dialog shows its alert as the list has it, whatever is pressed in it
\* (useSystemState.js:67-88).
DetailIsCurrent ==
  DialogOpen => alertDesk.detail.status = alertDesk.status[alertDesk.detail.alert]

\* An acknowledged or resolved alert is not opened again.
Rank == [ACTIVE |-> 0, ACKNOWLEDGED |-> 1, RESOLVED |-> 2]
AlertsProgress == \A a \in Alerts : Rank[alertDesk.status[a]] <= Rank[alertDesk'.status[a]]
=============================================================================
