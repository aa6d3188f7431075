------------------------- MODULE OperationsDeskProofs -------------------------
(***************************************************************************)
(* Proofs about OperationsDesk, for any roles, transfers, alerts,          *)
(* recordings, outcomes and titles, any number of calls in flight and any  *)
(* number of clicks.                                                       *)
(***************************************************************************)
EXTENDS OperationsDesk, TLAPS

-----------------------------------------------------------------------------
(* The invariant, one part for the frame and one for each desk. *)

CallRows ==
  [what : {None, "retry", "resolve", "accept", "disposition", "export"},
   about : Failed \union Outcomes \union Titles \union {None},
   end : {"open", "answered", "lost"}, mounted : BOOLEAN]

\* What a call is about was stated before it was sent.
CallsOK ==
  /\ calls \in [Slots -> CallRows]
  /\ \A s \in Slots :
       /\ calls[s].what = "disposition" => calls[s].about \in Outcomes
       /\ calls[s].what = "export" => calls[s].about \in Titles \ {Blank}

TransferInv ==
  /\ TransferTypes
  /\ card.state = "completed" => card.submitted
  /\ card.state = "incoming" => ~card.submitted

\* A dialog is always the dialog of an alert.
AlertInv ==
  /\ AlertTypes
  /\ DialogOpen => alertDesk.detail.alert \in Alerts
  /\ DetailIsCurrent

\* A form is the form of a recording and offers a rating; no timer runs that no
\* click has started.
RecordingInv ==
  /\ RecordingTypes /\ AuditsHaveScores
  /\ recordingDesk.form # NoForm => recordingDesk.form.of \in Recordings
  /\ recordingDesk.form.rating # 0
  /\ recordingDesk.timers + clicks <= Clicks

ReportInv ==
  /\ ReportTypes
  /\ \A i \in DOMAIN reportDesk.exports : reportDesk.exports[i] # Blank

SettingsInv == SettingsTypes /\ settingsDesk.timers + clicks <= Clicks

Inv ==
  /\ ShellTypes /\ CallsOK /\ dismissed \in BOOLEAN
  /\ TransferInv /\ AlertInv /\ RecordingInv /\ ReportInv /\ SettingsInv

LEMMA InvConsistent == Inv => Consistent
<1> SUFFICES ASSUME Inv PROVE Consistent
  OBVIOUS
<1>1. CallTypes
  BY DEF Inv, CallsOK, CallTypes, CallRows
<1>2. OutcomesStated
  BY DEF Inv, CallsOK, TransferInv, OutcomesStated
<1>3. ExportsTitled
  BY DEF Inv, CallsOK, ReportInv, ExportsTitled
<1>4. QED
  BY <1>1, <1>2, <1>3
  DEF Inv, TransferInv, AlertInv, RecordingInv, ReportInv, SettingsInv, Consistent, TypeOK

-----------------------------------------------------------------------------
(* The calls in flight. *)

\* A call that is sent takes a free slot.
LEMMA SendKeeps ==
  ASSUME CallsOK,
         NEW what \in {"retry", "resolve", "accept", "disposition", "export"},
         NEW about \in Failed \union Outcomes \union Titles \union {None},
         Send(what, about),
         what = "disposition" => about \in Outcomes,
         what = "export" => about \in Titles \ {Blank}
  PROVE  CallsOK'
<1> DEFINE call == [Idle EXCEPT !.what = what, !.about = about, !.mounted = TRUE]
<1>1. PICK s \in Slots : calls' = [calls EXCEPT ![s] = call]
  BY DEF Send
<1>2. /\ call.what = what /\ call.about = about
      /\ call.end = "open" /\ call.mounted = TRUE
  BY DEF Idle
<1>3. call \in CallRows
  BY <1>2 DEF CallRows, Idle
<1>4. ASSUME NEW t \in Slots
      PROVE  calls'[t] = IF t = s THEN call ELSE calls[t]
  BY <1>1 DEF CallsOK
<1>5. calls' \in [Slots -> CallRows]
  BY <1>1, <1>3 DEF CallsOK
<1>6. QED
  BY <1>2, <1>4, <1>5 DEF CallsOK

\* A call that has ended frees its slot, and one that ends stays what it is.
LEMMA SlotKeeps ==
  ASSUME CallsOK, NEW s \in Slots,
         \/ calls' = [calls EXCEPT ![s] = Idle]
         \/ \E how \in {"answered", "lost"} : calls' = [calls EXCEPT ![s].end = how]
  PROVE  CallsOK'
<1>1. Idle \in CallRows
  BY DEF Idle, CallRows
<1>2. CASE calls' = [calls EXCEPT ![s] = Idle]
  <2>1. \A t \in Slots : calls'[t] = IF t = s THEN Idle ELSE calls[t]
    BY <1>2 DEF CallsOK
  <2>2. QED
    BY <1>1, <1>2, <2>1 DEF CallsOK, Idle, None
<1>3. ASSUME NEW how \in {"answered", "lost"}, calls' = [calls EXCEPT ![s].end = how]
      PROVE  CallsOK'
  <2> DEFINE call == [calls[s] EXCEPT !.end = how]
  <2>1. calls[s] \in CallRows
    BY DEF CallsOK
  <2>2. call \in CallRows /\ call.what = calls[s].what /\ call.about = calls[s].about
    BY <2>1 DEF CallRows
  <2>3. \A t \in Slots : calls'[t] = IF t = s THEN call ELSE calls[t]
    BY <1>3 DEF CallsOK
  <2>4. calls' \in [Slots -> CallRows]
    BY <1>3, <2>2 DEF CallsOK
  <2>5. QED
    BY <2>2, <2>3, <2>4 DEF CallsOK
<1>4. QED
  BY <1>2, <1>3

\* A desk that is left, and a page that is loaded anew.
LEMMA LeaveKeeps ==
  ASSUME CallsOK, calls' = Orphaned \/ calls' = [s \in Slots |-> Idle]
  PROVE  CallsOK'
<1>1. CASE calls' = Orphaned
  <2>1. ASSUME NEW s \in Slots
        PROVE  /\ calls'[s] \in CallRows
               /\ calls'[s].what = calls[s].what /\ calls'[s].about = calls[s].about
    <3>1. calls[s] \in CallRows /\ calls'[s] = [calls[s] EXCEPT !.mounted = FALSE]
      BY <1>1 DEF CallsOK, Orphaned
    <3>2. QED
      BY <3>1 DEF CallRows
  <2>2. calls' \in [Slots -> CallRows]
    BY <1>1, <2>1 DEF Orphaned
  <2>3. QED
    BY <2>1, <2>2 DEF CallsOK
<1>2. CASE calls' = [s \in Slots |-> Idle]
  BY <1>2 DEF CallsOK, CallRows, Idle, None
<1>3. QED
  BY <1>1, <1>2

-----------------------------------------------------------------------------
(* The frame. *)

\* A click leaves fewer.
LEMMA ClickCounts ==
  ASSUME ShellTypes, Click
  PROVE  clicks \in Nat /\ clicks' \in 0..Clicks /\ clicks' = clicks - 1
BY Bounds DEF ShellTypes, Click

\* Each part of an address is a part of its tab.
LEMMA BareIn == \A t \in Tabs : Bare[t] \in Routes(t) /\ Subtabs[t] \subseteq Routes(t)
BY DEF Routes

LEMMA LinksLead ==
  ASSUME ShellTypes
  PROVE  Links \subseteq Routes(tab)
<1> USE DEF Tabs, Bare, Routes, Subtabs
<1>1. MonitorLinks \subseteq Routes(tab) /\ QueueLinks \subseteq Routes(tab)
  BY DEF MonitorLinks, QueueLinks, OnQueue
<1>2. VerifierLinks \subseteq Routes(tab)
  BY DEF VerifierLinks
<1>3. AlertLinks \subseteq Routes(tab)
  BY DEF AlertLinks, OnAlerts
<1>4. OverviewLinks \subseteq Routes(tab) /\ ReportLinks \subseteq Routes(tab)
  BY DEF OverviewLinks, ReportLinks
<1>5. SettingsLinks \subseteq Routes(tab)
  BY DEF SettingsLinks, OnSettings
<1>6. QED
  BY <1>1, <1>2, <1>3, <1>4, <1>5 DEF Links

LEMMA ShowKeeps ==
  ASSUME ShellTypes, NEW newTab \in Tabs, NEW newRoute \in Routes(newTab), Show(newTab, newRoute)
  PROVE  role' \in Roles /\ tab' \in Tabs /\ route' \in Routes(tab') /\ IsTabAllowed(tab)'
<1>1. CASE IsTabAllowed(newTab)
  BY <1>1 DEF Show, ShellTypes, IsTabAllowed
<1>2. CASE ~IsTabAllowed(newTab)
  <2>1. tab' = "dashboard" /\ route' = None /\ role' = role
    BY <1>2 DEF Show
  <2>2. "dashboard" \in Tabs /\ None \in Routes("dashboard")
    BY DEF Tabs, Routes, Bare
  <2>3. role \in RolesOf["dashboard"]
    BY DEF RolesOf, ShellTypes
  <2>4. QED
    BY <2>1, <2>2, <2>3 DEF ShellTypes, IsTabAllowed
<1>3. QED
  BY <1>1, <1>2

-----------------------------------------------------------------------------
(* Desks that nothing is done at, and desks that are made anew. *)

LEMMA TransferStays ==
  ASSUME TransferInv, UNCHANGED <<monitor, card>>
  PROVE  TransferInv'
BY DEF TransferInv, TransferTypes

LEMMA AlertStays ==
  ASSUME AlertInv, UNCHANGED alertDesk
  PROVE  AlertInv'
BY DEF AlertInv, AlertTypes, DialogOpen, DetailIsCurrent

LEMMA RecordingStays ==
  ASSUME ShellTypes, RecordingInv, UNCHANGED recordingDesk, clicks' \in 0..clicks
  PROVE  RecordingInv'
<1>1. recordingDesk.timers \in Nat /\ clicks \in Nat /\ clicks' \in Nat /\ clicks' <= clicks
  BY Bounds DEF RecordingInv, RecordingTypes, ShellTypes
<1>2. recordingDesk'.timers + clicks' <= Clicks
  BY <1>1, Bounds DEF RecordingInv
<1>3. QED
  BY <1>2 DEF RecordingInv, RecordingTypes, AuditsHaveScores

LEMMA ReportStays ==
  ASSUME ReportInv, UNCHANGED reportDesk
  PROVE  ReportInv'
BY DEF ReportInv, ReportTypes

LEMMA SettingsStays ==
  ASSUME ShellTypes, SettingsInv, UNCHANGED settingsDesk, clicks' \in 0..clicks
  PROVE  SettingsInv'
<1>1. settingsDesk.timers \in Nat /\ clicks \in Nat /\ clicks' \in Nat /\ clicks' <= clicks
  BY Bounds DEF SettingsInv, SettingsTypes, ShellTypes
<1>2. settingsDesk'.timers + clicks' <= Clicks
  BY <1>1, Bounds DEF SettingsInv
<1>3. QED
  BY <1>2 DEF SettingsInv, SettingsTypes

LEMMA DesksStay ==
  ASSUME Inv, UNCHANGED desks, clicks' \in 0..clicks
  PROVE  TransferInv' /\ AlertInv' /\ RecordingInv' /\ ReportInv' /\ SettingsInv'
BY TransferStays, AlertStays, RecordingStays, ReportStays, SettingsStays DEF Inv, desks


\* What the desks begin with.
LEMMA Samples ==
  /\ NewMonitor \in [queue : SUBSET Failed, search : BOOLEAN]
  /\ NewAlertDesk.detail = NoDetail
  /\ NewAlertDesk \in
       [status : [Alerts -> Statuses],
        detail : [alert : Alerts \union {None}, status : Statuses \union {None}],
        severityFilter : Severities \union {"all"}, statusFilter : Statuses \union {"all"}]
  /\ NewRecordingDesk.form = NoForm /\ NewRecordingDesk.timers = 0
  /\ NewRecordingDesk.rows = FirstRows
  /\ NewRecordingDesk \in
       [part : {"recordings", "qa"}, search : BOOLEAN, rows : [Recordings -> Row],
        playing : Recordings \union {None}, on : BOOLEAN,
        transcript : Recordings \union {None},
        form : [of : Recordings \union {None}, rating : Scores \union Stars \union {0},
                consent : BOOLEAN],
        copied : Recordings \union {None}, timers : 0..Clicks]
  /\ NewReportDesk.exports \in Seq(Titles \union {Blank})
  /\ DOMAIN NewReportDesk.exports = {}
  /\ NewReportDesk.modal = FALSE /\ NewReportDesk.title = Blank
  /\ NewSettingsDesk \in [edited : SUBSET Forms, saved : BOOLEAN, timers : 0..Clicks]
  /\ NewSettingsDesk.timers = 0
<1>1. 0 \in 0..Clicks
  BY Bounds
<1>2. NoForm \in [of : Recordings \union {None}, rating : Scores \union Stars \union {0},
                  consent : BOOLEAN]
  BY DEF NoForm, Stars
<1>3. NewReportDesk.exports = <<>> /\ NewReportDesk.modal = FALSE /\ NewReportDesk.title = Blank
  BY DEF NewReportDesk
<1>4. <<>> \in Seq(Titles \union {Blank}) /\ DOMAIN <<>> = {}
  <2>1. <<>> \in Seq(Titles \union {Blank}) /\ Len(<<>>) = 0
    OBVIOUS
  <2>2. DOMAIN <<>> = 1..0
    BY <2>1
  <2>3. 1..0 = {}
    OBVIOUS
  <2>4. QED
    BY <2>1, <2>2, <2>3
<1>5. NewMonitor \in [queue : SUBSET Failed, search : BOOLEAN]
  BY DEF NewMonitor
<1>6. /\ NewAlertDesk.detail = NoDetail
      /\ NewAlertDesk \in
           [status : [Alerts -> Statuses],
            detail : [alert : Alerts \union {None}, status : Statuses \union {None}],
            severityFilter : Severities \union {"all"}, statusFilter : Statuses \union {"all"}]
  BY AlertSample DEF NewAlertDesk, NoDetail
<1>7. /\ NewRecordingDesk.form = NoForm /\ NewRecordingDesk.timers = 0
      /\ NewRecordingDesk.rows = FirstRows
      /\ NewRecordingDesk \in
           [part : {"recordings", "qa"}, search : BOOLEAN, rows : [Recordings -> Row],
            playing : Recordings \union {None}, on : BOOLEAN,
            transcript : Recordings \union {None},
            form : [of : Recordings \union {None}, rating : Scores \union Stars \union {0},
                    consent : BOOLEAN],
            copied : Recordings \union {None}, timers : 0..Clicks]
  BY <1>1, <1>2, RecordingSample DEF NewRecordingDesk
<1>8. /\ NewSettingsDesk \in [edited : SUBSET Forms, saved : BOOLEAN, timers : 0..Clicks]
      /\ NewSettingsDesk.timers = 0
  BY <1>1 DEF NewSettingsDesk
<1>9. QED
  BY <1>3, <1>4, <1>5, <1>6, <1>7, <1>8

\* Desks that begin anew satisfy their part of the invariant.
LEMMA SamplesOK ==
  ASSUME clicks \in 0..Clicks, monitor = NewMonitor, card = NewCard,
         alertDesk = NewAlertDesk, recordingDesk = NewRecordingDesk,
         reportDesk = NewReportDesk, settingsDesk = NewSettingsDesk
  PROVE  TransferInv /\ AlertInv /\ RecordingInv /\ ReportInv /\ SettingsInv
<1>1. TransferInv
  BY Samples DEF TransferInv, TransferTypes, NewCard
<1>2. AlertInv
  BY Samples DEF AlertInv, AlertTypes, DialogOpen, DetailIsCurrent
<1>3. RecordingInv
  BY Samples, RecordingSample, Bounds
  DEF RecordingInv, RecordingTypes, AuditsHaveScores, NoForm
<1>4. ReportInv
  BY Samples DEF ReportInv, ReportTypes
<1>5. SettingsInv
  BY Samples, Bounds DEF SettingsInv, SettingsTypes
<1>6. QED
  BY <1>1, <1>2, <1>3, <1>4, <1>5

LEMMA FreshKeeps ==
  ASSUME FreshDesks, clicks' \in 0..Clicks
  PROVE  TransferInv' /\ AlertInv' /\ RecordingInv' /\ ReportInv' /\ SettingsInv'
<1>1. TransferInv'
  BY Samples DEF FreshDesks, TransferInv, TransferTypes, NewCard
<1>2. AlertInv'
  BY Samples DEF FreshDesks, AlertInv, AlertTypes, DialogOpen, DetailIsCurrent
<1>3. RecordingInv'
  BY Samples, RecordingSample, Bounds
  DEF FreshDesks, RecordingInv, RecordingTypes, AuditsHaveScores, NoForm
<1>4. ReportInv'
  BY Samples DEF FreshDesks, ReportInv, ReportTypes
<1>5. SettingsInv'
  BY Samples, Bounds DEF FreshDesks, SettingsInv, SettingsTypes
<1>6. QED
  BY <1>1, <1>2, <1>3, <1>4, <1>5

\* Every way to another part or tab.
LEMMA GoKeeps ==
  ASSUME Inv, NEW newTab \in Tabs, NEW newRoute \in Routes(newTab), Go(newTab, newRoute)
  PROVE  Inv'
<1>1. clicks' \in 0..Clicks /\ clicks' \in 0..clicks
  BY ClickCounts, Bounds DEF Go, Inv
<1>2. ShellTypes'
  <2>1. role' \in Roles /\ tab' \in Tabs /\ route' \in Routes(tab') /\ IsTabAllowed(tab)'
    BY ShowKeeps DEF Go, Inv
  <2>2. CallsOK'
    BY LeaveKeeps DEF Go, Inv, CallsOK
  <2>3. QED
    BY <1>1, <2>1, <2>2 DEF ShellTypes, CallsOK, CallRows
<1>3. CallsOK'
  BY LeaveKeeps DEF Go, Inv, CallsOK
<1>4. TransferInv' /\ AlertInv' /\ RecordingInv' /\ ReportInv' /\ SettingsInv'
  <2>1. CASE UNCHANGED desks
    BY <1>1, <2>1, DesksStay
  <2>2. CASE FreshDesks
    BY <1>1, <2>2, FreshKeeps
  <2>3. QED
    BY <2>1, <2>2 DEF Go
<1>5. QED
  BY <1>2, <1>3, <1>4 DEF Go, Inv

-----------------------------------------------------------------------------
(* The steps of one desk. *)

\* The frame stays where it is.
LEMMA ShellStays ==
  ASSUME ShellTypes, UNCHANGED place, CallsOK', clicks' \in 0..Clicks
  PROVE  ShellTypes'
<1>1. role' = role /\ tab' = tab /\ route' = route
  BY DEF place
<1>2. QED
  BY <1>1 DEF ShellTypes, IsTabAllowed, CallsOK, CallRows

\* A click at one desk, or the end of one of its calls or timers.
DeskOK == CallsOK' /\ UNCHANGED place /\ clicks' \in 0..Clicks /\ clicks' \in 0..clicks

LEMMA ClickOnly ==
  ASSUME Inv, Click \/ clicks' = clicks, UNCHANGED place, CallsOK' \/ calls' = calls
  PROVE  DeskOK
<1>1. clicks' \in 0..Clicks /\ clicks' \in 0..clicks
  BY ClickCounts, Bounds DEF Inv, ShellTypes
<1>2. CallsOK'
  BY DEF Inv, CallsOK
<1>3. QED
  BY <1>1, <1>2 DEF DeskOK

LEMMA CardAfterOK ==
  ASSUME TransferInv, NEW what, card' = CardAfter(what), UNCHANGED monitor
  PROVE  TransferInv'
BY DEF TransferInv, TransferTypes, CardAfter

LEMMA TransferKeeps ==
  ASSUME Inv, TransferStep
  PROVE  TransferInv' /\ DeskOK
<1>1. CASE Search
  <2>1. TransferInv'
    BY <1>1 DEF Search, Inv, TransferInv, TransferTypes
  <2>2. QED
    BY <1>1, <2>1, ClickOnly DEF Search
<1>2. ASSUME NEW f \in Failed, NEW what \in {"retry", "resolve"}, Recover(f, what)
      PROVE  TransferInv' /\ DeskOK
  <2>1. CallsOK'
    BY <1>2, SendKeeps DEF Recover, Inv
  <2>2. TransferInv'
    BY <1>2, TransferStays DEF Recover, Inv
  <2>3. QED
    BY <1>2, <2>1, <2>2, ClickOnly DEF Recover
<1>3. CASE AcceptTransfer
  <2>1. CallsOK'
    BY <1>3, SendKeeps DEF AcceptTransfer, Inv
  <2>2. TransferInv'
    BY <1>3, TransferStays DEF AcceptTransfer, Inv
  <2>3. QED
    BY <1>3, <2>1, <2>2, ClickOnly DEF AcceptTransfer
<1>4. CASE CompleteVerification
  <2>1. card.chosen \in Outcomes
    BY <1>4 DEF CompleteVerification, SubmitOffered, Inv, TransferInv, TransferTypes
  <2>2. CallsOK'
    BY <1>4, <2>1, SendKeeps DEF CompleteVerification, Inv
  <2>3. TransferInv'
    BY <1>4, TransferStays DEF CompleteVerification, Inv
  <2>4. QED
    BY <1>4, <2>2, <2>3, ClickOnly DEF CompleteVerification
<1>5. CASE ResetCard
  <2>1. TransferInv'
    BY <1>5 DEF ResetCard, NewCard, Inv, TransferInv, TransferTypes
  <2>2. QED
    BY <1>5, <2>1, ClickOnly DEF ResetCard
<1>6. ASSUME NEW outcome \in Outcomes, Choose(outcome)
      PROVE  TransferInv' /\ DeskOK
  <2>1. TransferInv'
    BY <1>6 DEF Choose, Inv, TransferInv, TransferTypes
  <2>2. QED
    BY <1>6, <2>1, ClickOnly DEF Choose
<1>7. ASSUME NEW s \in Slots, Recovered(s)
      PROVE  TransferInv' /\ DeskOK
  <2>1. CallsOK'
    BY <1>7, SlotKeeps DEF Recovered, Inv
  <2>2. monitor' \in [queue : SUBSET Failed, search : BOOLEAN]
    <3>1. monitor \in [queue : SUBSET Failed, search : BOOLEAN]
      BY DEF Inv, TransferInv, TransferTypes
    <3>2. PICK q \in SUBSET Failed : q = QueueAfter(calls[s].about)
      BY <3>1 DEF QueueAfter
    <3>3. monitor' \in {monitor, [monitor EXCEPT !.queue = q]}
      BY <1>7, <3>2 DEF Recovered
    <3>4. QED
      BY <3>1, <3>3
  <2>3. TransferInv'
    BY <1>7, <2>2 DEF Recovered, Inv, TransferInv, TransferTypes
  <2>4. QED
    BY <1>7, <2>1, <2>3, ClickOnly DEF Recovered
<1>8. ASSUME NEW s \in Slots, Verified(s)
      PROVE  TransferInv' /\ DeskOK
  <2>1. CallsOK'
    BY <1>8, SlotKeeps DEF Verified, Inv
  <2>2. TransferInv'
    BY <1>8, CardAfterOK, TransferStays DEF Verified, Inv
  <2>3. QED
    BY <1>8, <2>1, <2>2, ClickOnly DEF Verified
<1>9. QED
  BY <1>1, <1>2, <1>3, <1>4, <1>5, <1>6, <1>7, <1>8
  DEF TransferStep, RetryTransfer, MarkResolved

\* The row of an alert is changed together with the copy in the dialog.
LEMMA WithStatusOK ==
  ASSUME AlertInv, NEW a \in Alerts, NEW status \in Statuses, alertDesk' = WithStatus(a, status)
  PROVE  AlertInv'
<1> DEFINE detail == alertDesk.detail
           copy == [detail EXCEPT !.status = IF detail.alert = a THEN status ELSE @]
<1>1. /\ alertDesk.status \in [Alerts -> Statuses]
      /\ detail \in [alert : Alerts \union {None}, status : Statuses \union {None}]
      /\ alertDesk.severityFilter \in Severities \union {"all"}
      /\ alertDesk.statusFilter \in Statuses \union {"all"}
  BY DEF AlertInv, AlertTypes
<1>2. /\ alertDesk'.status = [alertDesk.status EXCEPT ![a] = status]
      /\ alertDesk'.detail = copy
      /\ alertDesk'.severityFilter = alertDesk.severityFilter
      /\ alertDesk'.statusFilter = alertDesk.statusFilter
  BY DEF WithStatus, AlertInv, AlertTypes
<1>3. /\ copy.alert = detail.alert
      /\ copy.status = IF detail.alert = a THEN status ELSE detail.status
      /\ copy \in [alert : Alerts \union {None}, status : Statuses \union {None}]
  BY <1>1
<1>4. AlertTypes'
  BY ZenonT(60), <1>1, <1>2, <1>3 DEF WithStatus, AlertInv, AlertTypes
<1>5. alertDesk'.status[detail.alert] =
        IF detail.alert = a THEN status ELSE alertDesk.status[detail.alert]
  BY <1>1, <1>2
<1>6. DialogOpen' => alertDesk'.detail.alert \in Alerts /\ DetailIsCurrent'
  <2>1. CASE detail = NoDetail /\ detail.alert = a
    BY <1>2, <1>3, <1>5, <2>1 DEF DetailIsCurrent
  <2>2. CASE detail = NoDetail /\ detail.alert # a
    <3>1. copy = detail
      BY <1>1, <2>2
    <3>2. QED
      BY <1>2, <2>2, <3>1 DEF DialogOpen
  <2>3. CASE detail # NoDetail
    BY <1>2, <1>3, <1>5, <2>3 DEF AlertInv, DialogOpen, DetailIsCurrent
  <2>4. QED
    BY <2>1, <2>2, <2>3
<1>7. QED
  BY <1>4, <1>6 DEF AlertInv, DetailIsCurrent

LEMMA AlertKeeps ==
  ASSUME Inv, AlertStep
  PROVE  AlertInv' /\ DeskOK
<1>1. AlertInv /\ alertDesk.status \in [Alerts -> Statuses]
  BY DEF Inv, AlertInv, AlertTypes
<1>2. ASSUME NEW severity \in Severities \union {"all"}, NEW status \in Statuses \union {"all"},
             Filter(severity, status)
      PROVE  AlertInv' /\ DeskOK
  <2>1. AlertInv'
    BY <1>1, <1>2 DEF Filter, AlertInv, AlertTypes, DialogOpen, DetailIsCurrent
  <2>2. QED
    BY <1>2, <2>1, ClickOnly DEF Filter
<1>3. ASSUME NEW a \in Alerts, OpenDetails(a)
      PROVE  AlertInv' /\ DeskOK
  <2> DEFINE detail == [alert |-> a, status |-> alertDesk.status[a]]
  <2>1. alertDesk' = [alertDesk EXCEPT !.detail = detail]
    BY <1>3 DEF OpenDetails
  <2>2. detail \in [alert : Alerts \union {None}, status : Statuses \union {None}]
    BY <1>1
  <2>3. AlertInv'
    BY <1>1, <2>1, <2>2 DEF AlertInv, AlertTypes, DialogOpen, DetailIsCurrent
  <2>4. QED
    BY <1>3, <2>3, ClickOnly DEF OpenDetails
<1>4. CASE CloseDetails
  <2>1. NoDetail \in [alert : Alerts \union {None}, status : Statuses \union {None}]
    BY DEF NoDetail
  <2>2. alertDesk' = [alertDesk EXCEPT !.detail = NoDetail]
    BY <1>4 DEF CloseDetails
  <2>3. AlertInv'
    BY <1>1, <2>1, <2>2 DEF AlertInv, AlertTypes, DialogOpen, DetailIsCurrent
  <2>4. QED
    BY <1>4, <2>3, ClickOnly DEF CloseDetails
<1>5. ASSUME NEW a \in Alerts, AcknowledgeAlert(a) \/ ResolveAlert(a)
      PROVE  AlertInv' /\ DeskOK
  <2>1. AlertInv'
    BY <1>1, <1>5, WithStatusOK DEF AcknowledgeAlert, ResolveAlert, Statuses
  <2>2. QED
    BY <1>5, <2>1, ClickOnly DEF AcknowledgeAlert, ResolveAlert
<1>6. CASE RunDiagnostics
  BY <1>1, <1>6, AlertStays, ClickOnly DEF RunDiagnostics
<1>7. QED
  BY <1>2, <1>3, <1>4, <1>5, <1>6 DEF AlertStep

\* A click in the recordings tab is kept by what it leaves of the rows and forms.
LEMMA ChangeKeeps ==
  ASSUME Inv, NEW desk, Change(desk),
         desk.form # NoForm => desk.form.of \in Recordings,
         desk.form.rating # 0,
         \A r \in Recordings : desk.rows[r].audited <=> desk.rows[r].score # 0,
         desk.timers \in {recordingDesk.timers, recordingDesk.timers + 1},
         desk.timers \in 0..Clicks => RecordingTypes'
  PROVE  RecordingInv' /\ DeskOK
<1>1. clicks \in Nat /\ clicks' = clicks - 1 /\ clicks' \in 0..Clicks
  BY ClickCounts DEF Change, Inv
<1>2. recordingDesk.timers \in Nat /\ recordingDesk.timers + clicks <= Clicks
  BY Bounds DEF Inv, RecordingInv, RecordingTypes
<1>3. desk.timers \in 0..Clicks /\ desk.timers + clicks' <= Clicks
  BY <1>1, <1>2, Bounds
<1>4. recordingDesk' = desk
  BY DEF Change
<1>5. RecordingInv'
  BY <1>3, <1>4 DEF RecordingInv, AuditsHaveScores
<1>6. DeskOK
  BY ClickOnly DEF Change
<1>7. QED
  BY <1>5, <1>6

LEMMA RecordingKeeps ==
  ASSUME Inv, RecordingStep
  PROVE  RecordingInv' /\ DeskOK
<1> DEFINE FormRows == [of : Recordings \union {None}, rating : Scores \union Stars \union {0},
                        consent : BOOLEAN]
           form == recordingDesk.form
<1>1. /\ RecordingTypes /\ AuditsHaveScores
      /\ recordingDesk.form # NoForm => recordingDesk.form.of \in Recordings
      /\ recordingDesk.form.rating # 0
      /\ recordingDesk.form \in FormRows
      /\ recordingDesk.rows \in [Recordings -> Row]
  BY DEF Inv, RecordingInv, RecordingTypes
<1>2. NoForm \in FormRows /\ NoForm.rating # 0
  BY DEF NoForm, Stars
\* The clicks that touch neither form nor rows.
<1>3. ASSUME NEW part \in {"recordings", "qa"}, ShowPart(part)
      PROVE  RecordingInv' /\ DeskOK
  <2> DEFINE desk == [recordingDesk EXCEPT !.part = part]
  <2>1. Change(desk)
    BY <1>3 DEF ShowPart
  <2>2. /\ desk.form = form /\ desk.rows = recordingDesk.rows
        /\ desk.timers = recordingDesk.timers
    BY <1>1 DEF RecordingTypes
  <2>3. RecordingTypes'
    BY <1>1, <2>1 DEF Change, RecordingTypes
  <2>4. QED
    BY <1>1, <2>1, <2>2, <2>3, ChangeKeeps DEF AuditsHaveScores
<1>4. CASE SearchRecordings
  <2> DEFINE desk == [recordingDesk EXCEPT !.search = ~@]
  <2>1. Change(desk)
    BY <1>4 DEF SearchRecordings
  <2>2. /\ desk.form = form /\ desk.rows = recordingDesk.rows
        /\ desk.timers = recordingDesk.timers
    BY <1>1 DEF RecordingTypes
  <2>3. RecordingTypes'
    BY <1>1, <2>1 DEF Change, RecordingTypes
  <2>4. QED
    BY <1>1, <2>1, <2>2, <2>3, ChangeKeeps DEF AuditsHaveScores
<1>5. ASSUME NEW r \in Recordings, TogglePlay(r)
      PROVE  RecordingInv' /\ DeskOK
  <2>1. PICK on \in BOOLEAN :
          on = (IF recordingDesk.playing = r THEN ~recordingDesk.on ELSE TRUE)
    OBVIOUS
  <2> DEFINE desk == [recordingDesk EXCEPT !.playing = r, !.on = on]
  <2>2. Change(desk)
    BY <1>1, <1>5, <2>1 DEF TogglePlay
  <2>3. /\ desk.form = form /\ desk.rows = recordingDesk.rows
        /\ desk.timers = recordingDesk.timers
    BY <1>1 DEF RecordingTypes
  <2>4. RecordingTypes'
    BY <1>1, <2>2 DEF Change, RecordingTypes
  <2>5. QED
    BY <1>1, <2>2, <2>3, <2>4, ChangeKeeps DEF AuditsHaveScores
<1>6. ASSUME NEW shown \in Recordings \union {None},
             Change([recordingDesk EXCEPT !.transcript = shown])
      PROVE  RecordingInv' /\ DeskOK
  <2> DEFINE desk == [recordingDesk EXCEPT !.transcript = shown]
  <2>1. /\ desk.form = form /\ desk.rows = recordingDesk.rows
        /\ desk.timers = recordingDesk.timers
    BY <1>1 DEF RecordingTypes
  <2>2. RecordingTypes'
    BY <1>1, <1>6 DEF Change, RecordingTypes
  <2>3. QED
    BY <1>1, <1>6, <2>1, <2>2, ChangeKeeps DEF AuditsHaveScores
\* The form of an audit.
<1>7. ASSUME NEW new \in FormRows, Change([recordingDesk EXCEPT !.form = new]),
             new # NoForm => new.of \in Recordings, new.rating # 0
      PROVE  RecordingInv' /\ DeskOK
  <2> DEFINE desk == [recordingDesk EXCEPT !.form = new]
  <2>1. /\ desk.form = new /\ desk.rows = recordingDesk.rows
        /\ desk.timers = recordingDesk.timers
    BY <1>1 DEF RecordingTypes
  <2>2. RecordingTypes'
    BY <1>1, <1>7 DEF Change, RecordingTypes
  <2>3. QED
    BY <1>1, <1>7, <2>1, <2>2, ChangeKeeps DEF AuditsHaveScores
<1>8. ASSUME NEW r \in Recordings, OpenQaAudit(r)
      PROVE  RecordingInv' /\ DeskOK
  <2>1. recordingDesk.rows[r] \in Row
    BY <1>1
  <2>2. FirstRating(r) \in Scores \union Stars \union {0} /\ FirstRating(r) # 0
        /\ recordingDesk.rows[r].consent \in BOOLEAN
    BY <2>1 DEF FirstRating, Row, Stars
  <2>3. PICK rating \in Scores \union Stars \union {0}, consent \in BOOLEAN :
          rating = FirstRating(r) /\ consent = recordingDesk.rows[r].consent
    BY <2>2
  <2>4. [of |-> r, rating |-> rating, consent |-> consent] \in FormRows
    OBVIOUS
  <2>5. QED
    BY <1>7, <1>8, <2>2, <2>3, <2>4 DEF OpenQaAudit
<1>9. ASSUME NEW star \in Stars, Rate(star)
      PROVE  RecordingInv' /\ DeskOK
  <2> DEFINE new == [form EXCEPT !.rating = star]
  <2>1. new \in FormRows /\ new.of = form.of /\ new.rating # 0
    BY <1>1 DEF Stars
  <2>2. Change([recordingDesk EXCEPT !.form = new])
    BY <1>1, <1>9 DEF Rate, RecordingTypes
  <2>3. QED
    BY <1>1, <1>7, <1>9, <2>1, <2>2 DEF Rate, InForm
<1>10. CASE CheckConsent
  <2> DEFINE new == [form EXCEPT !.consent = ~@]
  <2>1. new \in FormRows /\ new.of = form.of /\ new.rating # 0
    BY <1>1
  <2>2. Change([recordingDesk EXCEPT !.form = new])
    BY <1>1, <1>10 DEF CheckConsent, RecordingTypes
  <2>3. QED
    BY <1>1, <1>7, <1>10, <2>1, <2>2 DEF CheckConsent, InForm
<1>11. CASE CancelQaAudit
  BY <1>2, <1>7, <1>11 DEF CancelQaAudit
<1>12. CASE SaveQaAudit
  <2> DEFINE row == [score |-> form.rating, audited |-> TRUE, consent |-> form.consent]
             rows0 == [recordingDesk.rows EXCEPT ![form.of] = row]
             desk == [recordingDesk EXCEPT !.rows = rows0, !.form = NoForm]
  <2>1. form.of \in Recordings /\ row \in Row
    BY <1>1, <1>12 DEF SaveQaAudit, InForm, Row
  <2>2. rows0 \in [Recordings -> Row]
        /\ \A r \in Recordings : rows0[r] = IF r = form.of THEN row ELSE recordingDesk.rows[r]
    BY <1>1, <2>1
  <2>3. Change(desk)
    BY <1>1, <1>12 DEF SaveQaAudit, RecordingTypes
  <2>4. /\ desk.form = NoForm /\ desk.rows = rows0 /\ desk.timers = recordingDesk.timers
    BY <1>1 DEF RecordingTypes
  <2>5. recordingDesk' = desk
    BY <2>3 DEF Change
  <2>6. \A r \in Recordings : rows0[r].audited <=> rows0[r].score # 0
    BY <1>1, <2>2 DEF AuditsHaveScores
  <2> HIDE DEF rows0
  <2>7. RecordingTypes'
    BY <1>1, <1>2, <2>2, <2>5 DEF RecordingTypes
  <2>8. QED
    BY <1>2, <2>3, <2>4, <2>6, <2>7, ChangeKeeps
\* Copies and their timers.
<1>13. ASSUME NEW r \in Recordings, CopyId(r)
       PROVE  RecordingInv' /\ DeskOK
  <2> DEFINE desk == [recordingDesk EXCEPT !.copied = r, !.timers = @ + 1]
  <2>1. Change(desk)
    BY <1>13 DEF CopyId
  <2>2. /\ desk.form = form /\ desk.rows = recordingDesk.rows
        /\ desk.timers = recordingDesk.timers + 1
    BY <1>1 DEF RecordingTypes
  <2>3. desk.timers \in 0..Clicks => RecordingTypes'
    BY <1>1, <2>1, <2>2 DEF Change, RecordingTypes
  <2>4. QED
    BY <1>1, <2>1, <2>2, <2>3, ChangeKeeps DEF AuditsHaveScores
<1>14. CASE CopyTimer
  <2> DEFINE desk == [recordingDesk EXCEPT !.copied = None, !.timers = @ - 1]
  <2>1. recordingDesk' = desk /\ recordingDesk.timers > 0 /\ clicks' = clicks
    BY <1>14 DEF CopyTimer
  <2>2. /\ desk.form = form /\ desk.rows = recordingDesk.rows
        /\ desk.timers = recordingDesk.timers - 1
    BY <1>1 DEF RecordingTypes
  <2>3. /\ recordingDesk.timers \in Nat /\ clicks \in Nat
        /\ recordingDesk.timers + clicks <= Clicks
    BY Bounds DEF Inv, RecordingInv, RecordingTypes, ShellTypes
  <2>4. desk.timers \in 0..Clicks /\ desk.timers + clicks <= Clicks
    BY <2>1, <2>2, <2>3, Bounds
  <2>5. RecordingTypes'
    BY <1>1, <2>1, <2>2, <2>4 DEF RecordingTypes
  <2>6. RecordingInv'
    BY <1>1, <2>1, <2>2, <2>4, <2>5 DEF RecordingInv, AuditsHaveScores
  <2>7. QED
    BY <1>14, <2>6, ClickOnly DEF CopyTimer
<1>15. ASSUME NEW r \in Recordings, OpenTranscript(r)
       PROVE  RecordingInv' /\ DeskOK
  BY <1>6, <1>15 DEF OpenTranscript
<1>16. CASE CloseTranscript
  BY <1>6, <1>16 DEF CloseTranscript
<1>17. QED
  BY <1>3, <1>4, <1>5, <1>8, <1>9, <1>10, <1>11, <1>12, <1>13, <1>14, <1>15, <1>16
  DEF RecordingStep

LEMMA ReportKeeps ==
  ASSUME Inv, ReportStep
  PROVE  ReportInv' /\ DeskOK
<1>1. ReportInv
  BY DEF Inv
<1>2. CASE OpenExportDialog \/ CancelExport
  <2>1. PICK open \in BOOLEAN : reportDesk' = [reportDesk EXCEPT !.modal = open]
    BY <1>2 DEF OpenExportDialog, CancelExport
  <2>2. ReportInv'
    <3>1. /\ reportDesk'.exports = reportDesk.exports
          /\ reportDesk'.title = reportDesk.title
      BY <2>1
    <3>2. reportDesk'.modal \in BOOLEAN
      BY <1>2, <2>1 DEF OpenExportDialog, CancelExport, ReportInv, ReportTypes
    <3>3. QED
      BY <1>1, <3>1, <3>2 DEF ReportInv, ReportTypes
  <2>3. QED
    BY <1>2, <2>2, ClickOnly DEF OpenExportDialog, CancelExport
<1>3. ASSUME NEW title \in Titles \union {Blank}, TypeTitle(title)
      PROVE  ReportInv' /\ DeskOK
  <2>1. ReportInv'
    BY <1>1, <1>3 DEF TypeTitle, ReportInv, ReportTypes
  <2>2. QED
    BY <1>3, <2>1, ClickOnly DEF TypeTitle
<1>4. CASE CreateExport
  <2>1. reportDesk.title \in Titles \ {Blank}
    BY <1>1, <1>4 DEF CreateExport, ReportInv, ReportTypes
  <2>2. CallsOK'
    BY <1>4, <2>1, SendKeeps DEF CreateExport, Inv
  <2>3. ReportInv'
    BY <1>1, <1>4, ReportStays DEF CreateExport
  <2>4. QED
    BY <1>4, <2>2, <2>3, ClickOnly DEF CreateExport
<1>5. ASSUME NEW s \in Slots, ExportEnded(s)
      PROVE  ReportInv' /\ DeskOK
  <2>1. CallsOK'
    BY <1>5, SlotKeeps DEF ExportEnded, Inv
  <2>2. calls[s].about \in Titles \ {Blank}
    BY <1>5 DEF ExportEnded, Inv, CallsOK
  <2>3. PICK listed \in Seq(Titles \union {Blank}) :
          /\ listed = ListedAfter(s)
          /\ \A i \in DOMAIN listed : listed[i] # Blank
    <3>1. PICK title \in Titles \ {Blank} : title = calls[s].about
      BY <2>2
    <3>2. PICK before \in Seq(Titles \union {Blank}) :
            /\ before = reportDesk.exports
            /\ \A i \in DOMAIN before : before[i] # Blank
      BY <1>1 DEF ReportInv, ReportTypes
    <3>3. /\ <<title>> \o before \in Seq(Titles \union {Blank})
          /\ \A i \in DOMAIN (<<title>> \o before) : (<<title>> \o before)[i] # Blank
      <4>1. <<title>> \o before \in Seq(Titles \union {Blank})
            /\ Len(<<title>> \o before) = 1 + Len(before)
        OBVIOUS
      <4>2. ASSUME NEW i \in 1..(1 + Len(before))
            PROVE  (<<title>> \o before)[i] # Blank
        <5>1. CASE i = 1
          BY <5>1
        <5>2. CASE i > 1
          <6>1. i - 1 \in 1..Len(before) /\ (<<title>> \o before)[i] = before[i - 1]
            BY <5>2
          <6>2. QED
            BY <3>2, <6>1
        <5>3. QED
          BY <5>1, <5>2
      <4>3. QED
        BY <4>1, <4>2
    <3>4. QED
      BY <3>1, <3>2, <3>3 DEF ListedAfter
  <2>4. ReportInv'
    <3>1. CASE calls[s].mounted
      <4>1. /\ reportDesk'.exports = listed /\ reportDesk'.modal = FALSE
            /\ reportDesk'.title = Blank
        BY <1>5, <2>3, <3>1 DEF ExportEnded, NewReportDesk
      <4>2. QED
        BY <2>3, <4>1 DEF ReportInv, ReportTypes
    <3>2. CASE ~calls[s].mounted
      BY <1>1, <1>5, <3>2, ReportStays DEF ExportEnded
    <3>3. QED
      BY <3>1, <3>2
  <2>5. QED
    BY <1>5, <2>1, <2>4, ClickOnly DEF ExportEnded
<1>6. QED
  BY <1>2, <1>3, <1>4, <1>5 DEF ReportStep

LEMMA SettingsKeeps ==
  ASSUME Inv, SettingsStep
  PROVE  SettingsInv' /\ DeskOK
<1>1. /\ settingsDesk \in [edited : SUBSET Forms, saved : BOOLEAN, timers : 0..Clicks]
      /\ settingsDesk.timers \in Nat /\ clicks \in Nat
      /\ settingsDesk.timers + clicks <= Clicks
  BY Bounds DEF Inv, SettingsInv, SettingsTypes, ShellTypes
<1>2. CASE EditForm
  <2>1. clicks' = clicks - 1
    BY <1>2, ClickCounts DEF EditForm, Inv
  <2>2. SettingsInv'
    BY <1>1, <1>2, <2>1, Bounds DEF EditForm, SettingsInv, SettingsTypes
  <2>3. QED
    BY <1>2, <2>2, ClickOnly DEF EditForm
<1>3. CASE SaveSettings
  <2>1. clicks' = clicks - 1 /\ clicks' \in 0..Clicks
    BY <1>3, ClickCounts DEF SaveSettings, Inv
  <2>2. settingsDesk.timers + 1 \in 0..Clicks /\ settingsDesk.timers + 1 + clicks' <= Clicks
    BY <1>1, <2>1, Bounds
  <2> DEFINE timers == settingsDesk.timers + 1
  <2>3. SettingsInv'
    <3>1. settingsDesk' = [settingsDesk EXCEPT !.saved = TRUE, !.timers = timers]
      BY <1>3 DEF SaveSettings
    <3>2. timers \in 0..Clicks /\ timers + clicks' <= Clicks
      BY <2>2
    <3> HIDE DEF timers
    <3>3. settingsDesk' \in [edited : SUBSET Forms, saved : BOOLEAN, timers : 0..Clicks]
          /\ settingsDesk'.timers = timers
      BY <1>1, <3>1, <3>2
    <3>4. QED
      BY <3>2, <3>3 DEF SettingsInv, SettingsTypes
  <2>4. QED
    BY <1>3, <2>3, ClickOnly DEF SaveSettings
<1>4. CASE SavedTimer
  <2> DEFINE timers == settingsDesk.timers - 1
  <2>1. SettingsInv'
    <3>1. settingsDesk' = [settingsDesk EXCEPT !.saved = FALSE, !.timers = timers]
          /\ settingsDesk.timers > 0 /\ clicks' = clicks
      BY <1>4 DEF SavedTimer
    <3>2. timers \in 0..Clicks /\ timers + clicks' <= Clicks
      BY <1>1, <3>1, Bounds
    <3> HIDE DEF timers
    <3>3. settingsDesk' \in [edited : SUBSET Forms, saved : BOOLEAN, timers : 0..Clicks]
          /\ settingsDesk'.timers = timers
      BY <1>1, <3>1, <3>2
    <3>4. QED
      BY <3>2, <3>3 DEF SettingsInv, SettingsTypes
  <2>2. QED
    BY <1>4, <2>1, ClickOnly DEF SavedTimer
<1>5. QED
  BY <1>2, <1>3, <1>4 DEF SettingsStep

-----------------------------------------------------------------------------
(* The frame and the desks together. *)

\* What is done at a desk keeps the frame, and nothing else of the page moves.
LEMMA DeskStepKeeps ==
  ASSUME Inv, DeskStep
  PROVE  Inv'
<1>1. /\ AlertInv /\ RecordingInv /\ ReportInv /\ SettingsInv /\ TransferInv
      /\ ShellTypes /\ dismissed' = dismissed /\ dismissed \in BOOLEAN
  BY DEF Inv, DeskStep
<1>2. ASSUME DeskOK
      PROVE  ShellTypes' /\ CallsOK' /\ dismissed' \in BOOLEAN
  BY <1>1, <1>2, ShellStays DEF DeskOK
<1>3. CASE TransferStep /\ UNCHANGED <<alertDesk, recordingDesk, reportDesk, settingsDesk>>
  BY <1>1, <1>2, <1>3, TransferKeeps, AlertStays, RecordingStays, ReportStays, SettingsStays
  DEF Inv, DeskOK
<1>4. CASE AlertStep /\ UNCHANGED <<monitor, card, recordingDesk, reportDesk, settingsDesk>>
  BY <1>1, <1>2, <1>4, AlertKeeps, TransferStays, RecordingStays, ReportStays, SettingsStays
  DEF Inv, DeskOK
<1>5. CASE RecordingStep /\ UNCHANGED <<monitor, card, alertDesk, reportDesk, settingsDesk>>
  BY <1>1, <1>2, <1>5, RecordingKeeps, TransferStays, AlertStays, ReportStays, SettingsStays
  DEF Inv, DeskOK
<1>6. CASE ReportStep /\ UNCHANGED <<monitor, card, alertDesk, recordingDesk, settingsDesk>>
  BY <1>1, <1>2, <1>6, ReportKeeps, TransferStays, AlertStays, RecordingStays, SettingsStays
  DEF Inv, DeskOK
<1>7. CASE SettingsStep /\ UNCHANGED <<monitor, card, alertDesk, recordingDesk, reportDesk>>
  BY <1>1, <1>2, <1>7, SettingsKeeps, TransferStays, AlertStays, RecordingStays, ReportStays
  DEF Inv, DeskOK
<1>8. QED
  BY <1>3, <1>4, <1>5, <1>6, <1>7 DEF DeskStep

LEMMA InitOK == Init => Inv
<1> SUFFICES ASSUME Init PROVE Inv
  OBVIOUS
<1>1. clicks \in 0..Clicks
  BY Bounds DEF Init, ShellInit
<1>2. CallsOK
  BY DEF Init, ShellInit, CallsOK, CallRows, Idle, None
<1>3. ShellTypes
  BY <1>1 DEF Init, ShellInit, ShellTypes, Idle
<1>4. QED
  BY <1>1, <1>2, <1>3, SamplesOK DEF Init, Inv

LEMMA NextKeeps == Inv /\ [Next]_vars => Inv'
<1> SUFFICES ASSUME Inv, [Next]_vars PROVE Inv'
  OBVIOUS
<1>1. tab \in Tabs /\ ShellTypes /\ clicks \in Nat /\ clicks <= Clicks
  BY Bounds DEF Inv, ShellTypes
<1>2. ASSUME NEW newTab \in Tabs, NEW newRoute \in AllRoutes, OpenTab(newTab, newRoute)
      PROVE  Inv'
  BY <1>2, BareIn, GoKeeps DEF OpenTab
<1>3. ASSUME NEW newRoute \in AllRoutes, Navigate(newRoute)
      PROVE  Inv'
  <2>1. PICK here \in Tabs : here = tab
    BY <1>1
  <2>2. newRoute \in Routes(here) /\ Go(here, newRoute)
    BY <1>1, <1>3, <2>1, LinksLead DEF Navigate
  <2>3. QED
    BY <2>2, GoKeeps
<1>4. CASE OpenAlerts
  <2>1. "system" \in Tabs /\ "alerts" \in Routes("system")
    BY DEF Tabs, Routes, Subtabs, Bare
  <2>2. QED
    BY <1>4, <2>1, GoKeeps DEF OpenAlerts
<1>5. CASE OpenWorkspace
  <2>1. "verifier" \in Tabs /\ "workspace" \in Routes("verifier")
    BY DEF Tabs, Routes, Subtabs, Bare
  <2>2. QED
    BY <1>5, <2>1, GoKeeps DEF OpenWorkspace
<1>6. CASE Dismiss
  <2>1. clicks' \in 0..clicks /\ clicks' \in 0..Clicks
    BY <1>6, ClickCounts, Bounds DEF Dismiss, Inv
  <2>2. CallsOK'
    BY <1>6 DEF Dismiss, Inv, CallsOK
  <2>3. QED
    BY <1>6, <2>1, <2>2, ShellStays, DesksStay DEF Dismiss, Inv
<1>7. CASE Reload
  <2>1. clicks' \in 0..Clicks
    BY <1>1, <1>7, Bounds DEF Reload
  <2>2. CallsOK'
    BY <1>7, LeaveKeeps DEF Reload, Inv
  <2>3. QED
    BY <1>7, <2>1, <2>2, ShellStays, FreshKeeps DEF Reload, Inv
<1>8. ASSUME NEW s \in Slots, NEW how \in {"answered", "lost"}, End(s, how),
             UNCHANGED <<desks, dismissed>>
      PROVE  Inv'
  <2>1. CallsOK'
    BY <1>8, SlotKeeps DEF End, Inv
  <2>2. clicks' \in 0..Clicks /\ clicks' \in 0..clicks
    BY <1>1, <1>8, Bounds DEF End
  <2>3. UNCHANGED place
    BY <1>8 DEF End
  <2>4. QED
    BY <1>8, <2>1, <2>2, <2>3, ShellStays, DesksStay DEF Inv
<1>9. CASE DeskStep
  BY <1>9, DeskStepKeeps
<1>10. CASE UNCHANGED vars
  <2>1. calls' = calls /\ clicks' = clicks /\ dismissed' = dismissed
        /\ UNCHANGED place /\ UNCHANGED desks
    BY <1>10 DEF vars
  <2>2. clicks' \in 0..clicks /\ clicks' \in 0..Clicks
    BY <1>1, <2>1, Bounds
  <2>3. CallsOK'
    BY <2>1 DEF Inv, CallsOK
  <2>4. QED
    BY <2>1, <2>2, <2>3, ShellStays, DesksStay DEF Inv
<1>11. QED
  BY <1>2, <1>3, <1>4, <1>5, <1>6, <1>7, <1>8, <1>9, <1>10 DEF Next

LEMMA Inductive == Spec => []Inv
BY InitOK, NextKeeps, PTL DEF Spec

\* Whatever is pressed again before an answer and in whatever order calls and
\* timers end: outcomes are stated before they are sent, the dialog of an alert
\* shows its row, audits have scores and listed exports have titles (the handlers
\* of VerifierView, useSystemState, RecordingView and AnalyticsView).
THEOREM ConsistentTheorem == Spec => []Consistent
BY InvConsistent, Inductive, PTL

-----------------------------------------------------------------------------
(* What was done in a tab. *)

Kept == monitor'.queue \subseteq monitor.queue /\ AlertsProgress /\ AuditsByForm

\* Desks that nothing is done at keep what was done there.
LEMMA AlertsRest ==
  ASSUME AlertInv, UNCHANGED alertDesk
  PROVE  AlertsProgress
BY DEF AlertInv, AlertTypes, AlertsProgress, Rank, Statuses

\* The buttons of an alert are offered by the status it has.
LEMMA AlertsMoveOn ==
  ASSUME AlertInv, AlertStep
  PROVE  AlertsProgress
<1>1. alertDesk.status \in [Alerts -> Statuses]
  BY DEF AlertInv, AlertTypes
<1>2. ASSUME NEW a \in Alerts, ButtonsOf(a)
      PROVE  ShownStatus(a) = alertDesk.status[a]
  BY <1>2 DEF AlertInv, DetailIsCurrent, ButtonsOf, ShownStatus
<1>3. ASSUME alertDesk'.status = alertDesk.status
      PROVE  AlertsProgress
  BY <1>1, <1>3 DEF AlertsProgress, Rank, Statuses
<1>4. ASSUME NEW a \in Alerts, NEW status \in Statuses, alertDesk' = WithStatus(a, status),
             Rank[alertDesk.status[a]] <= Rank[status]
      PROVE  AlertsProgress
  <2>1. alertDesk'.status = [alertDesk.status EXCEPT ![a] = status]
    BY <1>4 DEF WithStatus, AlertInv, AlertTypes
  <2>2. ASSUME NEW b \in Alerts
        PROVE  Rank[alertDesk.status[b]] <= Rank[alertDesk'.status[b]]
    <3>1. CASE b = a
      BY <1>1, <1>4, <2>1, <3>1
    <3>2. CASE b # a
      BY <1>1, <2>1, <3>2 DEF Rank, Statuses
    <3>3. QED
      BY <3>1, <3>2
  <2>3. QED
    BY <2>2 DEF AlertsProgress
<1>5. ASSUME NEW a \in Alerts, AcknowledgeAlert(a)
      PROVE  AlertsProgress
  <2>1. alertDesk.status[a] = "ACTIVE"
    BY <1>2, <1>5 DEF AcknowledgeAlert
  <2>2. QED
    BY <1>4, <1>5, <2>1 DEF AcknowledgeAlert, Rank, Statuses
<1>6. ASSUME NEW a \in Alerts, ResolveAlert(a)
      PROVE  AlertsProgress
  BY <1>1, <1>4, <1>6 DEF ResolveAlert, Rank, Statuses
<1>7. CASE \/ \E severity \in Severities \union {"all"}, status \in Statuses \union {"all"} :
                Filter(severity, status)
           \/ \E a \in Alerts : OpenDetails(a)
           \/ CloseDetails \/ RunDiagnostics
  BY <1>3, <1>7 DEF Filter, OpenDetails, CloseDetails, RunDiagnostics, AlertInv, AlertTypes
<1>8. QED
  BY <1>5, <1>6, <1>7 DEF AlertStep

\* Only the form writes a row, and closes.
LEMMA AuditsOnlyByForm ==
  ASSUME RecordingInv, RecordingStep
  PROVE  AuditsByForm
<1>1. RecordingTypes /\ recordingDesk.rows \in [Recordings -> Row]
  BY DEF RecordingInv, RecordingTypes
<1>2. ASSUME recordingDesk'.rows = recordingDesk.rows
      PROVE  AuditsByForm
  BY <1>2 DEF AuditsByForm
<1>3. CASE SaveQaAudit
  <2> DEFINE form == recordingDesk.form
             row == [score |-> form.rating, audited |-> TRUE, consent |-> form.consent]
  <2>1. /\ recordingDesk'.rows = [recordingDesk.rows EXCEPT ![form.of] = row]
        /\ recordingDesk'.form = NoForm
    BY <1>1, <1>3 DEF SaveQaAudit, Change, RecordingTypes
  <2>2. \A r \in Recordings :
          recordingDesk'.rows[r] = IF r = form.of THEN row ELSE recordingDesk.rows[r]
    BY <1>1, <2>1
  <2>3. row.score = form.rating
    OBVIOUS
  <2> HIDE DEF row
  <2>4. QED
    BY <2>1, <2>2, <2>3 DEF AuditsByForm
<1>4. CASE ~SaveQaAudit
  <2>1. recordingDesk'.rows = recordingDesk.rows
    BY <1>1, <1>4
    DEF RecordingStep, ShowPart, SearchRecordings, CloseTranscript, TogglePlay, OpenTranscript,
        OpenQaAudit, CopyId, Rate, CheckConsent, CancelQaAudit, CopyTimer, Change, RecordingTypes
  <2>2. QED
    BY <1>2, <2>1
<1>5. QED
  BY <1>3, <1>4

\* No step of the transfer desk puts a row back into the queue.
LEMMA QueueShrinks ==
  ASSUME TransferInv, TransferStep
  PROVE  monitor'.queue \subseteq monitor.queue
<1>1. monitor \in [queue : SUBSET Failed, search : BOOLEAN]
  BY DEF TransferInv, TransferTypes
<1>2. CASE Search
  BY <1>1, <1>2 DEF Search
<1>3. ASSUME NEW s \in Slots, Recovered(s)
      PROVE  monitor'.queue \subseteq monitor.queue
  BY <1>1, <1>3 DEF Recovered, QueueAfter
<1>4. CASE UNCHANGED monitor
  BY <1>4
<1>5. QED
  BY <1>2, <1>3, <1>4
  DEF TransferStep, RetryTransfer, MarkResolved, Recover, AcceptTransfer, CompleteVerification,
      ResetCard, Choose, Verified

LEMMA DesksKept ==
  ASSUME Inv, UNCHANGED desks
  PROVE  Kept
BY AlertsRest DEF Inv, desks, Kept, AuditsByForm

\* While a tab stays on screen, whatever ends late: a row that left the queue stays
\* out of it, an alert is not opened again and an audit is changed by its own form
\* only (TransfersView.jsx:47-66, useSystemState.js:67-88, RecordingView.jsx:85-102).
THEOREM NothingComesBackTheorem == Spec => NothingComesBack
<1> DEFINE Stays == tab' = tab /\ ~Crashed' /\ ~Reload => Kept
<1>1. Inv /\ [Next]_vars => [Stays]_vars
  <2> SUFFICES ASSUME Inv, Next, tab' = tab, ~Crashed', ~Reload PROVE Kept
    OBVIOUS
  <2>1. ASSUME NEW newTab, NEW newRoute, Go(newTab, newRoute)
        PROVE  Kept
    BY <2>1, DesksKept DEF Go
  <2>2. CASE Dismiss
    BY <2>2, DesksKept DEF Dismiss
  <2>3. CASE UNCHANGED desks
    BY <2>3, DesksKept
  <2>4. CASE DeskStep
    <3>1. ASSUME UNCHANGED monitor
          PROVE  monitor'.queue \subseteq monitor.queue
      BY <3>1
    <3>2. ASSUME UNCHANGED recordingDesk
          PROVE  AuditsByForm
      BY <3>2 DEF AuditsByForm
    <3>3. ASSUME UNCHANGED alertDesk
          PROVE  AlertsProgress
      BY <3>3, AlertsRest DEF Inv
    <3>4. TransferStep \/ UNCHANGED monitor
      BY <2>4 DEF DeskStep
    <3>5. AlertStep \/ UNCHANGED alertDesk
      BY <2>4 DEF DeskStep
    <3>6. RecordingStep \/ UNCHANGED recordingDesk
      BY <2>4 DEF DeskStep
    <3>7. QED
      BY <3>1, <3>2, <3>3, <3>4, <3>5, <3>6, QueueShrinks, AlertsMoveOn, AuditsOnlyByForm
      DEF Inv, Kept
  <2>5. QED
    BY <2>1, <2>2, <2>3, <2>4 DEF Next, OpenTab, Navigate, OpenAlerts, OpenWorkspace
<1>2. QED
  BY <1>1, Inductive, PTL DEF Spec, NothingComesBack, Kept
=============================================================================
