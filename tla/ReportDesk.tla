----------------------------- MODULE ReportDesk -----------------------------
(***************************************************************************)
(* The analytics tab (components/analytics/AnalyticsView.jsx): an overview *)
(* that leads to six reports over sample data and to the exports, where a  *)
(* new export can be asked for.                                            *)
(*                                                                         *)
(* The handler looks for `data` on the response, which has none until its  *)
(* body is read: an export the server did create, or refused, is not       *)
(* listed, and one whose call was cut off is listed as ready.  Either end  *)
(* closes the dialog and clears the title, those of a later export, too.   *)
(* The fetch at the mount looks for `data` alike and changes nothing.      *)
(*                                                                         *)
(* Abstracted: the sample rows; what an export is about but its title.     *)
(***************************************************************************)
EXTENDS Shell, Sequences

CONSTANTS Titles  \* what can be typed as a title

VARIABLE reportDesk \* the exports listed after the sample, the dialog

Blank == "blank"
NewReportDesk == [exports |-> <<>>, modal |-> FALSE, title |-> Blank]

OnExports == tab = "analytics" /\ route = "exports"
InExportDialog == OnExports /\ reportDesk.modal

\* The overview leads to every part, the arrow of a part back.
OverviewLinks == IF tab = "analytics" /\ route = "overview" THEN Subtabs["analytics"] ELSE {}
ReportLinks == IF tab = "analytics" /\ route # "overview" THEN {"overview"} ELSE {}

OpenExportDialog ==
  /\ OnExports /\ ~reportDesk.modal
  /\ Click
  /\ reportDesk' = [reportDesk EXCEPT !.modal = TRUE]
  /\ UNCHANGED <<place, calls>>

\* The title that was typed is kept for the next time.
CancelExport ==
  /\ InExportDialog
  /\ Click
  /\ reportDesk' = [reportDesk EXCEPT !.modal = FALSE]
  /\ UNCHANGED <<place, calls>>

TypeTitle(title) ==
  /\ InExportDialog /\ reportDesk.title # title
  /\ Click
  /\ reportDesk' = [reportDesk EXCEPT !.title = title]
  /\ UNCHANGED <<place, calls>>

\* A title is required; the button is there until the answer.
CreateExport ==
  /\ InExportDialog /\ reportDesk.title # Blank
  /\ Click
  /\ Send("export", reportDesk.title)
  /\ UNCHANGED <<place, reportDesk>>

\* The row has the title the form was sent with.
ListedAsTyped(s) == IF calls[s].end = "lost" THEN <<reportDesk.title>> \o reportDesk.exports
                    ELSE reportDesk.exports
ListedAfter(s) == IF calls[s].end = "lost" THEN <<calls[s].about>> \o reportDesk.exports
                  ELSE reportDesk.exports
ExportEnded(s) ==
  /\ calls[s].end # "open" /\ calls[s].what = "export"
  /\ calls' = [calls EXCEPT ![s] = Idle]
  /\ reportDesk' = IF calls[s].mounted
                   THEN [NewReportDesk EXCEPT !.exports = ListedAfter(s)]
                   ELSE reportDesk
  /\ UNCHANGED <<place, clicks>>

-----------------------------------------------------------------------------
ReportStep ==
  \/ OpenExportDialog \/ CancelExport \/ CreateExport
  \/ \E title \in Titles \union {Blank} : TypeTitle(title)
  \/ \E s \in Slots : ExportEnded(s)

ReportTypes ==
  /\ reportDesk.exports \in Seq(Titles \union {Blank})
  /\ reportDesk.modal \in BOOLEAN /\ reportDesk.title \in Titles \union {Blank}

\* An export is listed with a title, whatever the dialog is used for before its
\* call ends (AnalyticsView.jsx:137-178).
ExportsTitled ==
  /\ \A i \in DOMAIN reportDesk.exports : reportDesk.exports[i] # Blank
  /\ \A s \in Slots : calls[s].what = "export" => calls[s].about # Blank
=============================================================================
