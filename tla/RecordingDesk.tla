--------------------------- MODULE RecordingDesk ---------------------------
(***************************************************************************)
(* The recordings tab (components/recording/RecordingView.jsx): the table  *)
(* with the player, the transcript and the mark of a copied call id, and   *)
(* the scorecards.  An audit is kept in the tab only and is gone when the  *)
(* tab is left.                                                            *)
(*                                                                         *)
(* Abstracted: progress and speed of the player, which plays nothing; the  *)
(* two checks and the notes of an audit, which are not kept; the search    *)
(* text.                                                                   *)
(***************************************************************************)
EXTENDS Shell

CONSTANTS
  Recordings,       \* INITIAL_RECORDINGS
  FirstRows,        \* their score, audit and consent in the sample
  FoundRecordings,  \* the rows a search finds
  Scores            \* the scores a recording of the sample can have

\* A score in tenths of a star; a recording that waits for its audit has none.
Stars == {10, 20, 30, 40, 50}
Row == [score : Scores \union Stars \union {0}, audited : BOOLEAN, consent : BOOLEAN]
ASSUME RecordingSample ==
  /\ FirstRows \in [Recordings -> Row] /\ FoundRecordings \subseteq Recordings
  /\ Scores \subseteq 10..50
  /\ \A r \in Recordings : FirstRows[r].audited <=> FirstRows[r].score # 0

VARIABLE recordingDesk

NoForm == [of |-> None, rating |-> 50, consent |-> TRUE]
NewRecordingDesk ==
  [part |-> "recordings", search |-> FALSE, rows |-> FirstRows,
   playing |-> None, on |-> FALSE,          \* activePlayingId, isPlaying
   transcript |-> None, form |-> NoForm,    \* the two dialogs
   copied |-> None, timers |-> 0]           \* copiedId, and the timers that clear it

OnRecordings == tab = "recording" /\ recordingDesk.transcript = None /\ recordingDesk.form = NoForm
InTable == OnRecordings /\ recordingDesk.part = "recordings"

\* A click that changes this desk only.
Change(desk) ==
  /\ Click
  /\ recordingDesk' = desk
  /\ UNCHANGED <<place, calls>>

ShowPart(part) ==
  /\ OnRecordings /\ recordingDesk.part # part
  /\ Change([recordingDesk EXCEPT !.part = part])

SearchRecordings ==
  /\ OnRecordings
  /\ Change([recordingDesk EXCEPT !.search = ~@])

FilteredRecordings == {r \in Recordings : recordingDesk.search => r \in FoundRecordings}

\* The rows and, once something was played, the player above the table.
Playable == FilteredRecordings \union ({recordingDesk.playing} \ {None})

TogglePlay(r) ==
  /\ InTable /\ r \in Playable
  /\ Change([recordingDesk EXCEPT !.playing = r,
                                  !.on = IF recordingDesk.playing = r THEN ~@ ELSE TRUE])

OpenTranscript(r) ==
  /\ InTable /\ r \in Playable
  /\ Change([recordingDesk EXCEPT !.transcript = r])

CloseTranscript ==
  /\ tab = "recording" /\ recordingDesk.transcript # None
  /\ Change([recordingDesk EXCEPT !.transcript = None])

-----------------------------------------------------------------------------
(* The audit. *)

\* A recording without a score is offered five stars.
FirstRating(r) == IF recordingDesk.rows[r].score = 0 THEN 50 ELSE recordingDesk.rows[r].score

\* The scorecards show every recording, the table those that are found.
OpenQaAudit(r) ==
  /\ OnRecordings
  /\ recordingDesk.part = "recordings" => r \in FilteredRecordings
  /\ Change([recordingDesk EXCEPT
       !.form = [of |-> r, rating |-> FirstRating(r),
                 consent |-> recordingDesk.rows[r].consent]])

InForm == tab = "recording" /\ recordingDesk.form # NoForm

Rate(star) ==
  /\ InForm /\ recordingDesk.form.rating # star
  /\ Change([recordingDesk EXCEPT !.form.rating = star])

CheckConsent ==
  /\ InForm
  /\ Change([recordingDesk EXCEPT !.form.consent = ~@])

SaveQaAudit ==
  /\ InForm
  /\ Change([recordingDesk EXCEPT
       !.rows[recordingDesk.form.of] = [score |-> recordingDesk.form.rating, audited |-> TRUE,
                                        consent |-> recordingDesk.form.consent],
       !.form = NoForm])

CancelQaAudit ==
  /\ InForm
  /\ Change([recordingDesk EXCEPT !.form = NoForm])

-----------------------------------------------------------------------------
(* The mark of a copied call id.  Every copy starts a timer of its own, and  *)
(* the first that ends clears the mark, whichever copy it was started for.   *)

CopyId(r) ==
  /\ InTable /\ r \in FilteredRecordings
  /\ Change([recordingDesk EXCEPT !.copied = r, !.timers = @ + 1])

CopyTimer ==
  /\ tab = "recording" /\ recordingDesk.timers > 0
  /\ recordingDesk' = [recordingDesk EXCEPT !.copied = None, !.timers = @ - 1]
  /\ UNCHANGED <<place, calls, clicks>>

-----------------------------------------------------------------------------
RecordingStep ==
  \/ \E part \in {"recordings", "qa"} : ShowPart(part)
  \/ SearchRecordings \/ CloseTranscript
  \/ \E r \in Recordings : TogglePlay(r) \/ OpenTranscript(r) \/ OpenQaAudit(r) \/ CopyId(r)
  \/ \E star \in Stars : Rate(star)
  \/ CheckConsent \/ SaveQaAudit \/ CancelQaAudit
  \/ CopyTimer

RecordingTypes ==
  recordingDesk \in
    [part : {"recordings", "qa"}, search : BOOLEAN, rows : [Recordings -> Row],
     playing : Recordings \union {None}, on : BOOLEAN, transcript : Recordings \union {None},
     form : [of : Recordings \union {None}, rating : Scores \union Stars \union {0},
             consent : BOOLEAN],
     copied : Recordings \union {None}, timers : 0..Clicks]

\* A recording shows a score exactly when it was audited: an audit that is saved
\* as it was opened does not leave it "Pending" (RecordingView.jsx:75-102, 539).
AuditsHaveScores ==
  \A r \in Recordings : recordingDesk.rows[r].audited <=> recordingDesk.rows[r].score # 0

\* An audit is changed by saving the form of its recording, and by nothing else.
AuditsByForm ==
  \A r \in Recordings :
    recordingDesk'.rows[r] # recordingDesk.rows[r] =>
      /\ recordingDesk.form.of = r /\ recordingDesk'.form = NoForm
      /\ recordingDesk'.rows[r].score = recordingDesk.form.rating
=============================================================================
