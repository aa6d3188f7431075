---------------------------- MODULE TransferDesk ----------------------------
(***************************************************************************)
(* The transfer monitor with its recovery queue                            *)
(* (components/transfers/TransfersView.jsx) and the workspace of a         *)
(* verifier (components/verifier/VerifierView.jsx).                        *)
(*                                                                         *)
(* The rows of the queue and the one call of the workspace are constants   *)
(* of the dashboard, made anew at every mount.  Their names are not the    *)
(* identifiers the API takes, so it refuses what the buttons send (422);   *)
(* the handlers await the call and go on alike whether it was answered,    *)
(* refused or cut off.  Nothing keeps a button from being pressed again    *)
(* before the answer, which is where the orders below come from.           *)
(*                                                                         *)
(* Abstracted: who and what a transfer is about, the notes of the          *)
(* verifier, the search text.                                              *)
(***************************************************************************)
EXTENDS Shell

CONSTANTS
  Failed,   \* FAILED_TRANSFERS_QUEUE
  Found,    \* the rows a search finds
  Outcomes  \* the outcomes of a verification

ASSUME FoundRows == Found \subseteq Failed

VARIABLES
  monitor, \* the queue of failed transfers, and whether a search text is typed
  card     \* the workspace

NewMonitor == [queue |-> Failed, search |-> FALSE]

\* The workspace at its mount: a call is ringing.
NewCard == [state |-> "incoming", chosen |-> None, submitted |-> FALSE]

-----------------------------------------------------------------------------
(* The recovery queue. *)

OnQueue == tab = "transfers" /\ route = "failed"

\* The monitor shows constants and offers the queue, the queue the way back.
MonitorLinks == IF tab = "transfers" /\ route = "monitor" THEN {"failed"} ELSE {}
QueueLinks == IF OnQueue THEN {"monitor"} ELSE {}

Search ==
  /\ OnQueue
  /\ Click
  /\ monitor' = [monitor EXCEPT !.search = ~@]
  /\ UNCHANGED <<place, calls, card>>

FilteredFailedQueue == {f \in monitor.queue : monitor.search => f \in Found}

\* A row offers both its buttons until it is gone.
Recover(f, what) ==
  /\ OnQueue /\ f \in FilteredFailedQueue
  /\ Click
  /\ Send(what, f)
  /\ UNCHANGED <<place, monitor, card>>

RetryTransfer(f) == Recover(f, "retry")
MarkResolved(f) == Recover(f, "resolve")

-----------------------------------------------------------------------------
(* The workspace. *)

\* The call and what the bot found out about it, and the form beside it.
OnCard == tab = "verifier" /\ route = "workspace"

\* The header has both parts.
VerifierLinks == IF tab = "verifier" THEN {"workspace", "history"} \ {route} ELSE {}

AcceptOffered == OnCard /\ card.state = "incoming"
AcceptTransfer ==
  /\ AcceptOffered
  /\ Click
  /\ Send("accept", None)
  /\ UNCHANGED <<place, monitor, card>>

\* The form is there in every state.
Choose(outcome) ==
  /\ OnCard /\ card.chosen # outcome
  /\ Click
  /\ card' = [card EXCEPT !.chosen = outcome]
  /\ UNCHANGED <<place, calls, monitor>>

\* It can be sent without an accept, and again before the answer.
SubmitOffered == card.chosen # None /\ card.state # "completed"
CompleteVerification ==
  /\ OnCard /\ SubmitOffered
  /\ Click
  /\ Send("disposition", card.chosen)
  /\ UNCHANGED <<place, monitor, card>>

ResetCard ==
  /\ OnCard /\ card.state = "completed"
  /\ Click
  /\ card' = NewCard
  /\ UNCHANGED <<place, calls, monitor>>

-----------------------------------------------------------------------------
(* The handlers go on, whichever end the call had: the row is taken out of  *)
(* the queue of that moment, the call of the workspace is active or         *)
(* completed, whatever it has become in the meantime.                       *)

QueueAfterStale(f) == Failed \ {f}
QueueAfter(f) == monitor.queue \ {f}
CardAfter(what) == IF what = "accept" THEN [card EXCEPT !.state = "active"]
                   ELSE [card EXCEPT !.state = "completed", !.submitted = TRUE]
Recovered(s) ==
  /\ calls[s].end # "open" /\ calls[s].what \in {"retry", "resolve"}
  /\ calls' = [calls EXCEPT ![s] = Idle]
  /\ monitor' = IF calls[s].mounted THEN [monitor EXCEPT !.queue = QueueAfter(calls[s].about)]
                                    ELSE monitor
  /\ UNCHANGED <<place, clicks, card>>

Verified(s) ==
  /\ calls[s].end # "open" /\ calls[s].what \in {"accept", "disposition"}
  /\ calls' = [calls EXCEPT ![s] = Idle]
  /\ card' = IF calls[s].mounted THEN CardAfter(calls[s].what) ELSE card
  /\ UNCHANGED <<place, clicks, monitor>>

-----------------------------------------------------------------------------
TransferStep ==
  \/ Search
  \/ \E f \in Failed : RetryTransfer(f) \/ MarkResolved(f)
  \/ AcceptTransfer \/ CompleteVerification \/ ResetCard
  \/ \E outcome \in Outcomes : Choose(outcome)
  \/ \E s \in Slots : Recovered(s) \/ Verified(s)

TransferTypes ==
  /\ monitor \in [queue : SUBSET Failed, search : BOOLEAN]
  /\ card \in [state : {"incoming", "active", "completed"}, chosen : Outcomes \union {None},
               submitted : BOOLEAN]

\* No disposition is sent without an outcome, though accept and submit may
\* overlap in any order; a call that is shown as completed was submitted, and
\* one that rings was not (VerifierView.jsx:156-172, 271-279).
OutcomesStated ==
  /\ \A s \in Slots : calls[s].what = "disposition" => calls[s].about \in Outcomes
  /\ card.state = "completed" => card.submitted
  /\ card.state = "incoming" => ~card.submitted
=============================================================================
