---------------------------- MODULE CallPolicies ----------------------------
(***************************************************************************)
(* The pure policies of the calls module                                   *)
(* (src/apps/backend/app/modules/calls/policies.py): which call statuses   *)
(* are terminal or live, the Medicare qualification table, and what a      *)
(* disposition implies for the qualification and VICIdial columns.         *)
(* Null stands for Python's None.                                          *)
(***************************************************************************)
EXTENDS Naturals

Null == "null"

CallStatuses == {"queued", "dialing", "ringing", "answered", "in_progress",
                 "transferring", "transferred", "completed", "failed"}

TerminalStatuses == {"transferred", "completed", "failed"}
LiveStatuses     == {"in_progress", "transferring"}

QualificationStatuses == {"pending", "in_progress", "qualified",
                          "disqualified", "incomplete", "failed"}

Dispositions ==
  {"qualified_transferred", "qualified_transfer_failed", "disqualified_age",
   "disqualified_no_part_a", "disqualified_no_part_b", "disqualified_coverage",
   "disqualified_state", "disqualified_other", "incomplete",
   "callback_requested", "opted_out", "dead_air", "no_answer", "amd_machine",
   "caller_hung_up_early", "verified_rejected", "verified_accepted",
   "verifier_no_contact", "script_completed"}

Reasons == {Null, "disqualified_age_range", "disqualified_no_part_a",
            "disqualified_no_part_b", "disqualified_coverage",
            "disqualified_state", "disqualified_other",
            "disqualified_no_part_ab", "callback_requested"}

\* The pair of columns (qualification_status, disqualification_reason).
Qualifications == QualificationStatuses \X Reasons

-----------------------------------------------------------------------------
(* The eligibility table.  Evidence maps the two fields it reads to what    *)
(* _coerce_bool makes of the captured value: "yes", "no", or Null when the  *)
(* field was never captured or cannot be read as a boolean.                 *)

PolicyFields == {"medicare_part_ab", "age_in_range"}
Answers      == {"yes", "no", Null}

EvaluateQualification(evidence) ==
  IF evidence["medicare_part_ab"] = "no"
  THEN <<"disqualified", "disqualified_no_part_ab">>
  ELSE IF evidence["age_in_range"] = "no"
  THEN <<"disqualified", "disqualified_age_range">>
  ELSE IF evidence["medicare_part_ab"] = "yes" /\ evidence["age_in_range"] = "yes"
  THEN <<"qualified", Null>>
  ELSE <<"incomplete", Null>>

\* _QUALIFICATION_RESULTS and qualification_result: the pair a disposition
\* implies.  A disposition of another layer is not Decisive: the stored pair
\* stays.
DisqualificationReason ==
  [disqualified_age       |-> "disqualified_age_range",
   disqualified_no_part_a |-> "disqualified_no_part_a",
   disqualified_no_part_b |-> "disqualified_no_part_b",
   disqualified_coverage  |-> "disqualified_coverage",
   disqualified_state     |-> "disqualified_state",
   disqualified_other     |-> "disqualified_other"]

Qualifying == {"qualified_transferred", "qualified_transfer_failed"}
Undecided  == {"incomplete", "callback_requested"}
Decisive   == Qualifying \cup Undecided \cup DOMAIN DisqualificationReason

QualificationResult(d) ==
  IF d \in Qualifying THEN <<"qualified", Null>>
  ELSE IF d = "incomplete" THEN <<"incomplete", Null>>
  ELSE IF d = "callback_requested" THEN <<"incomplete", "callback_requested">>
  ELSE <<"disqualified", DisqualificationReason[d]>>

\* _VICIDIAL_MAP and to_vicidial_status, which leaves the other dispositions
\* without a VICIdial status.
VicidialMap ==
  [qualified_transferred     |-> "RAXFER", qualified_transfer_failed |-> "DNQ",
   disqualified_age          |-> "DNQ",    disqualified_no_part_a    |-> "DNQ",
   disqualified_no_part_b    |-> "DNQ",    disqualified_coverage     |-> "DNQ",
   disqualified_state        |-> "DNQ",    disqualified_other        |-> "DNQ",
   opted_out                 |-> "DNC",    callback_requested        |-> "CLBK",
   dead_air                  |-> "DAIR",   no_answer                 |-> "NP",
   amd_machine               |-> "A",      caller_hung_up_early      |-> "HP",
   verified_rejected         |-> "RJ",     verified_accepted         |-> "SALE"]

VicidialStatuses == {VicidialMap[d] : d \in DOMAIN VicidialMap}

CanUpdateDisposition(status) == status \notin TerminalStatuses
=============================================================================
