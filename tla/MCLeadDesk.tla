----------------------------- MODULE MCLeadDesk -----------------------------
(* Two lists, one of them there from the start, and a file of two columns. *)
EXTENDS LeadDesk, TLC

CONSTANTS a, b

MCFiles == {<<"Home Phone", "Notes">>}
MCVisits == {[parts |-> {"table"}, left |-> 4], [parts |-> {"wizard"}, left |-> 4],
             [parts |-> {"rows", "dnc"}, left |-> 3]}
MCDncOn == (a :> {"k1"}) @@ (b :> {})
=============================================================================
