----------------------------- MODULE MCScriptDesk -----------------------------
(* A small instance of ScriptDesk. *)
EXTENDS ScriptDesk

CONSTANTS k1, old, new, blank

MCKnown == <<[id |-> k1, status |-> "active", first |-> "active", text |-> old]>>
MCWordings == {old, new, blank}
MCVisits == {[parts |-> {"edit", "overview"}, left |-> 3],
             [parts |-> {"new", "edit", "overview"}, left |-> 2],
             [parts |-> {"preview", "overview"}, left |-> 2]}
=============================================================================
