-------------------------- MODULE MCOperationsDesk --------------------------
\* Two failed transfers, alerts of two statuses, two recordings of which one waits
\* for its audit, one title; a search finds one of its rows.  A user who may see
\* everything and one who sees neither the banner nor the verifier's tab.
EXTENDS OperationsDesk, TLC

MCRoles == {"MASTER_ADMIN", "QA"}
MCFailed == {"f1", "f2"}
MCFound == {"f1"}
MCOutcomes == {"accepted", "ineligible"}
MCAlerts == {"a1", "a2"}
MCFirstStatus == "a1" :> "ACTIVE" @@ "a2" :> "ACKNOWLEDGED"
MCSeverityOf == "a1" :> "CRITICAL" @@ "a2" :> "WARNING"
MCRecordings == {"r1", "r2"}
MCScores == {45}
MCFirstRows == "r1" :> [score |-> 45, audited |-> TRUE, consent |-> TRUE]
            @@ "r2" :> [score |-> 0, audited |-> FALSE, consent |-> FALSE]
MCFoundRecordings == {"r1"}
MCTitles == {"weekly"}
=============================================================================
