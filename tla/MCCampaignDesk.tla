---------------------------- MODULE MCCampaignDesk ----------------------------
(* A small instance of CampaignDesk. *)
EXTENDS CampaignDesk

CONSTANTS k1, k2

MCKnown == <<k1, k2>>
MCVisits == {[parts |-> {"new", "all"}, left |-> 3],
             [parts |-> {"overview", "team"}, left |-> 3],
             [parts |-> {"script", "all"}, left |-> 3],
             [parts |-> {"script", "new"}, left |-> 2],
             [parts |-> {"transfer", "routing"}, left |-> 3]}
=============================================================================
