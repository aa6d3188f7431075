--------------------------- MODULE MCSessionClient ---------------------------
(* One tab, whose page may have two calls under way. *)
EXTENDS SessionClient, TLC

CONSTANTS t1, s1, s2

MCSlotsOf == t1 :> {s1, s2}
=============================================================================
