---------------------------- MODULE MCScriptRace ----------------------------
(* ScriptGovernance with the memory of whether two requests were ever in      *)
(* flight together, for what the code promises until then.                    *)
EXTENDS MCScriptGovernance

CONSTANT MaxRaced  \* bound: scripts there are once two requests have overlapped

VARIABLE overlapped

Overlap == \E x, y \in Sessions : x # y /\ ~Fresh(x) /\ ~Fresh(y)

Remember ==
  /\ overlapped' = (overlapped \/ Overlap')
  /\ overlapped' => Cardinality({s \in Scripts : Exists(s)'}) <= MaxRaced

RaceInit == Init /\ overlapped = FALSE

RaceSpec == RaceInit /\ [][Next /\ Remember]_<<vars, overlapped>>

\* As long as requests have come one at a time, in whatever order and whichever
\* of them failed, a script has one active version, the one it points at, with
\* the text its approver read, and no accepted request is refused by the
\* metadata schema (scripts/service.py:804-857).
SerialSafetyAlone == ~overlapped => SerialSafety
=============================================================================
