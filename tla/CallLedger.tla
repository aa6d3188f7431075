----------------------------- MODULE CallLedger -----------------------------
(***************************************************************************)
(* What the ingest pipeline promises about a call, without topics, workers, *)
(* transactions or Redis (the three rules at the head of                    *)
(* src/apps/backend/workers/call_ingest_worker.py): a call opens once, each *)
(* of its events counts once and in one step with everything that follows   *)
(* from it, and it closes once, with one announcement, never to reopen.     *)
(***************************************************************************)
EXTENDS Naturals

CONSTANTS Calls, EventIds

VARIABLES
  state,      \* "absent", "in_progress", or how the call ended
  recorded,   \* the events that have counted: pairs of a call and an event id
  turns,      \* the numbered transcript turns
  nodes,      \* the numbered script nodes
  announced   \* the completions other services are told of

vars == <<state, recorded, turns, nodes, announced>>

Ends == {"completed", "failed"}

Init ==
  /\ state = [c \in Calls |-> "absent"]
  /\ recorded = {} /\ turns = {} /\ nodes = {} /\ announced = {}

\* The first time event id counts for call c.
Counts(c, id) ==
  /\ state[c] # "absent"
  /\ <<c, id>> \notin recorded
  /\ recorded' = recorded \cup {<<c, id>>}

\* The number after the highest the call has in the table, as a set of one.
Following(table, c) ==
  LET used == {r.seq : r \in {q \in table : q.call = c}}
  IN  {n \in {u + 1 : u \in used \cup {0}} : \A m \in used : m < n}

Open(c, id) ==
  /\ state[c] = "absent"
  /\ state' = [state EXCEPT ![c] = "in_progress"]
  /\ recorded' = recorded \cup {<<c, id>>}
  /\ UNCHANGED <<turns, nodes, announced>>

Note(c, id) ==
  /\ Counts(c, id)
  /\ UNCHANGED <<state, turns, nodes, announced>>

Say(c, id) ==
  /\ Counts(c, id)
  /\ \E n \in Following(turns, c) :
       turns' = turns \cup {[call |-> c, id |-> id, seq |-> n]}
  /\ UNCHANGED <<state, nodes, announced>>

Enter(c, id) ==
  /\ Counts(c, id)
  /\ \E n \in Following(nodes, c) :
       nodes' = nodes \cup {[call |-> c, id |-> id, seq |-> n]}
  /\ UNCHANGED <<state, turns, announced>>

Close(c, id, end) ==
  /\ Counts(c, id) /\ state[c] = "in_progress"
  /\ state' = [state EXCEPT ![c] = end]
  /\ announced' = announced \cup {[call |-> c, id |-> id, status |-> end]}
  /\ UNCHANGED <<turns, nodes>>

Next ==
  \E c \in Calls, id \in EventIds :
    \/ Open(c, id) \/ Note(c, id) \/ Say(c, id) \/ Enter(c, id)
    \/ \E end \in Ends : Close(c, id, end)

Spec == Init /\ [][Next]_vars
=============================================================================
