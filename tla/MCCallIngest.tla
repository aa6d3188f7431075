---------------------------- MODULE MCCallIngest ----------------------------
(* Instances of CallIngest for TLC.  The logs are the streams of the worker's *)
(* own test suite, cut down to one message per interesting case.              *)
EXTENDS CallIngest

CONSTANTS c1, c2, ch1, e0, e1, e2, e3, e4, e5, e6, e7, e8

Blank(c, id, ts) ==
  [call |-> c, id |-> id, ts |-> ts, stamped |-> TRUE, usable |-> TRUE,
   channel |-> Null, flag |-> FALSE, field |-> Null, answer |-> Null, status |-> "completed",
   disposition |-> Null]

Opened(c, id, ts)   == [Blank(c, id, ts) EXCEPT !.channel = ch1]
Node(c, id, ts)     == [Blank(c, id, ts) EXCEPT !.flag = TRUE]
Turn(c, id, ts)     == [Blank(c, id, ts) EXCEPT !.flag = TRUE]
Captures(c, id, ts, f, a) == [Blank(c, id, ts) EXCEPT !.field = f, !.answer = a]
Closed(c, id, ts, s, d) == [Blank(c, id, ts) EXCEPT !.status = s, !.disposition = d]
Poison == [Blank(c1, e0, 1) EXCEPT !.usable = FALSE]

NoMessages == [t \in Topics |-> <<>>]

\* The channel of c1 is opened again under the id of c2, whose own turn then
\* waits for an open that never comes.
ReusedChannel ==
  [NoMessages EXCEPT
     !["opened"]     = <<Opened(c1, e1, 1), Opened(c2, e2, 2)>>,
     !["transcript"] = <<Turn(c2, e4, 4), Turn(c1, e5, 5)>>,
     !["closed"]     = <<Closed(c1, e7, 8, "completed", "qualified_transferred")>>]

\* Two turns and two nodes of one call, one of each delivered twice.
Conversation ==
  [NoMessages EXCEPT
     !["opened"]     = <<Opened(c1, e1, 1)>>,
     !["event"]      = <<Node(c1, e2, 2), Node(c1, e3, 3)>>,
     !["transcript"] = <<Turn(c1, e4, 4), Turn(c1, e4, 4), Turn(c1, e5, 5)>>]

\* Both answers of the eligibility table, and a second, earlier close.
ClosedTwice ==
  [NoMessages EXCEPT
     !["opened"] = <<Opened(c1, e1, 1)>>,
     !["field"]  = <<Captures(c1, e5, 5, "medicare_part_ab", "yes"),
                     Captures(c1, e6, 6, "age_in_range", "yes")>>,
     !["closed"] = <<Closed(c1, e7, 8, "completed", "qualified_transferred"),
                     Closed(c1, e8, 7, "failed", "incomplete")>>]

\* Messages that leave nothing but their event, or nothing at all.
Quiet ==
  [NoMessages EXCEPT
     !["opened"]     = <<Opened(c1, e1, 1)>>,
     !["event"]      = <<Poison, Blank(c1, e3, 3)>>,
     !["transcript"] = <<Blank(c1, e4, 4)>>,
     !["field"]      = <<Captures(c1, e5, 5, Null, Null)>>]

SingleLogs == {ReusedChannel, Conversation, ClosedTwice, Quiet}

\* For two workers: a turn and a close that race the open; a field that races
\* the close.
PairLogs ==
  {[NoMessages EXCEPT
      !["opened"]     = <<Opened(c1, e1, 1)>>,
      !["transcript"] = <<Turn(c1, e4, 4), Turn(c1, e5, 5)>>],
   [NoMessages EXCEPT
      !["opened"] = <<Opened(c1, e1, 1)>>,
      !["field"]  = <<Captures(c1, e5, 5, "medicare_part_ab", "no")>>,
      !["closed"] = <<Closed(c1, e7, 8, "completed", "qualified_transferred")>>]}

\* A turn whose eventTs is missing.  In no run: with these logs, two workers and the
\* migrated index UncommittedKeys is violated.
UnstampedLogs ==
  {[NoMessages EXCEPT
      !["opened"]     = <<Opened(c1, e1, 1)>>,
      !["transcript"] = <<[Turn(c1, e4, 4) EXCEPT !.stamped = FALSE]>>]}
=============================================================================
