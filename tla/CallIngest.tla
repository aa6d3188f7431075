----------------------------- MODULE CallIngest -----------------------------
(***************************************************************************)
(* The call ingest worker (src/apps/backend/workers/call_ingest_worker.py): *)
(* consumers of one Kafka group read the five talkflow.call.* topics, and   *)
(* every message runs in a PostgreSQL transaction of its own that also      *)
(* refreshes the live snapshot in Redis before it commits.  Offsets are     *)
(* committed after a fully handled batch.                                   *)
(*                                                                         *)
(* A message is handled in three steps, between which other workers run:    *)
(* Receive (open the session and read the call row), one of the handler     *)
(* actions (deduplicate, compute the writes from what is read now, write    *)
(* Redis), and Commit (the writes become visible).  A handler waits where   *)
(* PostgreSQL makes it wait: for an uncommitted row with the same unique    *)
(* key, or for the lock on a call row another transaction has updated.      *)
(***************************************************************************)
EXTENDS Naturals, Sequences, FiniteSets, CallPolicies

CONSTANTS
  Workers,     \* the processes of the consumer group
  Calls,       \* call identifiers (the gateway's callId)
  Channels,    \* telephony channel identifiers
  EventIds,    \* externalEventId values
  Logs,        \* the streams the gateway may publish: messages per topic
  NoTopic,     \* a worker between two batches
  Migrated,    \* the tables are those of the migration, not of the metadata
  MaxBatch,    \* bound: messages one poll returns (max_records is 100)
  MaxFaults,   \* bound: aborted transactions, lost Redis commands, crashes
  MaxMoves     \* bound: partitions moved to another worker of the group

Topics == {"opened", "event", "transcript", "field", "closed"}

\* data abstracts the payload to what a handler branches on: whether a node was
\* entered or a turn is final, the captured field and answer, the close status
\* and proposed disposition.  usable = FALSE is a message that does not decode
\* or lacks its identity envelope.  stamped = FALSE is a message without a usable
\* eventTs: its ts is then the clock of whoever handles it (_event_ts).
Fields == PolicyFields \cup {"other", Null}

Messages ==
  [call: Calls, id: EventIds, ts: Nat, stamped: BOOLEAN, usable: BOOLEAN,
   channel: Channels \cup {Null}, flag: BOOLEAN,
   field: Fields, answer: Answers,
   status: {"completed", "failed"}, disposition: Dispositions \cup {Null}]

ASSUME LogAssumption == Logs \subseteq [Topics -> Seq(Messages)]
ASSUME BoundAssumption == MaxBatch \in Nat \ {0} /\ MaxFaults \in Nat /\ MaxMoves \in Nat
ASSUME NoTopicAssumption == NoTopic \notin Topics

\* The migrated primary key of calls is (id, started_at): the streams open a call
\* id at one time, or the registry would hold it twice.
OneOpenTime(l) ==
  \A o, p \in DOMAIN l["opened"] :
    LET m == l["opened"][o]
        n == l["opened"][p]
    IN  m.call = n.call => m.stamped /\ m.ts = n.ts
ASSUME SchemaAssumption ==
  Migrated \in BOOLEAN /\ (Migrated => \A l \in Logs : OneOpenTime(l))


VARIABLES
  row,        \* calls: one row per call, status "absent" while there is none
  events,     \* call_events: pairs (call_id, external_event_id)
  turns,      \* transcript_turns
  nodes,      \* call_node_path
  fields,     \* call_qualification_fields
  outbox,     \* call.completed rows of the outbox
  snap,       \* Redis cp:call:live:{call}, NoSnapshot when there is no key
  index,      \* Redis cp:calls:live:index
  log,        \* per topic, its messages in offset order; never changes
  committed,  \* per topic, the group's committed offset
  assigned,   \* per topic, the worker that owns the partition
  position,   \* per worker and topic, the consumer's in-memory position
  todo,       \* per worker and topic, offsets of the batch not yet handled
  part,       \* per worker, the partition of the batch it iterates over
  tx,         \* per worker, the transaction of the message in hand
  faults,     \* how many faults have happened
  moves       \* how many partitions have moved

db     == <<row, events, turns, nodes, fields, outbox>>
redis  == <<snap, index>>
kafka  == <<log, committed, assigned, position>>
loop   == <<todo, part>>
budget == <<faults, moves>>
vars   == <<db, redis, kafka, loop, tx, budget>>

Rows ==
  [status: CallStatuses \cup {"absent"}, channel: Channels \cup {Null},
   endedAt: Nat, disposition: Dispositions \cup {Null},
   vicidial: VicidialStatuses \cup {Null}, qualification: Qualifications]

NoRow == [status |-> "absent", channel |-> Null, endedAt |-> 0,
          disposition |-> Null, vicidial |-> Null,
          qualification |-> <<"pending", Null>>]

Numbered == [call: Calls, id: EventIds, seq: Nat]
Captured == [call: Calls, id: EventIds, field: Fields, answer: Answers]
Announced == [call: Calls, id: EventIds, status: CallStatuses]
Snapshots == [status: CallStatuses \cup {"absent"}, qualification: Qualifications]

NoSnapshot == [status |-> "absent", qualification |-> <<"pending", Null>>]

NoTx == [phase |-> "idle", topic |-> NoTopic, off |-> 0]

\* seen is the call row as the handler's SELECT returned it (the ORM object);
\* fresh says that _record_event inserted the event.
Transactions ==
  {NoTx} \cup
  [phase: {"read", "applied"}, topic: Topics, off: Nat, call: Calls,
   seen: Rows, fresh: BOOLEAN, seq: Nat, verdict: Qualifications]

-----------------------------------------------------------------------------
(* Reading helpers. *)

Present(c) == row[c].status # "absent"
ByChannel(ch) == {c \in Calls : Present(c) /\ ch # Null /\ row[c].channel = ch}

\* o is the message worker w handles next: batches are iterated partition by
\* partition, each in offset order.
IsNext(w, t, o) ==
  /\ tx[w].phase = "idle"
  /\ part[w] \notin {t, NoTopic} => todo[w][part[w]] = {}
  /\ o \in todo[w][t]
  /\ \A p \in todo[w][t] : o <= p

InHand(w) == log[tx[w].topic][tx[w].off]
Key(w) == <<tx[w].call, InHand(w).id>>
\* Variant: no look-up before the insert.
NeverDuplicate(w) == FALSE
IsDuplicate(w) == Key(w) \in events
Reading(w, t) == tx[w].phase = "read" /\ tx[w].topic = t

\* handle_opened inserts; handle_closed updates the row: both before Redis.
Opens(w)  == tx[w].topic = "opened" /\ tx[w].seen.status = "absent"
\* Variant: the early return for a terminal call is missing.
ClosesAnyway(w) == tx[w].topic = "closed" /\ tx[w].fresh
Closes(w) == /\ tx[w].topic = "closed" /\ tx[w].fresh
             /\ tx[w].seen.status \notin TerminalStatuses
Requalifies(w) == /\ tx[w].topic = "field" /\ tx[w].fresh
                  /\ tx[w].verdict # tx[w].seen.qualification

\* Variants: no unique index; a lock taken when the call is read.
EventKeyNeverHeld(w) == FALSE
EventKeyLocked(w) ==
  \E v \in Workers \ {w} : tx[v].phase # "idle" /\ tx[v].call = tx[w].call

\* The unique index of call_events: (call_id, external_event_id) in the metadata,
\* with event_ts as a third column in the migration.  Two handlers never read the
\* same clock.
SameIndexKey(v, w) ==
  /\ Key(v) = Key(w)
  /\ Migrated => /\ InHand(v).stamped /\ InHand(w).stamped
                 /\ InHand(v).ts = InHand(w).ts

\* Another transaction holds an uncommitted event row with w's key, or the
\* call row itself: PostgreSQL makes w wait for its outcome.
EventKeyHeld(w) ==
  \E v \in Workers \ {w} : /\ tx[v].phase = "applied"
                           /\ tx[v].fresh /\ SameIndexKey(v, w)
RowHeld(w) ==
  \E v \in Workers \ {w} : /\ tx[v].phase = "applied" /\ tx[v].call = tx[w].call
                           /\ Opens(v) \/ Closes(v)

\* Variant: COALESCE(MAX(seq), 1) + 1.
NextSeqFromTwo(table, c) ==
  LET used == {r.seq : r \in {q \in table : q.call = c}}
  IN  {n \in {u + 1 : u \in used \cup {1}} : \A m \in used : m < n}

\* COALESCE(MAX(seq), 0) + 1 over the call's rows, as a one-element set.
NextSeq(table, c) ==
  LET used == {r.seq : r \in {q \in table : q.call = c}}
  IN  {n \in {u + 1 : u \in used \cup {0}} : \A m \in used : m < n}

\* _reevaluate_qualification keeps the last row read per field and reads the
\* rows in no stated order, so any captured answer may be the one that counts.
Evidence(c, f, a) ==
  LET seen == {<<q.field, q.answer>> : q \in {r \in fields : r.call = c}}
                \cup {<<f, a>>}
  IN  {e \in [PolicyFields -> Answers] :
         \A g \in PolicyFields :
           \/ <<g, e[g]>> \in seen
           \/ e[g] = Null /\ ~\E x \in Answers : <<g, x>> \in seen}

-----------------------------------------------------------------------------
Init ==
  /\ row = [c \in Calls |-> NoRow]
  /\ events = {} /\ turns = {} /\ nodes = {} /\ fields = {} /\ outbox = {}
  /\ snap = [c \in Calls |-> NoSnapshot] /\ index = {}
  /\ log \in Logs
  /\ committed = [t \in Topics |-> 0]
  /\ assigned \in [Topics -> Workers]
  /\ position = [w \in Workers |-> [t \in Topics |-> 0]]
  /\ todo = [w \in Workers |-> [t \in Topics |-> {}]]
  /\ part = [w \in Workers |-> NoTopic]
  /\ tx = [w \in Workers |-> NoTx]
  /\ faults = 0 /\ moves = 0

-----------------------------------------------------------------------------
(* The daemon loop: run_worker. *)

BatchDone(w) == \A t \in Topics : todo[w][t] = {}

\* Variant: reads one message past the end of the partition.
AvailablePastEnd(w) == UNION {{<<t, o>> : o \in (position[w][t] + 1)..(Len(log[t]) + 1)} :
                                t \in {u \in Topics : assigned[u] = w}}

\* What the broker has for w from its position on.
Available(w) == UNION {{<<t, o>> : o \in (position[w][t] + 1)..Len(log[t])} :
                         t \in {u \in Topics : assigned[u] = w}}
OffsetsOf(batch, t) == {b[2] : b \in {a \in batch : a[1] = t}}

\* consumer.getmany: any non-empty run of messages of the owned partitions,
\* each from the position on, and never more than MaxBatch.  The position moves
\* past all of them at once.
Poll(w) ==
  /\ tx[w].phase = "idle" /\ part[w] = NoTopic /\ BatchDone(w)
  /\ \E batch \in SUBSET Available(w) :
       /\ batch # {} /\ Cardinality(batch) <= MaxBatch
       /\ \A b \in batch : \A a \in Available(w) :
            a[1] = b[1] /\ a[2] < b[2] => a \in batch
       /\ todo' = [todo EXCEPT ![w] = [t \in Topics |-> OffsetsOf(batch, t)]]
       /\ position' = [position EXCEPT ![w] =
            [t \in Topics |-> @[t] + Cardinality(OffsetsOf(batch, t))]]
  /\ UNCHANGED <<db, redis, log, committed, assigned, part, tx, budget>>

\* The batch went through without a failure: commit the position of every
\* partition the worker owns by now.
CommitOffsets(w) ==
  /\ tx[w].phase = "idle" /\ part[w] # NoTopic /\ BatchDone(w)
  /\ committed' = [t \in Topics |-> IF assigned[t] = w THEN position[w][t]
                                                       ELSE committed[t]]
  /\ part' = [part EXCEPT ![w] = NoTopic]
  /\ UNCHANGED <<db, redis, log, assigned, position, todo, tx, budget>>

\* A message failed: both loops break, the rest of the batch is dropped and
\* nothing is committed.  The position stays where the poll left it.
DropBatch(w) ==
  /\ todo' = [todo EXCEPT ![w] = [t \in Topics |-> {}]]
  /\ part' = [part EXCEPT ![w] = NoTopic]
  /\ tx' = [tx EXCEPT ![w] = NoTx]

\* A message that does not decode, or has no identity, counts as handled.
SkipPoison(w) ==
  \E t \in Topics : \E o \in todo[w][t] :
    /\ IsNext(w, t, o) /\ ~log[t][o].usable
    /\ todo' = [todo EXCEPT ![w][t] = @ \ {o}]
    /\ part' = [part EXCEPT ![w] = t]
    /\ UNCHANGED <<db, redis, kafka, tx, budget>>

\* Variant: a child event does not wait for its call to be opened.
MatchesUnopened(t, m) == IF t = "opened" THEN ByChannel(m.channel) ELSE {m.call}

\* Rows the message's first SELECT returns: by channel for opened, else by id.
Matches(t, m) == IF t = "opened" THEN ByChannel(m.channel)
                                 ELSE {c \in {m.call} : Present(c)}

\* The session has read the call, or has found that it is new.
ReadTx(t, o, c) ==
  [phase |-> "read", topic |-> t, off |-> o, call |-> c,
   seen |-> IF c \in Matches(t, log[t][o]) THEN row[c] ELSE NoRow,
   fresh |-> FALSE, seq |-> 0, verdict |-> NoRow.qualification]

Receive(w) ==
  \E t \in Topics : \E o \in todo[w][t] :
    LET m == log[t][o] IN
    /\ IsNext(w, t, o) /\ m.usable
    /\ \E c \in Calls :
         /\ \/ Matches(t, m) = {c}
            \/ t = "opened" /\ Matches(t, m) = {} /\ c = m.call
         /\ tx' = [tx EXCEPT ![w] = ReadTx(t, o, c)]
    /\ part' = [part EXCEPT ![w] = t]
    /\ UNCHANGED <<db, redis, kafka, todo, budget>>

\* WaitForOpenError, or a channel lookup that finds more than one row.
RefuseMessage(w) ==
  \E t \in Topics : \E o \in todo[w][t] :
    LET m == log[t][o] IN
    /\ IsNext(w, t, o) /\ m.usable
    /\ \/ t # "opened" /\ Matches(t, m) = {}
       \/ Cardinality(Matches(t, m)) > 1
    /\ DropBatch(w)
    /\ UNCHANGED <<db, redis, kafka, budget>>

-----------------------------------------------------------------------------
(* Redis is best-effort: of the n commands of a call, only the first few may *)
(* get through, and the exception is swallowed.                              *)

Reached(sent, n) ==
  /\ sent \in 0..n
  /\ sent < n => faults < MaxFaults
  /\ faults' = IF sent < n THEN faults + 1 ELSE faults

SnapshotOf(r) == [status |-> r.status, qualification |-> r.qualification]

\* SET the key, then SADD the index.
WriteLiveSnapshot(c, r) ==
  \E sent \in 0..2 :
    /\ Reached(sent, 2)
    /\ snap' = IF sent > 0 THEN [snap EXCEPT ![c] = SnapshotOf(r)] ELSE snap
    /\ index' = IF sent = 2 THEN index \cup {c} ELSE index

\* GET the key, SET it with the session's status and qualification.
UpdateLiveSnapshot(c, r) ==
  \E sent \in 0..1 :
    /\ Reached(sent, 1)
    /\ snap' = IF sent = 1 THEN [snap EXCEPT ![c] = SnapshotOf(r)] ELSE snap
    /\ UNCHANGED index

\* Variant: the index entry is forgotten.
RemoveOnlyKey(c) ==
  \E sent \in 0..1 :
    /\ Reached(sent, 1)
    /\ snap' = IF sent > 0 THEN [snap EXCEPT ![c] = NoSnapshot] ELSE snap
    /\ UNCHANGED index

\* DEL the key, then SREM from the index.
RemoveLiveSnapshot(c) ==
  \E sent \in 0..2 :
    /\ Reached(sent, 2)
    /\ snap' = IF sent > 0 THEN [snap EXCEPT ![c] = NoSnapshot] ELSE snap
    /\ index' = IF sent = 2 THEN index \ {c} ELSE index

LeaveRedis == UNCHANGED <<redis, faults>>

-----------------------------------------------------------------------------
(* The handlers: everything between the first SELECT and the commit.         *)

Apply(w, fresh, seq, verdict) ==
  /\ tx' = [tx EXCEPT ![w] = [@ EXCEPT !.phase = "applied", !.fresh = fresh,
                                       !.seq = seq, !.verdict = verdict]]
  /\ UNCHANGED <<db, kafka, loop, moves>>

\* _record_event found the event, before or after waiting for its key.
SkipDuplicate(w) ==
  /\ tx[w].phase = "read" /\ tx[w].topic # "opened"
  /\ ~EventKeyHeld(w) /\ IsDuplicate(w)
  /\ Apply(w, FALSE, 0, tx[w].seen.qualification)
  /\ LeaveRedis

NewRow(m) == [NoRow EXCEPT !.status = "in_progress", !.channel = m.channel]

\* handle_opened, the channel is known: record the event under the existing
\* call and write its live snapshot, whatever its status.
ReuseCall(w) ==
  /\ Reading(w, "opened") /\ ~Opens(w) /\ ~EventKeyHeld(w)
  /\ Apply(w, ~IsDuplicate(w), 0, tx[w].seen.qualification)
  /\ WriteLiveSnapshot(tx[w].call, tx[w].seen)

\* handle_opened, a new channel: insert the call.
OpenCall(w) ==
  /\ Reading(w, "opened") /\ Opens(w) /\ ~RowHeld(w) /\ ~EventKeyHeld(w)
  /\ ~Present(tx[w].call)
  /\ Apply(w, ~IsDuplicate(w), 0, NoRow.qualification)
  /\ WriteLiveSnapshot(tx[w].call, NewRow(InHand(w)))

\* The insert meets the primary key of a row that is already there.
OpenConflict(w) ==
  /\ Reading(w, "opened") /\ Opens(w) /\ ~RowHeld(w)
  /\ Present(tx[w].call)
  /\ DropBatch(w)
  /\ UNCHANGED <<db, redis, kafka, budget>>

Fresh(w, t) == Reading(w, t) /\ ~EventKeyHeld(w) /\ ~IsDuplicate(w)

\* handle_state_event: only node_entered leaves a row, and only then is the
\* live snapshot refreshed.
EnterNode(w) ==
  /\ Fresh(w, "event")
  /\ \E n \in NextSeq(nodes, tx[w].call) :
       Apply(w, TRUE, n, tx[w].seen.qualification)
  /\ IF InHand(w).flag THEN UpdateLiveSnapshot(tx[w].call, tx[w].seen)
                       ELSE LeaveRedis

\* handle_transcript: a partial turn is recorded as an event and nothing else.
AddTurn(w) ==
  /\ Fresh(w, "transcript")
  /\ \E n \in NextSeq(turns, tx[w].call) :
       Apply(w, TRUE, n, tx[w].seen.qualification)
  /\ LeaveRedis

\* handle_field: the answer is stored and the qualification evaluated again,
\* on a closed call as on a live one.
CaptureField(w) ==
  LET m == InHand(w) IN
  /\ Fresh(w, "field")
  /\ \/ /\ m.field = Null
        /\ Apply(w, TRUE, 0, tx[w].seen.qualification)
        /\ LeaveRedis
     \/ /\ m.field # Null
        /\ \E e \in Evidence(tx[w].call, m.field, m.answer) :
             LET q == EvaluateQualification(e) IN
             /\ Apply(w, TRUE, 0, q)
             /\ IF q = tx[w].seen.qualification
                THEN LeaveRedis
                ELSE UpdateLiveSnapshot(tx[w].call,
                                        [tx[w].seen EXCEPT !.qualification = q])

\* handle_closed on a call that was terminal when it was read.
CloseAgain(w) ==
  /\ Fresh(w, "closed") /\ tx[w].seen.status \in TerminalStatuses
  /\ Apply(w, TRUE, 0, tx[w].seen.qualification)
  /\ LeaveRedis

\* handle_closed: the UPDATE takes the row's lock, then the outbox row is
\* inserted, then the live snapshot is removed.
CloseCall(w) ==
  /\ Fresh(w, "closed") /\ tx[w].seen.status \notin TerminalStatuses
  /\ ~RowHeld(w)
  /\ Apply(w, TRUE, 0, tx[w].seen.qualification)
  /\ RemoveLiveSnapshot(tx[w].call)

-----------------------------------------------------------------------------
(* The commit.  SQLAlchemy updates the columns whose value differs from the  *)
(* one it read; the others keep what other transactions have made of them.   *)

Column(seen, new, current) == IF new = seen THEN current ELSE new

Requalified(seen, new, current) ==
  <<Column(seen[1], new[1], current[1]), Column(seen[2], new[2], current[2])>>

ClosedRow(r, seen, m) ==
  LET proposes == m.disposition # Null /\ m.disposition # seen.disposition
      later    == seen.endedAt = 0 \/ m.ts > seen.endedAt
  IN [status      |-> m.status,
      channel     |-> r.channel,
      endedAt     |-> IF later THEN m.ts ELSE r.endedAt,
      disposition |-> IF proposes THEN m.disposition ELSE r.disposition,
      qualification |->
        IF proposes /\ m.disposition \in Decisive
        THEN Requalified(seen.qualification, QualificationResult(m.disposition),
                         r.qualification)
        ELSE r.qualification,
      vicidial |->
        IF proposes /\ m.disposition \in DOMAIN VicidialMap
        THEN Column(seen.vicidial, VicidialMap[m.disposition], r.vicidial)
        ELSE r.vicidial]

RowAfter(w) ==
  LET r == row[tx[w].call] IN
  IF Opens(w) THEN NewRow(InHand(w))
  ELSE IF Closes(w) THEN ClosedRow(r, tx[w].seen, InHand(w))
  ELSE IF Requalifies(w)
       THEN [r EXCEPT !.qualification =
               Requalified(tx[w].seen.qualification, tx[w].verdict, @)]
  ELSE r

NumberedRow(w) == [call |-> tx[w].call, id |-> InHand(w).id, seq |-> tx[w].seq]

\* Variants: a skipped duplicate still writes its turn; isFinal is read the
\* wrong way round; only completed calls are announced.
NewTurnsTwice(w) == IF tx[w].topic = "transcript" /\ InHand(w).flag
                    THEN {NumberedRow(w)} ELSE {}
NewTurnsPartial(w) == IF tx[w].topic = "transcript" /\ tx[w].fresh /\ ~InHand(w).flag
                      THEN {NumberedRow(w)} ELSE {}
NewOutboxCompleted(w) == IF Closes(w) /\ InHand(w).status = "completed"
                         THEN {[call |-> tx[w].call, id |-> InHand(w).id,
                                status |-> InHand(w).status]}
                         ELSE {}

NewTurns(w) == IF tx[w].topic = "transcript" /\ tx[w].fresh /\ InHand(w).flag
               THEN {NumberedRow(w)} ELSE {}
NewNodes(w) == IF tx[w].topic = "event" /\ tx[w].fresh /\ InHand(w).flag
               THEN {NumberedRow(w)} ELSE {}
NewFields(w) == IF tx[w].topic = "field" /\ tx[w].fresh /\ InHand(w).field # Null
                THEN {[call |-> tx[w].call, id |-> InHand(w).id,
                       field |-> InHand(w).field, answer |-> InHand(w).answer]}
                ELSE {}
NewOutbox(w) == IF Closes(w)
                THEN {[call |-> tx[w].call, id |-> InHand(w).id,
                       status |-> InHand(w).status]}
                ELSE {}

\* session.commit: the UPDATE of a re-evaluated qualification is flushed here,
\* so it waits for a close of the same call that has not committed.
Commit(w) ==
  /\ tx[w].phase = "applied"
  /\ Requalifies(w) => ~RowHeld(w)
  /\ row' = [row EXCEPT ![tx[w].call] = RowAfter(w)]
  /\ events' = IF tx[w].fresh THEN events \cup {Key(w)} ELSE events
  /\ turns' = turns \cup NewTurns(w)
  /\ nodes' = nodes \cup NewNodes(w)
  /\ fields' = fields \cup NewFields(w)
  /\ outbox' = outbox \cup NewOutbox(w)
  /\ todo' = [todo EXCEPT ![w][tx[w].topic] = @ \ {tx[w].off}]
  /\ tx' = [tx EXCEPT ![w] = NoTx]
  /\ UNCHANGED <<redis, kafka, part, budget>>

-----------------------------------------------------------------------------
(* Failures. *)

\* Any other exception: the transaction rolls back and the batch is dropped.
Abort(w) ==
  /\ tx[w].phase # "idle" /\ faults < MaxFaults
  /\ DropBatch(w)
  /\ faults' = faults + 1
  /\ UNCHANGED <<db, redis, kafka, moves>>

\* The process dies and starts again from the committed offsets.
Crash(w) ==
  /\ faults < MaxFaults
  /\ DropBatch(w)
  /\ position' = [position EXCEPT ![w] =
       [t \in Topics |-> IF assigned[t] = w THEN committed[t] ELSE @[t]]]
  /\ faults' = faults + 1
  /\ UNCHANGED <<db, redis, log, committed, assigned, moves>>

\* The group gives partition t to w, which starts from the committed offset.
\* The former owner goes on with the batch it holds.
Rebalance(t, w) ==
  /\ assigned[t] # w /\ moves < MaxMoves
  /\ assigned' = [assigned EXCEPT ![t] = w]
  /\ position' = [position EXCEPT ![w][t] = committed[t]]
  /\ moves' = moves + 1
  /\ UNCHANGED <<db, redis, log, committed, loop, tx, faults>>

-----------------------------------------------------------------------------
Handle(w) ==
  \/ SkipDuplicate(w) \/ ReuseCall(w) \/ OpenCall(w) \/ OpenConflict(w)
  \/ EnterNode(w) \/ AddTurn(w) \/ CaptureField(w)
  \/ CloseAgain(w) \/ CloseCall(w)

Work(w) ==
  \/ Poll(w) \/ SkipPoison(w) \/ Receive(w) \/ RefuseMessage(w)
  \/ Handle(w) \/ Commit(w) \/ CommitOffsets(w)

Next ==
  \/ \E w \in Workers : Work(w) \/ Abort(w) \/ Crash(w)
  \/ \E t \in Topics, w \in Workers : Rebalance(t, w)

Spec == Init /\ [][Next]_vars

\* The daemon loops for ever and PostgreSQL grants every wait it can.
FairSpec == Spec /\ \A w \in Workers : WF_vars(Work(w))

-----------------------------------------------------------------------------
(* What the worker promises. *)

DbTypeOK ==
  /\ row \in [Calls -> Rows]
  /\ events \subseteq Calls \X EventIds
  /\ turns \subseteq Numbered /\ nodes \subseteq Numbered
  /\ fields \subseteq Captured /\ outbox \subseteq Announced

RedisTypeOK == snap \in [Calls -> Snapshots] /\ index \subseteq Calls

KafkaTypeOK ==
  /\ log \in [Topics -> Seq(Messages)]
  /\ committed \in [Topics -> Nat] /\ assigned \in [Topics -> Workers]
  /\ position \in [Workers -> [Topics -> Nat]]

LoopTypeOK ==
  /\ todo \in [Workers -> [Topics -> SUBSET Nat]]
  /\ \A w \in Workers, t \in Topics : todo[w][t] \subseteq DOMAIN log[t]
  /\ part \in [Workers -> Topics \cup {NoTopic}]
  /\ tx \in [Workers -> Transactions]
  /\ \A w \in Workers :
       tx[w].phase # "idle" => tx[w].off \in DOMAIN log[tx[w].topic]

BudgetTypeOK == faults \in Nat /\ moves \in Nat

\* Every variable has its type, and the loop only holds offsets the log has.
TypeOK == DbTypeOK /\ RedisTypeOK /\ KafkaTypeOK /\ LoopTypeOK /\ BudgetTypeOK

Terminal(c) == row[c].status \in TerminalStatuses

\* Rule 1, with concurrent consumers and rebalances, for events that tell their
\* time or the index of the metadata: whatever is redelivered and to whomever, an
\* event leaves at most one turn, one node, one field and
\* one announcement, and leaves none without having been recorded.  (The tables
\* are sets here; equal rows could only come from two transactions that hold
\* one key, which UncommittedKeys excludes.)
EffectsOnce ==
  /\ \A T \in {turns, nodes, fields, outbox} : \A r \in T :
       <<r.call, r.id>> \in events
  /\ \A T \in {turns, nodes, fields, outbox} : \A r, q \in T :
       r.call = q.call /\ r.id = q.id => r = q

\* The partitioned tables have no foreign key to calls; the worker alone keeps
\* every child row, and every announcement, attached to a call that exists.
NoOrphans ==
  /\ \A e \in events : Present(e[1])
  /\ \A T \in {turns, nodes, fields, outbox} : \A r \in T : Present(r.call)

\* What keeps them so while transactions are open: no two consumers ever both
\* hold a message's event as newly recorded, and none holds one that is already
\* committed.  The worker says it of every duplicate, a concurrent consumer's too
\* (rule 1); under the index of the migration it fails for an event without a
\* time, which each consumer stamps with a clock of its own.
UncommittedKeys ==
  \A w \in Workers : tx[w].phase = "applied" /\ tx[w].fresh =>
    /\ Key(w) \notin events
    /\ \A v \in Workers \ {w} :
         tx[v].phase = "applied" /\ tx[v].fresh => Key(v) # Key(w)

\* A transaction that does not insert its call found it.
Attached ==
  \A w \in Workers : tx[w].phase # "idle" /\ ~Opens(w) => Present(tx[w].call)

\* A recorded event never lacks its effect: since a redelivery is skipped as a
\* duplicate, a turn, node or field lost here would be lost for good.
\* (Stated for logs in which an event id names one message.)
RecordedIsApplied ==
  \A e \in events : \A t \in Topics : \A o \in DOMAIN log[t] :
    LET m == log[t][o] IN
    m.usable /\ m.id = e[2] =>
      /\ t = "transcript" /\ m.flag => \E r \in turns : <<r.call, r.id>> = e
      /\ t = "event" /\ m.flag => \E r \in nodes : <<r.call, r.id>> = e
      /\ t = "field" /\ m.field # Null => \E r \in fields : <<r.call, r.id>> = e

\* A close and its announcement stand or fall together: a call is terminal
\* exactly when call.completed is in the outbox, once, with the same status.
AnnouncedOnce ==
  \A c \in Calls :
    LET said == {a \in outbox : a.call = c} IN
    /\ Terminal(c) <=> said # {}
    /\ \A a \in said : said = {a} /\ a.status = row[c].status

\* Rule 3: once a call is terminal no redelivered, late or second close touches
\* its status, its end, its disposition or its VICIdial status again.
TerminalOnce ==
  [][\A c \in Calls : Terminal(c) =>
       /\ row'[c].status = row[c].status
       /\ row'[c].endedAt = row[c].endedAt
       /\ row'[c].disposition = row[c].disposition
       /\ row'[c].vicidial = row[c].vicidial]_vars

\* The numbers of a call's turns, and of its nodes, have neither gap nor
\* repetition, whatever was dropped, retried or crashed in between.
DenseNumbers ==
  \A T \in {turns, nodes} : \A c \in Calls :
    LET mine == {r \in T : r.call = c} IN
    {r.seq : r \in mine} = 1..Cardinality(mine)

\* What is announced and numbered is right at every moment: AnnouncedOnce and
\* DenseNumbers, over every drop, redelivery, rollback and crash.
Announcements == AnnouncedOnce /\ DenseNumbers

Reopened(c) ==
  Cardinality({o \in DOMAIN log["opened"] :
                 <<c, log["opened"][o].id>> \in events}) > 1

\* While nothing has failed, the live board agrees with the registry whenever
\* the workers are between messages: the index holds exactly the calls in
\* progress and no snapshot shows a status or a qualification the row does not
\* have.  (A call whose channel was opened a second time is excluded: see the README.)
LiveBoardAgrees ==
  faults = 0 /\ (\A w \in Workers : tx[w].phase = "idle") =>
    \A c \in Calls : ~Reopened(c) =>
      /\ c \in index <=> row[c].status = "in_progress"
      /\ snap[c] # NoSnapshot => snap[c] = SnapshotOf(row[c])

\* No two transactions ever wait for each other: every message a worker has
\* taken up comes to a commit or to a rollback.
TransactionsEnd ==
  \A w \in Workers : tx[w].phase # "idle" ~> tx[w].phase = "idle"

Ledger == INSTANCE CallLedger WITH state <- [c \in Calls |-> row[c].status],
                                   recorded <- events, announced <- outbox

\* One worker of the group implements the ledger: topics in any order, dropped
\* batches, redeliveries and crashes never show in it.
ImplementsLedger == Ledger!Spec
=============================================================================
