-------------------------- MODULE CallIngestProofs --------------------------
(***************************************************************************)
(* Proofs about CallIngest, for any workers, calls, channels, logs and      *)
(* bounds: that nothing is orphaned, that no event whose time the unique     *)
(* index can tell takes effect twice, and that a recorded event has had its *)
(* effect.  Then, for a consumer group of *)
(* one worker: that the worker implements CallLedger, and with it that a    *)
(* call is announced and ended once and its rows are numbered without a     *)
(* gap; and that, as long as nothing fails, the live board shows the        *)
(* registry.                                                                *)
(***************************************************************************)
EXTENDS CallIngest, FiniteSetTheorems, TLAPS

\* The policies return values of the columns they are stored in.
LEMMA PolicyTypes ==
  /\ \A e \in [PolicyFields -> Answers] : EvaluateQualification(e) \in Qualifications
  /\ \A d \in Decisive : QualificationResult(d) \in Qualifications
  /\ \A d \in DOMAIN VicidialMap : VicidialMap[d] \in VicidialStatuses
<1>1. ASSUME NEW e \in [PolicyFields -> Answers]
      PROVE  EvaluateQualification(e) \in Qualifications
  BY DEF EvaluateQualification, Qualifications, QualificationStatuses, Reasons, Null
<1>2. ASSUME NEW d \in DOMAIN DisqualificationReason
      PROVE  DisqualificationReason[d] \in Reasons
  BY DEF DisqualificationReason, Reasons
<1>3. ASSUME NEW d \in Decisive
      PROVE  QualificationResult(d) \in Qualifications
  BY <1>2 DEF QualificationResult, Qualifications, QualificationStatuses, Reasons,
              Decisive, Undecided, Null
<1>4. ASSUME NEW d \in DOMAIN VicidialMap
      PROVE  VicidialMap[d] \in VicidialStatuses
  BY DEF VicidialStatuses
<1>5. QED
  BY <1>1, <1>3, <1>4

\* An active transaction has a call row as its handler read it, and a message.
LEMMA ActiveTx ==
  ASSUME TypeOK, NEW w \in Workers, tx[w].phase # "idle"
  PROVE  /\ tx[w] \in [phase: {"read", "applied"}, topic: Topics, off: Nat,
                       call: Calls, seen: Rows, fresh: BOOLEAN, seq: Nat,
                       verdict: Qualifications]
         /\ InHand(w) \in Messages
<1>1. tx[w] \in Transactions /\ NoTx.phase = "idle"
  BY DEF TypeOK, LoopTypeOK, NoTx
<1>2. tx[w] \in [phase: {"read", "applied"}, topic: Topics, off: Nat,
                 call: Calls, seen: Rows, fresh: BOOLEAN, seq: Nat,
                 verdict: Qualifications]
  BY <1>1 DEF Transactions
<1>3. tx[w].topic \in Topics /\ log[tx[w].topic] \in Seq(Messages)
  BY <1>2 DEF TypeOK, KafkaTypeOK
<1>4. tx[w].off \in DOMAIN log[tx[w].topic]
  BY DEF TypeOK, LoopTypeOK
<1>5. InHand(w) \in Messages
  BY <1>3, <1>4 DEF InHand
<1>6. QED
  BY <1>2, <1>5

-----------------------------------------------------------------------------
(* Type correctness, by the parts of the actions. *)

\* Giving up a batch leaves the loop and the transactions well typed.
LEMMA DropBatchTypes ==
  ASSUME TypeOK, NEW w \in Workers, DropBatch(w), log' = log
  PROVE  LoopTypeOK'
<1>1. todo' \in [Workers -> [Topics -> SUBSET Nat]]
  BY DEF TypeOK, LoopTypeOK, DropBatch
<1>2. ASSUME NEW v \in Workers, NEW t \in Topics
      PROVE  todo'[v][t] \subseteq DOMAIN log'[t]
  BY DEF TypeOK, LoopTypeOK, DropBatch
<1>3. part' \in [Workers -> Topics \cup {NoTopic}]
  BY DEF TypeOK, LoopTypeOK, DropBatch
<1>4. tx' \in [Workers -> Transactions]
  BY DEF TypeOK, LoopTypeOK, DropBatch, Transactions
<1>5. ASSUME NEW v \in Workers, tx'[v].phase # "idle"
      PROVE  tx'[v].off \in DOMAIN log'[tx'[v].topic]
  <2>1. NoTx.phase = "idle"
    BY DEF NoTx
  <2>2. v # w /\ tx'[v] = tx[v]
    BY <1>5, <2>1 DEF TypeOK, LoopTypeOK, DropBatch
  <2>3. QED
    BY <1>5, <2>2 DEF TypeOK, LoopTypeOK
<1>6. QED
  BY <1>1, <1>2, <1>3, <1>4, <1>5 DEF LoopTypeOK

\* A handler turns a transaction that has read its call into one to commit.
LEMMA ApplyTypes ==
  ASSUME TypeOK, NEW w \in Workers, tx[w].phase = "read",
         NEW fresh \in BOOLEAN, NEW seq \in Nat, NEW verdict \in Qualifications,
         Apply(w, fresh, seq, verdict)
  PROVE  DbTypeOK' /\ KafkaTypeOK' /\ LoopTypeOK' /\ moves' \in Nat
<1>1. DbTypeOK' /\ KafkaTypeOK' /\ moves' \in Nat
  BY DEF TypeOK, DbTypeOK, KafkaTypeOK, BudgetTypeOK, Apply, db, kafka
<1>2. tx[w] \in [phase: {"read", "applied"}, topic: Topics, off: Nat, call: Calls,
                 seen: Rows, fresh: BOOLEAN, seq: Nat, verdict: Qualifications]
  BY ActiveTx
<1>3. tx'[w] \in [phase: {"read", "applied"}, topic: Topics, off: Nat, call: Calls,
                  seen: Rows, fresh: BOOLEAN, seq: Nat, verdict: Qualifications]
  BY <1>2 DEF TypeOK, LoopTypeOK, Apply
<1>4. tx' \in [Workers -> Transactions]
  BY <1>3 DEF TypeOK, LoopTypeOK, Apply, Transactions
<1>5. ASSUME NEW v \in Workers, tx'[v].phase # "idle"
      PROVE  tx'[v].off \in DOMAIN log'[tx'[v].topic]
  <2>1. tx'[v].off = tx[v].off /\ tx'[v].topic = tx[v].topic
    BY <1>2 DEF TypeOK, LoopTypeOK, Apply
  <2>2. tx[v].phase # "idle"
    BY <1>5 DEF TypeOK, LoopTypeOK, Apply
  <2>3. QED
    BY <2>1, <2>2 DEF TypeOK, LoopTypeOK, Apply, kafka
<1>6. QED
  BY <1>1, <1>4, <1>5 DEF TypeOK, LoopTypeOK, Apply, loop, kafka

\* Whichever of its Redis commands get through, a handler keeps the board typed.
LEMMA RedisTypes ==
  ASSUME TypeOK, NEW c \in Calls, NEW r \in Rows,
         \/ WriteLiveSnapshot(c, r) \/ UpdateLiveSnapshot(c, r)
         \/ RemoveLiveSnapshot(c)   \/ LeaveRedis
  PROVE  RedisTypeOK' /\ faults' \in Nat
<1>1. SnapshotOf(r) \in Snapshots /\ NoSnapshot \in Snapshots
  BY DEF SnapshotOf, NoSnapshot, Snapshots, Rows, Qualifications,
         QualificationStatuses, Reasons
<1>2. CASE WriteLiveSnapshot(c, r)
  BY <1>1, <1>2 DEF WriteLiveSnapshot, Reached, TypeOK, RedisTypeOK, BudgetTypeOK
<1>3. CASE UpdateLiveSnapshot(c, r)
  BY <1>1, <1>3 DEF UpdateLiveSnapshot, Reached, TypeOK, RedisTypeOK, BudgetTypeOK
<1>4. CASE RemoveLiveSnapshot(c)
  BY <1>1, <1>4 DEF RemoveLiveSnapshot, Reached, TypeOK, RedisTypeOK, BudgetTypeOK
<1>5. CASE LeaveRedis
  BY <1>5 DEF LeaveRedis, redis, TypeOK, RedisTypeOK, BudgetTypeOK
<1>6. QED
  BY <1>2, <1>3, <1>4, <1>5

\* MAX(seq) + 1 is a number.
LEMMA NextSeqType ==
  ASSUME NEW table, table \subseteq Numbered, NEW c \in Calls
  PROVE  NextSeq(table, c) \subseteq Nat
BY DEF NextSeq, Numbered

\* Every handler but the refused insert applies its message: it keeps what it
\* read, and what it marks as fresh is neither recorded nor held by another.
LEMMA HandleApplies ==
  ASSUME TypeOK, NEW w \in Workers, Handle(w), ~OpenConflict(w)
  PROVE  /\ tx[w].phase = "read"
         /\ \E fresh \in BOOLEAN, seq \in Nat, q \in Qualifications, r \in Rows :
              /\ Apply(w, fresh, seq, q)
              /\ fresh => ~EventKeyHeld(w) /\ ~IsDuplicate(w)
              /\ \/ WriteLiveSnapshot(tx[w].call, r) \/ UpdateLiveSnapshot(tx[w].call, r)
                 \/ RemoveLiveSnapshot(tx[w].call)   \/ LeaveRedis
<1>1. tx[w].phase = "read"
  BY DEF Handle, SkipDuplicate, ReuseCall, OpenCall, EnterNode, AddTurn,
       CaptureField, CloseAgain, CloseCall, Fresh, Reading
<1>2. /\ tx[w].call \in Calls /\ tx[w].seen \in Rows
      /\ tx[w].seen.qualification \in Qualifications /\ InHand(w) \in Messages
  BY <1>1, ActiveTx DEF Rows
<1>3. NoRow \in Rows /\ NewRow(InHand(w)) \in Rows
      /\ NoRow.qualification \in Qualifications
  BY ZenonT(60), <1>2 DEF NoRow, NewRow, Rows, Messages, CallStatuses, Qualifications,
       QualificationStatuses, Reasons
<1>4. NextSeq(nodes, tx[w].call) \subseteq Nat /\ NextSeq(turns, tx[w].call) \subseteq Nat
  BY <1>2, NextSeqType DEF TypeOK, DbTypeOK
<1>5. CASE SkipDuplicate(w)
  BY <1>5, <1>1, <1>2 DEF SkipDuplicate
<1>6. CASE ReuseCall(w)
  <2>1. /\ Apply(w, ~IsDuplicate(w), 0, tx[w].seen.qualification)
        /\ WriteLiveSnapshot(tx[w].call, tx[w].seen)
        /\ ~EventKeyHeld(w)
    BY <1>6 DEF ReuseCall
  <2>2. CASE IsDuplicate(w)
    <3>1. (~IsDuplicate(w)) = FALSE
      BY <2>2
    <3>2. Apply(w, FALSE, 0, tx[w].seen.qualification)
      BY <2>1, <3>1
    <3>3. QED
      BY <2>1, <3>2, <1>1, <1>2
  <2>3. CASE ~IsDuplicate(w)
    <3>1. (~IsDuplicate(w)) = TRUE
      BY <2>3
    <3>2. Apply(w, TRUE, 0, tx[w].seen.qualification)
      BY <2>1, <3>1
    <3>3. QED
      BY <2>1, <2>3, <3>2, <1>1, <1>2
  <2>4. QED
    BY <2>2, <2>3
<1>7. CASE OpenCall(w)
  <2>1. /\ Apply(w, ~IsDuplicate(w), 0, NoRow.qualification)
        /\ WriteLiveSnapshot(tx[w].call, NewRow(InHand(w)))
        /\ ~EventKeyHeld(w)
    BY <1>7 DEF OpenCall
  <2>2. CASE IsDuplicate(w)
    <3>1. (~IsDuplicate(w)) = FALSE
      BY <2>2
    <3>2. Apply(w, FALSE, 0, NoRow.qualification)
      BY <2>1, <3>1
    <3>3. QED
      BY <2>1, <3>2, <1>1, <1>2, <1>3
  <2>3. CASE ~IsDuplicate(w)
    <3>1. (~IsDuplicate(w)) = TRUE
      BY <2>3
    <3>2. Apply(w, TRUE, 0, NoRow.qualification)
      BY <2>1, <3>1
    <3>3. QED
      BY <2>1, <2>3, <3>2, <1>1, <1>2, <1>3
  <2>4. QED
    BY <2>2, <2>3
<1>8. CASE EnterNode(w)
  BY <1>8, <1>1, <1>2, <1>4 DEF EnterNode, Fresh
<1>9. CASE AddTurn(w)
  BY <1>9, <1>1, <1>2, <1>4 DEF AddTurn, Fresh
<1>10. CASE CaptureField(w)
  <2>1. CASE InHand(w).field = Null
    BY <1>10, <2>1, <1>1, <1>2 DEF CaptureField, Fresh
  <2>2. CASE InHand(w).field # Null
    <3>1. PICK e \in Evidence(tx[w].call, InHand(w).field, InHand(w).answer) :
            LET q == EvaluateQualification(e) IN
            /\ Apply(w, TRUE, 0, q)
            /\ IF q = tx[w].seen.qualification
               THEN LeaveRedis
               ELSE UpdateLiveSnapshot(tx[w].call,
                                       [tx[w].seen EXCEPT !.qualification = q])
      BY <1>10, <2>2 DEF CaptureField
    <3>2. e \in [PolicyFields -> Answers]
      BY DEF Evidence
    <3>3. EvaluateQualification(e) \in Qualifications
      BY <3>2, PolicyTypes
    <3>4. [tx[w].seen EXCEPT !.qualification = EvaluateQualification(e)] \in Rows
      BY <3>3, <1>2 DEF Rows
    <3>5. ~EventKeyHeld(w) /\ ~IsDuplicate(w)
      BY <1>10 DEF CaptureField, Fresh
    <3>6. QED
      BY <3>1, <3>3, <3>4, <3>5, <1>1, <1>2
  <2>3. QED
    BY <2>1, <2>2
<1>11. CASE CloseAgain(w)
  BY <1>11, <1>1, <1>2 DEF CloseAgain, Fresh
<1>12. CASE CloseCall(w)
  BY <1>12, <1>1, <1>2 DEF CloseCall, Fresh
<1>13. QED
  BY <1>5, <1>6, <1>7, <1>8, <1>9, <1>10, <1>11, <1>12 DEF Handle

\* Every handler keeps the types.
LEMMA HandleTypes ==
  ASSUME TypeOK, NEW w \in Workers, Handle(w)
  PROVE  TypeOK'
<1>1. CASE OpenConflict(w)
  <2>1. LoopTypeOK'
    BY <1>1, DropBatchTypes DEF OpenConflict, kafka
  <2>2. QED
    BY <1>1, <2>1 DEF OpenConflict, TypeOK, DbTypeOK, RedisTypeOK, KafkaTypeOK,
         BudgetTypeOK, db, redis, kafka, budget
<1>2. CASE ~OpenConflict(w)
  <2>1. tx[w].phase = "read" /\ tx[w].call \in Calls
    BY <1>2, HandleApplies, ActiveTx
  <2>2. DbTypeOK' /\ KafkaTypeOK' /\ LoopTypeOK' /\ moves' \in Nat
    BY <1>2, <2>1, HandleApplies, ApplyTypes
  <2>3. RedisTypeOK' /\ faults' \in Nat
    BY <1>2, <2>1, HandleApplies, RedisTypes
  <2>4. QED
    BY <2>2, <2>3 DEF TypeOK, BudgetTypeOK
<1>3. QED
  BY <1>1, <1>2

\* The row a commit writes is a row again, column by column.
LEMMA RowAfterType ==
  ASSUME TypeOK, NEW w \in Workers, tx[w].phase # "idle"
  PROVE  RowAfter(w) \in Rows
<1> DEFINE r == row[tx[w].call]
           m == InHand(w)
           seen == tx[w].seen
<1>1. r \in Rows /\ seen \in Rows /\ m \in Messages /\ tx[w].verdict \in Qualifications
  BY ActiveTx DEF TypeOK, DbTypeOK
<1>2. NewRow(m) \in Rows
  BY ZenonT(60), <1>1 DEF NoRow, NewRow, Rows, Messages, CallStatuses, Qualifications,
       QualificationStatuses, Reasons
<1>3. ASSUME NEW a \in Qualifications, NEW b \in Qualifications, NEW c \in Qualifications
      PROVE  Requalified(a, b, c) \in Qualifications
  BY DEF Requalified, Column, Qualifications
<1>4. [r EXCEPT !.qualification =
         Requalified(seen.qualification, tx[w].verdict, @)] \in Rows
  BY <1>1, <1>3 DEF Rows
<1>5. ClosedRow(r, seen, m) \in Rows
  <2> DEFINE proposes == m.disposition # Null /\ m.disposition # seen.disposition
             st == m.status
             en == IF seen.endedAt = 0 \/ m.ts > seen.endedAt THEN m.ts ELSE r.endedAt
             di == IF proposes THEN m.disposition ELSE r.disposition
             qu == IF proposes /\ m.disposition \in Decisive
                   THEN Requalified(seen.qualification,
                                    QualificationResult(m.disposition), r.qualification)
                   ELSE r.qualification
             vi == IF proposes /\ m.disposition \in DOMAIN VicidialMap
                   THEN Column(seen.vicidial, VicidialMap[m.disposition], r.vicidial)
                   ELSE r.vicidial
  <2>1. st \in CallStatuses \cup {"absent"} /\ en \in Nat
    BY <1>1 DEF Rows, Messages, CallStatuses
  <2>2. di \in Dispositions \cup {Null}
    BY <1>1 DEF Rows, Messages
  <2>3. qu \in Qualifications
    <3>1. CASE proposes /\ m.disposition \in Decisive
      <4>1. QualificationResult(m.disposition) \in Qualifications
        BY <3>1, PolicyTypes
      <4>2. QED
        BY <3>1, <4>1, <1>1, <1>3 DEF Rows
    <3>2. CASE ~(proposes /\ m.disposition \in Decisive)
      BY <3>2, <1>1 DEF Rows
    <3>3. QED
      BY <3>1, <3>2
  <2>4. vi \in VicidialStatuses \cup {Null}
    BY <1>1, PolicyTypes DEF Rows, Column
  <2>5. QED
    BY <1>1, <2>1, <2>2, <2>3, <2>4 DEF ClosedRow, Rows
<1>6. QED
  BY <1>1, <1>2, <1>4, <1>5 DEF RowAfter

\* A commit keeps the types.
LEMMA CommitTypes ==
  ASSUME TypeOK, NEW w \in Workers, Commit(w)
  PROVE  TypeOK'
<1>1. /\ tx[w].call \in Calls /\ tx[w].topic \in Topics /\ tx[w].seq \in Nat
      /\ tx[w].fresh \in BOOLEAN /\ InHand(w) \in Messages
  BY ActiveTx DEF Commit
<1>2. row' \in [Calls -> Rows]
  BY RowAfterType DEF Commit, TypeOK, DbTypeOK
<1>3. events' \subseteq Calls \X EventIds
  BY <1>1 DEF Commit, TypeOK, DbTypeOK, Key, Messages
<1>4. NumberedRow(w) \in Numbered
  BY <1>1 DEF NumberedRow, Numbered, Messages
<1>5. turns' \subseteq Numbered /\ nodes' \subseteq Numbered
  BY <1>4 DEF Commit, TypeOK, DbTypeOK, NewTurns, NewNodes
<1>6. fields' \subseteq Captured
  BY <1>1 DEF Commit, TypeOK, DbTypeOK, NewFields, Captured, Messages
<1>7. outbox' \subseteq Announced
  BY <1>1 DEF Commit, TypeOK, DbTypeOK, NewOutbox, Announced, Messages, CallStatuses
<1>8. LoopTypeOK'
  <2>1. /\ todo' \in [Workers -> [Topics -> SUBSET Nat]]
        /\ part' \in [Workers -> Topics \cup {NoTopic}]
        /\ tx' \in [Workers -> Transactions]
    BY <1>1 DEF Commit, TypeOK, LoopTypeOK, Transactions
  <2>2. ASSUME NEW v \in Workers, NEW t \in Topics
        PROVE  todo'[v][t] \subseteq DOMAIN log'[t]
    BY <1>1 DEF Commit, TypeOK, LoopTypeOK, kafka
  <2>3. ASSUME NEW v \in Workers, tx'[v].phase # "idle"
        PROVE  tx'[v].off \in DOMAIN log'[tx'[v].topic]
    <3>1. v # w /\ tx'[v] = tx[v]
      BY <2>3 DEF Commit, TypeOK, LoopTypeOK, NoTx
    <3>2. QED
      BY <2>3, <3>1 DEF Commit, TypeOK, LoopTypeOK, kafka
  <2>4. QED
    BY <2>1, <2>2, <2>3 DEF LoopTypeOK
<1>9. QED
  BY <1>2, <1>3, <1>5, <1>6, <1>7, <1>8 DEF Commit, TypeOK, DbTypeOK, RedisTypeOK,
       KafkaTypeOK, BudgetTypeOK, redis, kafka, budget

\* A poll only takes offsets the log has.
LEMMA PollTypes ==
  ASSUME TypeOK, NEW w \in Workers, Poll(w)
  PROVE  TypeOK'
<1>1. PICK batch \in SUBSET Available(w) :
        /\ todo' = [todo EXCEPT ![w] = [t \in Topics |-> OffsetsOf(batch, t)]]
        /\ position' = [position EXCEPT ![w] =
             [t \in Topics |-> @[t] + Cardinality(OffsetsOf(batch, t))]]
  BY DEF Poll
<1>2. ASSUME NEW t \in Topics
      PROVE  /\ OffsetsOf(batch, t) \subseteq (position[w][t] + 1)..Len(log[t])
             /\ Len(log[t]) \in Nat /\ DOMAIN log[t] = 1..Len(log[t])
             /\ position[w][t] \in Nat
  <2>1. log[t] \in Seq(Messages) /\ position[w][t] \in Nat
    BY DEF TypeOK, KafkaTypeOK
  <2>2. ASSUME NEW b \in batch, b[1] = t
        PROVE  b[2] \in (position[w][t] + 1)..Len(log[t])
    BY <2>2 DEF Available
  <2>3. QED
    BY <2>1, <2>2 DEF OffsetsOf
<1>3. ASSUME NEW t \in Topics
      PROVE  Cardinality(OffsetsOf(batch, t)) \in Nat
  <2>1. IsFiniteSet((position[w][t] + 1)..Len(log[t]))
    BY <1>2, FS_Interval, position[w][t] + 1 \in Int, Len(log[t]) \in Int
  <2>2. IsFiniteSet(OffsetsOf(batch, t))
    BY <1>2, <2>1, FS_Subset
  <2>3. QED
    BY <2>2, FS_CardinalityType
<1>4. position' \in [Workers -> [Topics -> Nat]]
  BY <1>1, <1>2, <1>3 DEF TypeOK, KafkaTypeOK
<1>5. ASSUME NEW t \in Topics
      PROVE  OffsetsOf(batch, t) \subseteq DOMAIN log[t] /\ OffsetsOf(batch, t) \subseteq Nat
  BY <1>2
<1>6. todo' \in [Workers -> [Topics -> SUBSET Nat]]
  BY <1>1, <1>5 DEF TypeOK, LoopTypeOK
<1>7. \A v \in Workers, t \in Topics : todo'[v][t] \subseteq DOMAIN log[t]
  BY <1>1, <1>5 DEF TypeOK, LoopTypeOK
<1>8. QED
  BY <1>4, <1>6, <1>7 DEF Poll, TypeOK, DbTypeOK, RedisTypeOK, KafkaTypeOK, LoopTypeOK,
       BudgetTypeOK, db, redis, budget

\* The transaction a message opens is one of Transactions.
LEMMA ReceiveTypes ==
  ASSUME TypeOK, NEW w \in Workers, Receive(w)
  PROVE  TypeOK'
<1>1. PICK t \in Topics : \E o \in todo[w][t] : \E c \in Calls :
        /\ tx' = [tx EXCEPT ![w] = ReadTx(t, o, c)]
        /\ part' = [part EXCEPT ![w] = t]
  BY ZenonT(60) DEF Receive, ReadTx
<1>2. PICK o \in todo[w][t] : \E c \in Calls :
        /\ tx' = [tx EXCEPT ![w] = ReadTx(t, o, c)]
        /\ part' = [part EXCEPT ![w] = t]
  BY <1>1
<1>3. PICK c \in Calls : /\ tx' = [tx EXCEPT ![w] = ReadTx(t, o, c)]
                         /\ part' = [part EXCEPT ![w] = t]
  BY <1>2
<1>4. o \in Nat /\ o \in DOMAIN log[t]
  BY DEF TypeOK, LoopTypeOK
<1>5. NoRow \in Rows /\ NoRow.qualification \in Qualifications
  BY DEF NoRow, Rows, Qualifications, QualificationStatuses, Reasons
<1>6. tx'[w] \in [phase: {"read", "applied"}, topic: Topics, off: Nat, call: Calls,
                  seen: Rows, fresh: BOOLEAN, seq: Nat, verdict: Qualifications]
  BY <1>3, <1>4, <1>5 DEF ReadTx, TypeOK, DbTypeOK, LoopTypeOK
<1>7. tx' \in [Workers -> Transactions]
  BY <1>3, <1>6 DEF TypeOK, LoopTypeOK, Transactions
<1>8. ASSUME NEW v \in Workers, tx'[v].phase # "idle"
      PROVE  tx'[v].off \in DOMAIN log'[tx'[v].topic]
  BY <1>3, <1>4, <1>8 DEF ReadTx, Receive, TypeOK, LoopTypeOK, kafka
<1>9. LoopTypeOK'
  BY <1>3, <1>7, <1>8 DEF Receive, TypeOK, LoopTypeOK, kafka
<1>10. QED
  BY <1>9 DEF Receive, TypeOK, DbTypeOK, RedisTypeOK, KafkaTypeOK, BudgetTypeOK,
       db, redis, kafka, budget

\* The actions that drop the batch in hand.
LEMMA DropTypes ==
  ASSUME TypeOK, NEW w \in Workers, RefuseMessage(w) \/ Abort(w) \/ Crash(w)
  PROVE  TypeOK'
<1>1. DropBatch(w) /\ log' = log
  BY DEF RefuseMessage, Abort, Crash, kafka
<1>2. LoopTypeOK'
  BY <1>1, DropBatchTypes
<1>3. CASE RefuseMessage(w) \/ Abort(w)
  BY <1>2, <1>3 DEF RefuseMessage, Abort, TypeOK, DbTypeOK, RedisTypeOK, KafkaTypeOK,
       BudgetTypeOK, db, redis, kafka, budget
<1>4. CASE Crash(w)
  BY <1>2, <1>4 DEF Crash, TypeOK, DbTypeOK, RedisTypeOK, KafkaTypeOK, BudgetTypeOK,
       db, redis
<1>5. QED
  BY <1>3, <1>4

\* The start of the system is well typed.
LEMMA InitTypes == Init => TypeOK
<1> SUFFICES ASSUME Init PROVE TypeOK
  OBVIOUS
<1>1. NoRow \in Rows /\ NoSnapshot \in Snapshots
  BY DEF NoRow, Rows, NoSnapshot, Snapshots, Qualifications, QualificationStatuses, Reasons
<1>2. DbTypeOK /\ RedisTypeOK
  BY <1>1 DEF Init, DbTypeOK, RedisTypeOK
<1>3. KafkaTypeOK /\ BudgetTypeOK
  BY LogAssumption DEF Init, KafkaTypeOK, BudgetTypeOK
<1>4. LoopTypeOK
  BY DEF Init, LoopTypeOK, Transactions, NoTx
<1>5. QED
  BY <1>2, <1>3, <1>4 DEF TypeOK

\* So is every step, one action at a time.
LEMMA NextTypes == TypeOK /\ [Next]_vars => TypeOK'
<1> SUFFICES ASSUME TypeOK, [Next]_vars PROVE TypeOK'
  OBVIOUS
<1>1. ASSUME NEW w \in Workers, Poll(w) PROVE TypeOK'
  BY <1>1, PollTypes
<1>2. ASSUME NEW w \in Workers, SkipPoison(w) PROVE TypeOK'
  BY <1>2 DEF SkipPoison, TypeOK, DbTypeOK, RedisTypeOK, KafkaTypeOK, LoopTypeOK,
       BudgetTypeOK, db, redis, kafka, budget
<1>3. ASSUME NEW w \in Workers, Receive(w) PROVE TypeOK'
  BY <1>3, ReceiveTypes
<1>4. ASSUME NEW w \in Workers, RefuseMessage(w) \/ Abort(w) \/ Crash(w) PROVE TypeOK'
  BY <1>4, DropTypes
<1>5. ASSUME NEW w \in Workers, Handle(w) PROVE TypeOK'
  BY <1>5, HandleTypes
<1>6. ASSUME NEW w \in Workers, Commit(w) PROVE TypeOK'
  BY <1>6, CommitTypes
<1>7. ASSUME NEW w \in Workers, CommitOffsets(w) PROVE TypeOK'
  BY <1>7 DEF CommitOffsets, TypeOK, DbTypeOK, RedisTypeOK, KafkaTypeOK, LoopTypeOK,
       BudgetTypeOK, db, redis, budget
<1>8. ASSUME NEW t \in Topics, NEW w \in Workers, Rebalance(t, w) PROVE TypeOK'
  BY <1>8 DEF Rebalance, TypeOK, DbTypeOK, RedisTypeOK, KafkaTypeOK, LoopTypeOK,
       BudgetTypeOK, db, redis, loop
<1>9. CASE UNCHANGED vars
  BY <1>9 DEF vars, TypeOK, DbTypeOK, RedisTypeOK, KafkaTypeOK, LoopTypeOK,
       BudgetTypeOK, db, redis, kafka, loop, budget
<1>10. QED
  BY <1>1, <1>2, <1>3, <1>4, <1>5, <1>6, <1>7, <1>8, <1>9 DEF Next, Work

\* Every variable of the worker keeps its type, and no worker ever holds an
\* offset the log does not have.
THEOREM TypeCorrect == Spec => []TypeOK
BY InitTypes, NextTypes, PTL DEF Spec

-----------------------------------------------------------------------------
(* At most once, and never an orphan: for any number of workers.             *)
(*                                                                         *)
(* A commit adds rows only under the key of its own event, so EffectsOnce   *)
(* and NoOrphans hold as long as that key is new and its call is there: that *)
(* is what UncommittedKeys and Attached say of every open transaction.  The *)
(* call is there in any case; that the key is new rests on the unique index. *)

Rooted == NoOrphans /\ Attached
Keyed == EffectsOnce /\ UncommittedKeys
Safe == Rooted /\ Keyed

\* Two open transactions that hold one event meet in the unique index.
IndexTells ==
  \A v, w \in Workers :
    v # w /\ tx[v].phase # "idle" /\ tx[w].phase # "idle" /\ Key(v) = Key(w)
      => SameIndexKey(v, w)

\* Under the migrated index: an event id comes with one time, and with a time.
EventTimesTold ==
  Migrated =>
    \A l \in Logs : \A t, u \in Topics : \A o \in DOMAIN l[t], p \in DOMAIN l[u] :
      l[t][o].usable /\ l[u][p].usable /\ l[t][o].id = l[u][p].id =>
        l[t][o].stamped /\ l[u][p].stamped /\ l[t][o].ts = l[u][p].ts

OneWorker == \E w : Workers = {w}

\* No transaction is opened for a message that is skipped as poison.
Taken == \A w \in Workers : tx[w].phase # "idle" => InHand(w).usable

\* What a step does to the tables and to the transactions, whichever it is.
LEMMA StepShapes ==
  ASSUME TypeOK, [Next]_vars
  PROVE  /\ log' = log
         /\ \/ UNCHANGED <<db, tx>>
            \/ \E w \in Workers :
                 \/ UNCHANGED db /\ tx' = [tx EXCEPT ![w] = NoTx]
                 \/ Receive(w)
                 \/ Handle(w) /\ ~OpenConflict(w)
                 \/ Commit(w)
<1>1. ASSUME NEW w \in Workers, Poll(w) \/ SkipPoison(w) \/ CommitOffsets(w)
      PROVE  log' = log /\ UNCHANGED <<db, tx>>
  BY <1>1 DEF Poll, SkipPoison, CommitOffsets, kafka
<1>2. ASSUME NEW w \in Workers, Receive(w)
      PROVE  log' = log
  BY <1>2 DEF Receive, kafka
<1>3. ASSUME NEW w \in Workers, RefuseMessage(w) \/ Abort(w) \/ Crash(w) \/ OpenConflict(w)
      PROVE  log' = log /\ UNCHANGED db /\ tx' = [tx EXCEPT ![w] = NoTx]
  BY <1>3 DEF RefuseMessage, Abort, Crash, OpenConflict, DropBatch, kafka
<1>4. ASSUME NEW w \in Workers, Handle(w), ~OpenConflict(w)
      PROVE  log' = log
  BY <1>4, HandleApplies DEF Apply, kafka
<1>5. ASSUME NEW w \in Workers, Commit(w)
      PROVE  log' = log
  BY <1>5 DEF Commit, kafka
<1>6. ASSUME NEW t \in Topics, NEW w \in Workers, Rebalance(t, w)
      PROVE  log' = log /\ UNCHANGED <<db, tx>>
  BY <1>6 DEF Rebalance
<1>7. CASE UNCHANGED vars
  BY <1>7 DEF vars, kafka
<1>8. QED
  BY <1>1, <1>2, <1>3, <1>4, <1>5, <1>6, <1>7 DEF Next, Work

\* The message in hand stays in hand, except for the worker w.
LEMMA TakenKept ==
  ASSUME TypeOK, Taken, NEW w \in Workers, log' = log,
         \A v \in Workers \ {w} : tx'[v] = tx[v],
         tx'[w].phase # "idle" => InHand(w)'.usable
  PROVE  Taken'
BY DEF Taken, InHand

\* Only a usable message is ever in hand.
LEMMA TakenNext ==
  ASSUME TypeOK, Taken, [Next]_vars
  PROVE  Taken'
<1>1. log' = log
  BY StepShapes
<1>2. CASE UNCHANGED <<db, tx>>
  BY <1>1, <1>2 DEF Taken, InHand
<1>3. ASSUME NEW w \in Workers, tx' = [tx EXCEPT ![w] = NoTx]
      PROVE  Taken'
  <2>1. /\ \A v \in Workers \ {w} : tx'[v] = tx[v]
        /\ tx'[w].phase = "idle"
    BY <1>3 DEF TypeOK, LoopTypeOK, NoTx
  <2>2. QED
    BY <1>1, <2>1, TakenKept
<1>4. ASSUME NEW w \in Workers, Receive(w)
      PROVE  Taken'
  <2>1. PICK t \in Topics : \E o \in todo[w][t] :
          /\ log[t][o].usable
          /\ \E c \in Calls : tx' = [tx EXCEPT ![w] = ReadTx(t, o, c)]
    BY <1>4 DEF Receive
  <2>2. PICK o \in todo[w][t] :
          /\ log[t][o].usable
          /\ \E c \in Calls : tx' = [tx EXCEPT ![w] = ReadTx(t, o, c)]
    BY <2>1
  <2>3. PICK c \in Calls : tx' = [tx EXCEPT ![w] = ReadTx(t, o, c)]
    BY <2>2
  <2>4. /\ \A v \in Workers \ {w} : tx'[v] = tx[v]
        /\ tx'[w].topic = t /\ tx'[w].off = o
    BY <2>3 DEF TypeOK, LoopTypeOK, ReadTx
  <2>5. InHand(w)'.usable
    BY <1>1, <2>2, <2>4 DEF InHand
  <2>6. QED
    BY <1>1, <2>4, <2>5, TakenKept
<1>5. ASSUME NEW w \in Workers, Handle(w), ~OpenConflict(w)
      PROVE  Taken'
  <2>1. PICK fresh \in BOOLEAN, seq \in Nat, q \in Qualifications : Apply(w, fresh, seq, q)
    BY <1>5, HandleApplies
  <2>2. tx[w].phase = "read"
    BY <1>5, HandleApplies
  <2>3. /\ \A v \in Workers \ {w} : tx'[v] = tx[v]
        /\ tx'[w].topic = tx[w].topic /\ tx'[w].off = tx[w].off
    BY <2>1, <2>2, ActiveTx DEF TypeOK, LoopTypeOK, Apply
  <2>4. InHand(w)'.usable
    BY <1>1, <2>2, <2>3 DEF InHand, Taken
  <2>5. QED
    BY <1>1, <2>3, <2>4, TakenKept
<1>6. ASSUME NEW w \in Workers, Commit(w)
      PROVE  Taken'
  <2>1. /\ \A v \in Workers \ {w} : tx'[v] = tx[v]
        /\ tx'[w].phase = "idle"
    BY <1>6 DEF Commit, TypeOK, LoopTypeOK, NoTx
  <2>2. QED
    BY <1>1, <2>1, TakenKept
<1>7. QED
  BY <1>2, <1>3, <1>4, <1>5, <1>6, StepShapes

\* A step that writes no row keeps what is said of the tables.
LEMMA RowsKept ==
  ASSUME UNCHANGED db
  PROVE  (EffectsOnce => EffectsOnce') /\ (NoOrphans => NoOrphans')
BY DEF EffectsOnce, NoOrphans, Present, db

\* Ending a transaction without a commit frees its key.
LEMMA DropSafe ==
  ASSUME TypeOK, NEW w \in Workers, UNCHANGED <<db, log>>,
         tx' = [tx EXCEPT ![w] = NoTx]
  PROVE  (Rooted => Rooted') /\ (Keyed => Keyed')
<1>1. NoTx.phase = "idle" /\ tx'[w] = NoTx
  BY DEF NoTx, TypeOK, LoopTypeOK
<1>2. ASSUME NEW v \in Workers, v # w
      PROVE  tx'[v] = tx[v] /\ Key(v)' = Key(v) /\ (Opens(v)' <=> Opens(v))
  BY <1>2 DEF TypeOK, LoopTypeOK, Key, InHand, Opens
<1>3. UncommittedKeys => UncommittedKeys'
  BY <1>1, <1>2 DEF UncommittedKeys, db
<1>4. Attached => Attached'
  BY <1>1, <1>2 DEF Attached, Present, db
<1>5. QED
  BY <1>3, <1>4, RowsKept DEF Rooted, Keyed

\* Every transaction goes on under the key it had, and the row it needs stays.
LEMMA QuietSafe ==
  ASSUME UNCHANGED <<db, log, tx>>
  PROVE  (Rooted => Rooted') /\ (Keyed => Keyed')
BY RowsKept DEF Rooted, Keyed, UncommittedKeys, Attached, Key, InHand, Opens, Present, db

\* A transaction begins with nothing fresh, on a call it found or will insert.
LEMMA ReceiveSafe ==
  ASSUME TypeOK, NEW w \in Workers, Receive(w)
  PROVE  (Rooted => Rooted') /\ (Keyed => Keyed')
<1>1. PICK t \in Topics : \E o \in todo[w][t] : \E c \in Calls :
        /\ Matches(t, log[t][o]) = {c} \/ t = "opened"
        /\ tx' = [tx EXCEPT ![w] = ReadTx(t, o, c)]
  BY DEF Receive
<1>2. PICK o \in todo[w][t] : \E c \in Calls :
        /\ Matches(t, log[t][o]) = {c} \/ t = "opened"
        /\ tx' = [tx EXCEPT ![w] = ReadTx(t, o, c)]
  BY <1>1
<1>3. PICK c \in Calls :
        /\ Matches(t, log[t][o]) = {c} \/ t = "opened"
        /\ tx' = [tx EXCEPT ![w] = ReadTx(t, o, c)]
  BY <1>2
<1>4. UNCHANGED <<db, log>>
  BY DEF Receive, kafka
<1>5. ASSUME NEW v \in Workers, v # w
      PROVE  tx'[v] = tx[v] /\ Key(v)' = Key(v) /\ (Opens(v)' <=> Opens(v))
  BY <1>3, <1>4, <1>5 DEF TypeOK, LoopTypeOK, Key, InHand, Opens
<1>6. tx'[w] = ReadTx(t, o, c)
  BY <1>3 DEF TypeOK, LoopTypeOK
<1>7. UncommittedKeys => UncommittedKeys'
  BY <1>4, <1>5, <1>6 DEF UncommittedKeys, ReadTx, db
<1>8. ASSUME ~Opens(w)' PROVE Present(c)
  <2>1. c \in Matches(t, log[t][o])
    BY <1>3, <1>6, <1>8 DEF Opens, ReadTx, NoRow
  <2>2. QED
    BY <2>1 DEF Matches, ByChannel
<1>9. Attached => Attached'
  BY <1>4, <1>5, <1>6, <1>8 DEF Attached, Present, ReadTx, db
<1>10. QED
  BY <1>4, <1>7, <1>9, RowsKept DEF Rooted, Keyed

\* What a handler claims as fresh is a key nobody has, if the index can tell.
LEMMA HandleSafe ==
  ASSUME TypeOK, NEW w \in Workers, Handle(w)
  PROVE  (Rooted => Rooted') /\ (Keyed /\ IndexTells => Keyed')
<1>1. CASE OpenConflict(w)
  BY <1>1, DropSafe DEF OpenConflict, DropBatch, kafka
<1>2. CASE ~OpenConflict(w)
  <2>1. PICK fresh \in BOOLEAN, seq \in Nat, q \in Qualifications :
          Apply(w, fresh, seq, q) /\ (fresh => ~EventKeyHeld(w) /\ ~IsDuplicate(w))
    BY <1>2, HandleApplies
  <2>2. UNCHANGED <<db, log>>
    BY <2>1 DEF Apply, kafka
  <2>3. tx[w].phase = "read"
    BY <1>2, HandleApplies
  <2>4. /\ tx'[w].call = tx[w].call /\ tx'[w].fresh = fresh
        /\ tx'[w].topic = tx[w].topic /\ tx'[w].off = tx[w].off
        /\ tx'[w].seen = tx[w].seen
    BY <2>1, <2>3, ActiveTx DEF Apply, TypeOK, LoopTypeOK
  <2>5. ASSUME NEW v \in Workers, v # w PROVE tx'[v] = tx[v]
    BY <2>1, <2>5 DEF Apply, TypeOK, LoopTypeOK
  <2>6. ASSUME NEW v \in Workers
        PROVE  Key(v)' = Key(v) /\ (Opens(v)' <=> Opens(v)) /\ tx'[v].call = tx[v].call
    BY <2>2, <2>4, <2>5 DEF Key, InHand, Opens
  <2>7. ASSUME IndexTells, fresh, NEW v \in Workers, v # w,
               tx[v].phase = "applied", tx[v].fresh
        PROVE  Key(v) # Key(w)
    <3>1. ~EventKeyHeld(w)
      BY <2>1, <2>7
    <3>2. ~SameIndexKey(v, w)
      BY <2>7, <3>1 DEF EventKeyHeld
    <3>3. QED
      BY <2>3, <2>7, <3>2 DEF IndexTells
  <2>8. UncommittedKeys /\ IndexTells => UncommittedKeys'
    <3> SUFFICES ASSUME UncommittedKeys, IndexTells, NEW u \in Workers,
                        (tx[u].phase = "applied" /\ tx[u].fresh)'
                 PROVE  /\ Key(u)' \notin events'
                        /\ \A v \in Workers \ {u} :
                             (tx[v].phase = "applied" /\ tx[v].fresh)' => Key(v)' # Key(u)'
      BY DEF UncommittedKeys
    <3>1. events' = events
      BY <2>2 DEF db
    <3>2. CASE u = w
      <4>1. fresh /\ Key(w) \notin events
        BY <2>1, <2>4, <3>2 DEF IsDuplicate
      <4>2. QED
        BY <2>5, <2>6, <2>7, <3>1, <3>2, <4>1
    <3>3. CASE u # w
      <4>1. tx[u].phase = "applied" /\ tx[u].fresh
        BY <2>5, <3>3
      <4>2. Key(u) \notin events
        BY <4>1 DEF UncommittedKeys
      <4>3. ASSUME NEW v \in Workers \ {u}, (tx[v].phase = "applied" /\ tx[v].fresh)'
            PROVE  Key(v) # Key(u)
        <5>1. CASE v = w
          BY <2>4, <2>7, <3>3, <4>1, <4>3, <5>1
        <5>2. CASE v # w
          BY <2>5, <4>1, <4>3, <5>2 DEF UncommittedKeys
        <5>3. QED
          BY <5>1, <5>2
      <4>4. QED
        BY <2>6, <3>1, <4>2, <4>3
    <3>4. QED
      BY <3>2, <3>3
  <2>9. Attached => Attached'
    BY <2>2, <2>3, <2>5, <2>6 DEF Attached, Present, db
  <2>10. QED
    BY <2>2, <2>8, <2>9, RowsKept DEF Rooted, Keyed
<1>3. QED
  BY <1>1, <1>2

\* Adding at most one row, under a key that is new, keeps a table's rows unique.
LEMMA TableGrows ==
  ASSUME NEW T, NEW E, NEW k,
         \A r \in T : <<r.call, r.id>> \in E,
         \A r, q \in T : r.call = q.call /\ r.id = q.id => r = q,
         NEW N, \A r, q \in N : r = q,
         \A r \in N : <<r.call, r.id>> = k,
         N # {} => k \notin E
  PROVE  /\ \A r \in T \cup N : <<r.call, r.id>> \in E \cup {k}
         /\ \A r, q \in T \cup N : r.call = q.call /\ r.id = q.id => r = q
OBVIOUS

\* A commit leaves its call in the registry and takes no other away.
LEMMA CommitKeepsCalls ==
  ASSUME TypeOK, Rooted, NEW w \in Workers, Commit(w)
  PROVE  /\ row'[tx[w].call].status # "absent"
         /\ \A c \in Calls : Present(c) => Present(c)'
<1>1. /\ tx[w].call \in Calls /\ InHand(w) \in Messages
      /\ tx[w].phase # "idle"
  BY ActiveTx DEF Commit
<1>2. RowAfter(w).status # "absent"
  <2>1. CASE Opens(w)
    BY <2>1 DEF RowAfter, NewRow, NoRow
  <2>2. CASE ~Opens(w)
    <3>1. row[tx[w].call].status # "absent" /\ row[tx[w].call] \in Rows
      BY <1>1, <2>2 DEF Rooted, Attached, Present, TypeOK, DbTypeOK
    <3>2. CASE Closes(w)
      BY <1>1, <2>2, <3>2 DEF RowAfter, ClosedRow, Messages
    <3>3. CASE ~Closes(w)
      BY <2>2, <3>1, <3>3 DEF RowAfter, Rows
    <3>4. QED
      BY <3>2, <3>3
  <2>3. QED
    BY <2>1, <2>2
<1>3. row' = [row EXCEPT ![tx[w].call] = RowAfter(w)]
  BY DEF Commit
<1>4. row'[tx[w].call] = RowAfter(w)
  BY <1>1, <1>3 DEF TypeOK, DbTypeOK
<1>5. ASSUME NEW c \in Calls, Present(c) PROVE Present(c)'
  BY <1>2, <1>3, <1>5 DEF Present, TypeOK, DbTypeOK
<1>6. QED
  BY <1>2, <1>4, <1>5

\* What the four tables gain carries the key of the message, and one row each.
LEMMA NewRowsKeyed ==
  ASSUME NEW w \in Workers,
         NEW N \in {NewTurns(w), NewNodes(w), NewFields(w), NewOutbox(w)}
  PROVE  /\ \A r, q \in N : r = q
         /\ \A r \in N : <<r.call, r.id>> = Key(w) /\ r.call = tx[w].call
         /\ N # {} => tx[w].fresh
BY DEF NewTurns, NewNodes, NewFields, NewOutbox, NumberedRow, Key, Closes

\* A commit adds rows under its own event, which is recorded with them.
LEMMA CommitKeyed ==
  ASSUME TypeOK, Keyed, NEW w \in Workers, Commit(w)
  PROVE  Keyed'
<1>1. /\ tx[w].phase = "applied" /\ tx[w].call \in Calls /\ log' = log
      /\ tx[w].fresh \in BOOLEAN /\ InHand(w) \in Messages
  BY ActiveTx DEF Commit, kafka
<1>2. tx[w].fresh => Key(w) \notin events
  BY <1>1 DEF Keyed, UncommittedKeys
<1>3. events \subseteq events' /\ (tx[w].fresh => events' = events \cup {Key(w)})
  BY DEF Commit
<1>4. ASSUME NEW T \in {turns, nodes, fields, outbox},
             NEW N \in {NewTurns(w), NewNodes(w), NewFields(w), NewOutbox(w)}
      PROVE  /\ \A r \in T \cup N : <<r.call, r.id>> \in events'
             /\ \A r, q \in T \cup N : r.call = q.call /\ r.id = q.id => r = q
  <2>1. /\ \A r \in T : <<r.call, r.id>> \in events
        /\ \A r, q \in T : r.call = q.call /\ r.id = q.id => r = q
    BY DEF Keyed, EffectsOnce
  <2>2. /\ \A r, q \in N : r = q
        /\ \A r \in N : <<r.call, r.id>> = Key(w)
        /\ N # {} => tx[w].fresh
    BY NewRowsKeyed
  <2>3. N # {} => Key(w) \notin events
    BY <1>2, <2>2
  <2>4. /\ \A r \in T \cup N : <<r.call, r.id>> \in events \cup {Key(w)}
        /\ \A r, q \in T \cup N : r.call = q.call /\ r.id = q.id => r = q
    BY <2>1, <2>2, <2>3, TableGrows
  <2>5. QED
    BY <1>3, <2>1, <2>2, <2>4
<1>5. /\ turns' = turns \cup NewTurns(w) /\ nodes' = nodes \cup NewNodes(w)
      /\ fields' = fields \cup NewFields(w) /\ outbox' = outbox \cup NewOutbox(w)
  BY DEF Commit
<1>6. EffectsOnce'
  BY <1>4, <1>5 DEF EffectsOnce
<1>7. ASSUME NEW v \in Workers, v # w
      PROVE  tx'[v] = tx[v] /\ Key(v)' = Key(v)
  BY <1>1, <1>7 DEF Commit, TypeOK, LoopTypeOK, Key, InHand
<1>8. tx'[w].phase = "idle"
  BY DEF Commit, NoTx, TypeOK, LoopTypeOK
<1>9. UncommittedKeys'
  <2> SUFFICES ASSUME NEW v \in Workers, (tx[v].phase = "applied" /\ tx[v].fresh)'
               PROVE  /\ Key(v)' \notin events'
                      /\ \A u \in Workers \ {v} :
                           (tx[u].phase = "applied" /\ tx[u].fresh)' => Key(u)' # Key(v)'
    BY DEF UncommittedKeys
  <2>1. v # w /\ tx[v].phase = "applied" /\ tx[v].fresh
    BY <1>7, <1>8
  <2>2. Key(v) \notin events /\ (tx[w].fresh => Key(w) # Key(v))
    BY <1>1, <2>1 DEF Keyed, UncommittedKeys
  <2>3. Key(v)' \notin events'
    BY <1>7, <2>1, <2>2 DEF Commit
  <2>4. QED
    BY <1>7, <1>8, <2>1, <2>3 DEF Keyed, UncommittedKeys
<1>10. QED
  BY <1>6, <1>9 DEF Keyed

\* A commit adds rows of a call that is there, and takes no call away.
LEMMA CommitRooted ==
  ASSUME TypeOK, Rooted, NEW w \in Workers, Commit(w)
  PROVE  Rooted'
<1>1. ASSUME NEW T \in {turns, nodes, fields, outbox},
             NEW N \in {NewTurns(w), NewNodes(w), NewFields(w), NewOutbox(w)}
      PROVE  \A r \in T \cup N : row'[r.call].status # "absent"
  <2>1. \A r \in T : Present(r.call) /\ r.call \in Calls
    BY DEF Rooted, NoOrphans, TypeOK, DbTypeOK, Numbered, Captured, Announced
  <2>2. \A r \in N : r.call = tx[w].call
    BY NewRowsKeyed
  <2>3. QED
    BY <2>1, <2>2, CommitKeepsCalls DEF Present
<1>2. /\ turns' = turns \cup NewTurns(w) /\ nodes' = nodes \cup NewNodes(w)
      /\ fields' = fields \cup NewFields(w) /\ outbox' = outbox \cup NewOutbox(w)
      /\ events' \subseteq events \cup {Key(w)}
  BY DEF Commit
<1>3. \A e \in events' : row'[e[1]].status # "absent"
  <2>1. \A e \in events : e[1] \in Calls /\ Present(e[1])
    BY DEF Rooted, NoOrphans, TypeOK, DbTypeOK
  <2>2. Key(w)[1] = tx[w].call
    BY DEF Key
  <2>3. QED
    BY <1>2, <2>1, <2>2, CommitKeepsCalls DEF Present
<1>4. NoOrphans'
  BY <1>1, <1>2, <1>3 DEF NoOrphans, Present
<1>5. ASSUME NEW v \in Workers, v # w
      PROVE  tx'[v] = tx[v] /\ (Opens(v)' <=> Opens(v))
  BY <1>5 DEF Commit, TypeOK, LoopTypeOK, Opens
<1>6. tx'[w].phase = "idle"
  BY DEF Commit, NoTx, TypeOK, LoopTypeOK
<1>7. Attached'
  <2> SUFFICES ASSUME NEW v \in Workers, (tx[v].phase # "idle" /\ ~Opens(v))'
               PROVE  row'[tx'[v].call].status # "absent"
    BY DEF Attached, Present
  <2>1. v # w /\ tx[v].phase # "idle" /\ ~Opens(v)
    BY <1>5, <1>6
  <2>2. Present(tx[v].call) /\ tx[v].call \in Calls
    BY <2>1, ActiveTx DEF Rooted, Attached
  <2>3. QED
    BY <1>5, <2>1, <2>2, CommitKeepsCalls DEF Present
<1>8. QED
  BY <1>4, <1>7 DEF Rooted

\* There is nothing to duplicate or to orphan at the start.
LEMMA InitSafe == Init => Safe
BY DEF Init, Safe, Rooted, Keyed, EffectsOnce, NoOrphans, UncommittedKeys, Attached, NoTx

\* Both are kept by every step, one action at a time.
LEMMA NextSafe ==
  ASSUME TypeOK, [Next]_vars
  PROVE  (Rooted => Rooted') /\ (Keyed /\ IndexTells => Keyed')
<1> DEFINE Kept == (Rooted => Rooted') /\ (Keyed /\ IndexTells => Keyed')
<1>1. ASSUME NEW w \in Workers, Poll(w) \/ SkipPoison(w) \/ CommitOffsets(w) PROVE Kept
  BY <1>1, QuietSafe DEF Poll, SkipPoison, CommitOffsets, kafka
<1>2. ASSUME NEW w \in Workers, Receive(w) PROVE Kept
  BY <1>2, ReceiveSafe
<1>3. ASSUME NEW w \in Workers, RefuseMessage(w) \/ Abort(w) \/ Crash(w) PROVE Kept
  BY <1>3, DropSafe DEF RefuseMessage, Abort, Crash, DropBatch, kafka
<1>4. ASSUME NEW w \in Workers, Handle(w) PROVE Kept
  BY <1>4, HandleSafe
<1>5. ASSUME NEW w \in Workers, Commit(w) PROVE Kept
  BY <1>5, CommitKeyed, CommitRooted
<1>6. ASSUME NEW t \in Topics, NEW w \in Workers, Rebalance(t, w) PROVE Kept
  BY <1>6, QuietSafe DEF Rebalance
<1>7. CASE UNCHANGED vars
  BY <1>7, QuietSafe DEF vars, kafka
<1>8. QED
  BY <1>1, <1>2, <1>3, <1>4, <1>5, <1>6, <1>7 DEF Next, Work

\* No event, child row or announcement is ever left without its call, although
\* the partitioned tables have no foreign key to calls.
THEOREM NothingOrphaned == Spec => []NoOrphans
<1>1. Init => TypeOK /\ Rooted
  BY InitTypes, InitSafe DEF Safe
<1>2. TypeOK /\ Rooted /\ [Next]_vars => TypeOK' /\ Rooted'
  BY NextTypes, NextSafe
<1>3. Rooted => NoOrphans
  BY DEF Rooted
<1>4. QED
  BY <1>1, <1>2, <1>3, PTL DEF Spec

KeyedInv == EventTimesTold /\ TypeOK /\ log \in Logs /\ Taken /\ Keyed

\* Events that tell their time meet in the index, whichever index it is.
LEMMA TimesTell ==
  ASSUME KeyedInv
  PROVE  IndexTells
<1> SUFFICES ASSUME NEW v \in Workers, NEW w \in Workers, Migrated,
                    tx[v].phase # "idle", tx[w].phase # "idle", Key(v) = Key(w)
             PROVE  /\ InHand(v).stamped /\ InHand(w).stamped
                    /\ InHand(v).ts = InHand(w).ts
  BY DEF IndexTells, SameIndexKey
<1>1. /\ tx[v].topic \in Topics /\ tx[v].off \in DOMAIN log[tx[v].topic]
      /\ tx[w].topic \in Topics /\ tx[w].off \in DOMAIN log[tx[w].topic]
  BY ActiveTx DEF KeyedInv, TypeOK, LoopTypeOK
<1>2. InHand(v).usable /\ InHand(w).usable /\ InHand(v).id = InHand(w).id
  BY DEF KeyedInv, Taken, Key
<1>3. QED
  BY <1>1, <1>2 DEF KeyedInv, EventTimesTold, InHand

LEMMA KeyedAlways == EventTimesTold /\ Spec => []KeyedInv
<1>1. EventTimesTold /\ Init => KeyedInv
  BY InitTypes, InitSafe DEF Init, KeyedInv, Safe, Taken, NoTx
<1>2. KeyedInv /\ [Next]_vars => KeyedInv'
  <2> SUFFICES ASSUME KeyedInv, [Next]_vars PROVE KeyedInv'
    OBVIOUS
  <2>1. TypeOK' /\ log' = log /\ Taken'
    BY NextTypes, StepShapes, TakenNext DEF KeyedInv
  <2>2. Keyed'
    BY TimesTell, NextSafe DEF KeyedInv
  <2>3. QED
    BY <2>1, <2>2 DEF KeyedInv
<1>3. QED
  BY <1>1, <1>2, PTL DEF Spec

\* Rule 1 of the worker, for any number of consumers, streams, rebalances and
\* faults, either under the index of the metadata or for events that tell their
\* time, the same at every delivery: an event never leaves a second turn, node,
\* field or announcement, and none without a record of the event.
THEOREM EachEffectOnce == EventTimesTold /\ Spec => []EffectsOnce
<1>1. KeyedInv => EffectsOnce
  BY DEF KeyedInv, Keyed
<1>2. QED
  BY <1>1, KeyedAlways, PTL

\* What rule 1 rests on between transactions, under the same condition: no two
\* consumers ever both hold the same event as newly recorded, and none holds one
\* already committed.
THEOREM NewEventHeldOnce == EventTimesTold /\ Spec => []UncommittedKeys
<1>1. KeyedInv => UncommittedKeys
  BY DEF KeyedInv, Keyed
<1>2. QED
  BY <1>1, KeyedAlways, PTL

-----------------------------------------------------------------------------
(* A recorded event has its effect, for any number of workers.              *)
(*                                                                         *)
(* A commit records the event and writes its row at once, so all there is   *)
(* to keep is that the event an id stands for is the one in hand.           *)

\* An event id names one message, delivered once or more often in its topic.
OneMeaning ==
  \A l \in Logs : \A t \in Topics, u \in Topics : \A o \in DOMAIN l[t], p \in DOMAIN l[u] :
    l[t][o].usable /\ l[u][p].usable /\ l[t][o].id = l[u][p].id =>
      t = u /\ l[t][o] = l[u][p]

\* What message m of topic t leaves behind, under the key e of its event.
Leaves(t, m, e) ==
  /\ t = "transcript" /\ m.flag => \E r \in turns : <<r.call, r.id>> = e
  /\ t = "event" /\ m.flag => \E r \in nodes : <<r.call, r.id>> = e
  /\ t = "field" /\ m.field # Null => \E r \in fields : <<r.call, r.id>> = e

LEMMA RecordedLeaves ==
  RecordedIsApplied <=>
    \A e \in events : \A t \in Topics : \A o \in DOMAIN log[t] :
      log[t][o].usable /\ log[t][o].id = e[2] => Leaves(t, log[t][o], e)
BY DEF RecordedIsApplied, Leaves

AppliedInv == OneMeaning /\ TypeOK /\ log \in Logs /\ Taken /\ RecordedIsApplied

\* Tables that do not change keep what they say of the recorded events.
LEMMA SameTables ==
  ASSUME RecordedIsApplied, UNCHANGED <<db, log>>
  PROVE  RecordedIsApplied'
BY DEF RecordedIsApplied, db

\* A commit writes what its message leaves behind together with its event.
LEMMA CommitLeaves ==
  ASSUME AppliedInv, NEW w \in Workers, Commit(w)
  PROVE  RecordedIsApplied'
<1>1. /\ InHand(w).usable /\ tx[w].topic \in Topics /\ log' = log
      /\ tx[w].off \in DOMAIN log[tx[w].topic]
  BY ActiveTx DEF Commit, AppliedInv, Taken, kafka, TypeOK, LoopTypeOK
<1>2. /\ turns' = turns \cup NewTurns(w) /\ nodes' = nodes \cup NewNodes(w)
      /\ fields' = fields \cup NewFields(w)
  BY DEF Commit
<1>3. ASSUME NEW e \in events, NEW t, NEW m, Leaves(t, m, e)
      PROVE  Leaves(t, m, e)'
  BY <1>2, <1>3 DEF Leaves
<1>4. ASSUME tx[w].fresh, NEW e, e = Key(w), NEW t, t = tx[w].topic, NEW m, m = InHand(w)
      PROVE  Leaves(t, m, e)'
  <2>1. ASSUME t = "transcript", m.flag
        PROVE  \E r \in turns' : <<r.call, r.id>> = e
    <3>1. NumberedRow(w) \in turns'
      BY <1>2, <1>4, <2>1 DEF NewTurns
    <3>2. <<NumberedRow(w).call, NumberedRow(w).id>> = e
      BY <1>4 DEF NumberedRow, Key
    <3>3. QED
      BY <3>1, <3>2
  <2>2. ASSUME t = "event", m.flag
        PROVE  \E r \in nodes' : <<r.call, r.id>> = e
    <3>1. NumberedRow(w) \in nodes'
      BY <1>2, <1>4, <2>2 DEF NewNodes
    <3>2. <<NumberedRow(w).call, NumberedRow(w).id>> = e
      BY <1>4 DEF NumberedRow, Key
    <3>3. QED
      BY <3>1, <3>2
  <2>3. ASSUME t = "field", m.field # Null
        PROVE  \E r \in fields' : <<r.call, r.id>> = e
    <3>1. PICK r \in NewFields(w) : r.call = tx[w].call /\ r.id = InHand(w).id
      BY <1>4, <2>3 DEF NewFields
    <3>2. r \in fields' /\ <<r.call, r.id>> = e
      BY <1>2, <1>4, <3>1 DEF Key
    <3>3. QED
      BY <3>2
  <2>4. QED
    BY <2>1, <2>2, <2>3 DEF Leaves
<1>5. ASSUME NEW e \in events', NEW t \in Topics, NEW o \in DOMAIN log[t],
             log[t][o].usable, log[t][o].id = e[2]
      PROVE  Leaves(t, log[t][o], e)'
  <2>1. PICK m : m = log[t][o]
    OBVIOUS
  <2>2. CASE e \in events
    <3>1. Leaves(t, m, e)
      BY <1>5, <2>1, <2>2, RecordedLeaves DEF AppliedInv
    <3>2. Leaves(t, m, e)'
      BY <1>3, <2>2, <3>1
    <3>3. QED
      BY <1>1, <2>1, <3>2
  <2>3. CASE e \notin events
    <3>1. tx[w].fresh /\ e = Key(w)
      BY <2>3 DEF Commit
    <3>2. t = tx[w].topic /\ m = InHand(w)
      BY <1>1, <1>5, <2>1, <3>1 DEF OneMeaning, AppliedInv, Key, InHand
    <3>3. Leaves(t, m, e)'
      BY <1>4, <3>1, <3>2
    <3>4. QED
      BY <1>1, <2>1, <3>3
  <2>4. QED
    BY <2>2, <2>3
<1>6. QED
  BY <1>1, <1>5 DEF RecordedIsApplied, Leaves

\* The invariant is inductive.
LEMMA AppliedNext ==
  ASSUME AppliedInv, [Next]_vars
  PROVE  AppliedInv'
<1>1. TypeOK /\ TypeOK' /\ log' = log /\ log' \in Logs /\ Taken'
  BY NextTypes, StepShapes, TakenNext DEF AppliedInv
<1>2. ASSUME UNCHANGED db PROVE RecordedIsApplied'
  BY <1>1, <1>2, SameTables DEF AppliedInv
<1>3. ASSUME NEW w \in Workers, Handle(w), ~OpenConflict(w) PROVE UNCHANGED db
  BY <1>1, <1>3, HandleApplies DEF Apply
<1>4. ASSUME NEW w \in Workers, Commit(w) PROVE RecordedIsApplied'
  BY <1>4, CommitLeaves
<1>5. RecordedIsApplied'
  BY <1>1, <1>2, <1>3, <1>4, StepShapes DEF Receive
<1>6. QED
  BY <1>1, <1>5 DEF AppliedInv

\* A recorded event never lacks its turn, its node or its field, with any number
\* of workers, redeliveries, rebalances and crashes (_record_event and the insert
\* that follows it share a transaction): a redelivery may skip what is recorded.
THEOREM RecordedTheorem == OneMeaning /\ Spec => []RecordedIsApplied
<1>1. OneMeaning /\ Init => AppliedInv
  BY InitTypes DEF Init, AppliedInv, Taken, RecordedIsApplied, NoTx
<1>2. AppliedInv /\ [Next]_vars => AppliedInv'
  BY AppliedNext
<1>3. AppliedInv => RecordedIsApplied
  BY DEF AppliedInv
<1>4. QED
  BY <1>1, <1>2, <1>3, PTL DEF Spec

-----------------------------------------------------------------------------
(* One worker: the ledger.                                                  *)
(*                                                                         *)
(* With one worker a transaction sees the row it will write, and the number *)
(* it read is still the next one when it commits.  Two workers have neither:*)
(* both may read a call as open, or the same highest number.                *)

\* The row of a transaction is as it was read, or the call is still new.
SeenIsRow ==
  \A w \in Workers : tx[w].phase # "idle" =>
    IF Opens(w) THEN tx[w].phase = "applied" => ~Present(tx[w].call) /\ tx[w].fresh
                ELSE tx[w].seen = row[tx[w].call]

\* The number a transaction will write is the next of its call.
NumberIsNext ==
  \A w \in Workers : tx[w].phase = "applied" /\ tx[w].fresh =>
    /\ tx[w].topic = "transcript" => tx[w].seq \in NextSeq(turns, tx[w].call)
    /\ tx[w].topic = "event" => tx[w].seq \in NextSeq(nodes, tx[w].call)

\* The worker knows no other statuses than these.
Lifecycle ==
  \A c \in Calls : row[c].status \in {"absent", "in_progress", "completed", "failed"}

FiniteTables == IsFiniteSet(turns) /\ IsFiniteSet(nodes)

\* What is kept of the tables, and of the transaction in hand.
TablesRight == Lifecycle /\ FiniteTables /\ AnnouncedOnce /\ DenseNumbers

LedgerInv == OneWorker /\ TypeOK /\ Safe /\ SeenIsRow /\ NumberIsNext /\ TablesRight

\* The rows of one call, and what DenseNumbers says of one table.
Mine(T, c) == {r \in T : r.call = c}
Dense(T) == \A c \in Calls : {r.seq : r \in Mine(T, c)} = 1..Cardinality(Mine(T, c))

LEMMA DenseTables == DenseNumbers <=> Dense(turns) /\ Dense(nodes)
BY DEF DenseNumbers, Dense, Mine

\* A row with the next number keeps a table dense.
LEMMA DenseGrows ==
  ASSUME NEW T, T \subseteq Numbered, IsFiniteSet(T), Dense(T),
         NEW r \in Numbered, r \notin T, r.seq \in NextSeq(T, r.call)
  PROVE  Dense(T \cup {r}) /\ IsFiniteSet(T \cup {r})
<1>1. IsFiniteSet(T \cup {r})
  BY FS_AddElement
<1>2. ASSUME NEW c \in Calls
      PROVE  /\ IsFiniteSet(Mine(T, c)) /\ Cardinality(Mine(T, c)) \in Nat
             /\ {q.seq : q \in Mine(T, c)} = 1..Cardinality(Mine(T, c))
  <2>1. Mine(T, c) \subseteq T
    BY DEF Mine
  <2>2. IsFiniteSet(Mine(T, c))
    BY <2>1, FS_Subset
  <2>3. QED
    BY <2>2, FS_CardinalityType DEF Dense
<1>3. ASSUME NEW c \in Calls, c # r.call
      PROVE  {q.seq : q \in Mine(T \cup {r}, c)} = 1..Cardinality(Mine(T \cup {r}, c))
  <2>1. Mine(T \cup {r}, c) = Mine(T, c)
    BY <1>3 DEF Mine
  <2>2. QED
    BY <1>2, <2>1
<1>4. ASSUME NEW c \in Calls, c = r.call
      PROVE  {q.seq : q \in Mine(T \cup {r}, c)} = 1..Cardinality(Mine(T \cup {r}, c))
  <2> DEFINE M == Mine(T, c)
             n == Cardinality(M)
  <2>1. Mine(T \cup {r}, c) = M \cup {r} /\ r \notin M
    BY <1>4 DEF Mine
  <2>2. IsFiniteSet(M) /\ n \in Nat /\ {q.seq : q \in M} = 1..n
    BY <1>2
  <2>3. Cardinality(M \cup {r}) = n + 1
    BY <2>1, <2>2, FS_AddElement
  <2>4. r.seq \in Nat /\ r.seq \in {u + 1 : u \in 1..n \cup {0}} /\ \A m \in 1..n : m < r.seq
    BY <1>4, <2>2 DEF NextSeq, Mine, Numbered
  <2>5. r.seq = n + 1
    BY <2>2, <2>4
  <2>6. {q.seq : q \in M \cup {r}} = 1..n \cup {n + 1}
    BY <2>2, <2>5
  <2>7. 1..n \cup {n + 1} = 1..(n + 1)
    BY <2>2
  <2>8. QED
    BY <2>1, <2>3, <2>6, <2>7
<1>5. QED
  BY <1>1, <1>3, <1>4 DEF Dense

\* The row is as it was read, an inserted call is new, and numbers continue those
\* of the tables.
AppliesAsRead(w, fresh, seq, q) ==
  /\ Apply(w, fresh, seq, q)
  /\ Opens(w) => ~Present(tx[w].call) /\ fresh
  /\ fresh /\ tx[w].topic = "transcript" => seq \in NextSeq(turns, tx[w].call)
  /\ fresh /\ tx[w].topic = "event" => seq \in NextSeq(nodes, tx[w].call)

LEMMA HandleReads ==
  ASSUME LedgerInv, NEW w \in Workers, Handle(w), ~OpenConflict(w)
  PROVE  \E fresh \in BOOLEAN, seq \in Nat, q \in Qualifications :
           AppliesAsRead(w, fresh, seq, q)
<1>1. PICK fresh \in BOOLEAN, seq \in Nat, q \in Qualifications : Apply(w, fresh, seq, q)
  BY HandleApplies DEF LedgerInv
<1>2. tx[w].phase = "read"
  BY HandleApplies DEF LedgerInv
<1>3. CASE Opens(w)
  <2>1. tx[w].topic = "opened"
    BY <1>3 DEF Opens
  <2>2. OpenCall(w)
    BY <1>3, <2>1, <1>2 DEF Handle, SkipDuplicate, ReuseCall, EnterNode, AddTurn, CaptureField,
         CloseAgain, CloseCall, Fresh, Reading
  <2>3. ~Present(tx[w].call) /\ Apply(w, ~IsDuplicate(w), 0, NoRow.qualification)
    BY <2>2 DEF OpenCall
  <2>4. ~IsDuplicate(w)
    BY <2>3 DEF IsDuplicate, LedgerInv, Safe, Rooted, NoOrphans, Key
  <2>5. (~IsDuplicate(w)) = TRUE
    BY <2>4
  <2>6. Apply(w, TRUE, 0, NoRow.qualification)
    BY <2>3, <2>5
  <2>7. NoRow.qualification \in Qualifications
    BY DEF NoRow, Qualifications, QualificationStatuses, Reasons
  <2>8. AppliesAsRead(w, TRUE, 0, NoRow.qualification)
    BY <2>1, <2>3, <2>6 DEF AppliesAsRead
  <2>9. QED
    BY <2>7, <2>8
<1>4. CASE ~Opens(w) /\ tx[w].topic \notin {"transcript", "event"}
  <2>1. AppliesAsRead(w, fresh, seq, q)
    BY <1>1, <1>4 DEF AppliesAsRead
  <2>2. QED
    BY <2>1
<1>5. CASE ~Opens(w) /\ tx[w].topic \in {"transcript", "event"}
  <2>1. SkipDuplicate(w) \/ AddTurn(w) \/ EnterNode(w)
    BY <1>5 DEF Handle, ReuseCall, OpenCall, OpenConflict, CaptureField,
         CloseAgain, CloseCall, Fresh, Reading
  <2>2. /\ tx[w].call \in Calls /\ tx[w].seen.qualification \in Qualifications
    BY <1>2, ActiveTx DEF LedgerInv, Rows
  <2>3. NextSeq(nodes, tx[w].call) \subseteq Nat /\ NextSeq(turns, tx[w].call) \subseteq Nat
    BY <2>2, NextSeqType DEF LedgerInv, TypeOK, DbTypeOK
  <2>4. CASE SkipDuplicate(w)
    <3>1. AppliesAsRead(w, FALSE, 0, tx[w].seen.qualification)
      BY <1>5, <2>4 DEF SkipDuplicate, AppliesAsRead
    <3>2. QED
      BY <2>2, <3>1
  <2>5. CASE AddTurn(w)
    <3>1. PICK n \in NextSeq(turns, tx[w].call) : Apply(w, TRUE, n, tx[w].seen.qualification)
      BY <2>5 DEF AddTurn
    <3>2. AppliesAsRead(w, TRUE, n, tx[w].seen.qualification)
      BY <1>5, <2>5, <3>1 DEF AddTurn, Fresh, Reading, AppliesAsRead
    <3>3. QED
      BY <2>2, <2>3, <3>2
  <2>6. CASE EnterNode(w)
    <3>1. PICK n \in NextSeq(nodes, tx[w].call) : Apply(w, TRUE, n, tx[w].seen.qualification)
      BY <2>6 DEF EnterNode
    <3>2. AppliesAsRead(w, TRUE, n, tx[w].seen.qualification)
      BY <1>5, <2>6, <3>1 DEF EnterNode, Fresh, Reading, AppliesAsRead
    <3>3. QED
      BY <2>2, <2>3, <3>2
  <2>7. QED
    BY <2>1, <2>4, <2>5, <2>6
<1>6. QED
  BY <1>3, <1>4, <1>5

\* Steps that change no table.
LEMMA TablesKept ==
  ASSUME LedgerInv, UNCHANGED db
  PROVE  TablesRight'
<1>1. UNCHANGED <<row, events, turns, nodes, fields, outbox>>
  BY DEF db
<1>2. Lifecycle' /\ FiniteTables' /\ AnnouncedOnce'
  BY <1>1 DEF LedgerInv, TablesRight, Lifecycle, FiniteTables, AnnouncedOnce, Terminal
<1>3. DenseNumbers'
  BY <1>1 DEF LedgerInv, TablesRight, DenseNumbers
<1>4. QED
  BY <1>2, <1>3 DEF TablesRight

LEMMA QuietLedger ==
  ASSUME LedgerInv, UNCHANGED <<db, log, tx>>
  PROVE  SeenIsRow' /\ NumberIsNext'
<1>1. UNCHANGED <<row, events, turns, nodes, fields, outbox>>
  BY DEF db
<1>2. SeenIsRow'
  BY <1>1 DEF LedgerInv, SeenIsRow, Opens, Present
<1>3. NumberIsNext'
  BY <1>1 DEF LedgerInv, NumberIsNext, NextSeq
<1>4. QED
  BY <1>2, <1>3

\* Between two messages there is nothing to keep.
LEMMA IdleLedger ==
  ASSUME OneWorker, NEW w \in Workers, tx'[w].phase = "idle"
  PROVE  SeenIsRow' /\ NumberIsNext'
<1>1. \A v \in Workers : v = w
  BY DEF OneWorker
<1>2. QED
  BY <1>1 DEF SeenIsRow, NumberIsNext

\* A transaction begins with the row as it is.
LEMMA ReceiveLedger ==
  ASSUME LedgerInv, NEW w \in Workers, Receive(w)
  PROVE  SeenIsRow' /\ NumberIsNext'
<1>1. PICK t \in Topics : \E o \in todo[w][t], c \in Calls :
        /\ Matches(t, log[t][o]) = {c} \/ t = "opened"
        /\ tx' = [tx EXCEPT ![w] = ReadTx(t, o, c)]
  BY DEF Receive
<1>2. PICK o \in todo[w][t], c \in Calls :
        /\ Matches(t, log[t][o]) = {c} \/ t = "opened"
        /\ tx' = [tx EXCEPT ![w] = ReadTx(t, o, c)]
  BY <1>1
<1>3. tx'[w] = ReadTx(t, o, c)
  BY <1>2 DEF LedgerInv, TypeOK, LoopTypeOK
<1>4. tx'[w].phase = "read" /\ tx'[w].call = c /\ tx'[w].topic = t
  BY <1>3 DEF ReadTx
<1>5. ASSUME ~Opens(w)' PROVE tx'[w].seen = row'[c]
  <2>1. CASE c \in Matches(t, log[t][o])
    BY <1>3, <2>1 DEF ReadTx, Receive, db
  <2>2. CASE c \notin Matches(t, log[t][o])
    <3>1. t # "opened"
      BY <1>3, <1>5, <2>2 DEF Opens, ReadTx, NoRow
    <3>2. QED
      BY <1>2, <2>2, <3>1
  <2>3. QED
    BY <2>1, <2>2
<1>6. \A v \in Workers : v = w
  BY DEF LedgerInv, OneWorker
<1>7. QED
  BY <1>4, <1>5, <1>6 DEF SeenIsRow, NumberIsNext

\* A handler leaves the transaction with what it read.
LEMMA HandleLedger ==
  ASSUME LedgerInv, NEW w \in Workers, Handle(w), ~OpenConflict(w)
  PROVE  SeenIsRow' /\ NumberIsNext'
<1>1. PICK fresh \in BOOLEAN, seq \in Nat, q \in Qualifications : AppliesAsRead(w, fresh, seq, q)
  BY HandleReads
<1>2. tx[w].phase = "read"
  BY HandleApplies DEF LedgerInv
<1>3. /\ tx'[w].phase = "applied" /\ tx'[w].fresh = fresh /\ tx'[w].seq = seq
      /\ tx'[w].call = tx[w].call /\ tx'[w].topic = tx[w].topic /\ tx'[w].seen = tx[w].seen
      /\ UNCHANGED <<row, events, turns, nodes, fields, outbox>>
  BY <1>1, <1>2, ActiveTx DEF AppliesAsRead, Apply, db, LedgerInv, TypeOK, LoopTypeOK
<1>4. \A v \in Workers : v = w
  BY DEF LedgerInv, OneWorker
<1>5. Opens(w)' <=> Opens(w)
  BY <1>3 DEF Opens
<1>6. SeenIsRow'
  BY <1>1, <1>2, <1>3, <1>4, <1>5 DEF LedgerInv, SeenIsRow, AppliesAsRead, Present
<1>7. NumberIsNext'
  BY <1>1, <1>3, <1>4 DEF NumberIsNext, AppliesAsRead, NextSeq
<1>8. QED
  BY <1>6, <1>7

\* What a commit makes of its row.
LEMMA RowWritten ==
  ASSUME LedgerInv, NEW w \in Workers, Commit(w)
  PROVE  /\ tx[w].call \in Calls /\ row' = [row EXCEPT ![tx[w].call] = RowAfter(w)]
         /\ row'[tx[w].call] = RowAfter(w)
         /\ Opens(w) => /\ row[tx[w].call].status = "absent" /\ tx[w].fresh
                        /\ RowAfter(w).status = "in_progress"
         /\ Closes(w) => /\ row[tx[w].call].status = "in_progress"
                         /\ RowAfter(w).status = InHand(w).status
                         /\ InHand(w).status \in {"completed", "failed"}
         /\ ~Opens(w) /\ ~Closes(w) =>
              /\ RowAfter(w).status = row[tx[w].call].status
              /\ RowAfter(w).endedAt = row[tx[w].call].endedAt
              /\ RowAfter(w).disposition = row[tx[w].call].disposition
              /\ RowAfter(w).vicidial = row[tx[w].call].vicidial
<1> DEFINE r == row[tx[w].call]
<1>1. /\ tx[w].phase = "applied" /\ tx[w].call \in Calls /\ InHand(w) \in Messages
      /\ r \in Rows
  BY ActiveTx DEF Commit, LedgerInv, TypeOK, DbTypeOK
<1>2. row' = [row EXCEPT ![tx[w].call] = RowAfter(w)]
  BY DEF Commit
<1>3. row'[tx[w].call] = RowAfter(w)
  BY <1>1, <1>2 DEF LedgerInv, TypeOK, DbTypeOK
<1>4. ASSUME Opens(w)
      PROVE  r.status = "absent" /\ tx[w].fresh /\ RowAfter(w).status = "in_progress"
  BY <1>1, <1>4 DEF LedgerInv, SeenIsRow, Present, RowAfter, NewRow, NoRow
<1>5. ASSUME Closes(w)
      PROVE  /\ r.status = "in_progress" /\ RowAfter(w).status = InHand(w).status
             /\ InHand(w).status \in {"completed", "failed"}
  <2>1. ~Opens(w)
    BY <1>5 DEF Opens, Closes
  <2>2. tx[w].seen = r /\ Present(tx[w].call)
    BY <1>1, <2>1 DEF LedgerInv, SeenIsRow, Safe, Rooted, Attached
  <2>3. r.status = "in_progress"
    BY <1>1, <1>5, <2>2 DEF Closes, TerminalStatuses, Present, LedgerInv, TablesRight, Lifecycle
  <2>4. RowAfter(w).status = InHand(w).status
    BY <1>5, <2>1 DEF RowAfter, ClosedRow
  <2>5. QED
    BY <1>1, <2>3, <2>4 DEF Messages
<1>6. ASSUME ~Opens(w), ~Closes(w)
      PROVE  /\ RowAfter(w).status = r.status /\ RowAfter(w).endedAt = r.endedAt
             /\ RowAfter(w).disposition = r.disposition /\ RowAfter(w).vicidial = r.vicidial
  BY <1>1, <1>6 DEF RowAfter, Rows
<1>7. QED
  BY <1>1, <1>2, <1>3, <1>4, <1>5, <1>6

\* A commit with a new number keeps a table dense, one without a row keeps it.
LEMMA CommitDense ==
  ASSUME LedgerInv, NEW w \in Workers, Commit(w)
  PROVE  FiniteTables' /\ DenseNumbers'
<1>1. /\ tx[w].phase = "applied" /\ tx[w].call \in Calls /\ tx[w].seq \in Nat
      /\ InHand(w) \in Messages
  BY ActiveTx DEF Commit, LedgerInv
<1>2. /\ turns \subseteq Numbered /\ nodes \subseteq Numbered
      /\ IsFiniteSet(turns) /\ IsFiniteSet(nodes) /\ Dense(turns) /\ Dense(nodes)
  BY DenseTables DEF LedgerInv, TypeOK, DbTypeOK, TablesRight, FiniteTables
<1>3. NumberedRow(w) \in Numbered /\ NumberedRow(w).call = tx[w].call
      /\ NumberedRow(w).seq = tx[w].seq
  BY <1>1 DEF NumberedRow, Numbered, Messages
<1>4. ASSUME tx[w].fresh
      PROVE  NumberedRow(w) \notin turns /\ NumberedRow(w) \notin nodes
  BY <1>1, <1>4 DEF LedgerInv, Safe, Keyed, UncommittedKeys, EffectsOnce, Key, NumberedRow
<1>5. Dense(turns \cup NewTurns(w)) /\ IsFiniteSet(turns \cup NewTurns(w))
  <2>1. CASE NewTurns(w) = {}
    BY <1>2, <2>1
  <2>2. CASE NewTurns(w) # {}
    <3>1. tx[w].topic = "transcript" /\ tx[w].fresh /\ NewTurns(w) = {NumberedRow(w)}
      BY <2>2 DEF NewTurns
    <3>2. NumberedRow(w).seq \in NextSeq(turns, NumberedRow(w).call)
      BY <1>1, <1>3, <3>1 DEF LedgerInv, NumberIsNext
    <3>3. QED
      BY <1>2, <1>3, <1>4, <3>1, <3>2, DenseGrows
  <2>3. QED
    BY <2>1, <2>2
<1>6. Dense(nodes \cup NewNodes(w)) /\ IsFiniteSet(nodes \cup NewNodes(w))
  <2>1. CASE NewNodes(w) = {}
    BY <1>2, <2>1
  <2>2. CASE NewNodes(w) # {}
    <3>1. tx[w].topic = "event" /\ tx[w].fresh /\ NewNodes(w) = {NumberedRow(w)}
      BY <2>2 DEF NewNodes
    <3>2. NumberedRow(w).seq \in NextSeq(nodes, NumberedRow(w).call)
      BY <1>1, <1>3, <3>1 DEF LedgerInv, NumberIsNext
    <3>3. QED
      BY <1>2, <1>3, <1>4, <3>1, <3>2, DenseGrows
  <2>3. QED
    BY <2>1, <2>2
<1>7. turns' = turns \cup NewTurns(w) /\ nodes' = nodes \cup NewNodes(w)
  BY DEF Commit
<1>8. Dense(turns') /\ Dense(nodes') /\ FiniteTables'
  BY <1>5, <1>6, <1>7 DEF FiniteTables
<1>9. QED
  BY <1>8 DEF Dense, DenseNumbers, Mine

\* A commit announces the call it ends, and no other.
LEMMA CommitAnnounces ==
  ASSUME LedgerInv, NEW w \in Workers, Commit(w)
  PROVE  Lifecycle' /\ AnnouncedOnce'
<1> DEFINE c == tx[w].call
           Said(d) == {a \in outbox : a.call = d}
<1>1. /\ c \in Calls /\ row' = [row EXCEPT ![c] = RowAfter(w)]
      /\ outbox' = outbox \cup NewOutbox(w) /\ row \in [Calls -> Rows]
  BY RowWritten DEF Commit, LedgerInv, TypeOK, DbTypeOK
<1>2. \A a \in NewOutbox(w) : a.call = c
  BY DEF NewOutbox
<1>3. ASSUME NEW d \in Calls
      PROVE  /\ Terminal(d) <=> Said(d) # {}
             /\ \A a \in Said(d) : Said(d) = {a} /\ a.status = row[d].status
             /\ row[d].status \in {"absent", "in_progress", "completed", "failed"}
  BY DEF LedgerInv, TablesRight, AnnouncedOnce, Lifecycle
<1>4. ASSUME NEW d \in Calls, d # c
      PROVE  row'[d] = row[d] /\ {a \in outbox' : a.call = d} = Said(d)
  BY <1>1, <1>2, <1>4
<1>5. CASE Closes(w)
  <2> DEFINE n == [call |-> c, id |-> InHand(w).id, status |-> InHand(w).status]
  <2>1. /\ row[c].status = "in_progress" /\ row'[c].status = InHand(w).status
        /\ InHand(w).status \in {"completed", "failed"}
    BY <1>5, RowWritten
  <2>2. Said(c) = {}
    BY <1>1, <1>3, <2>1 DEF Terminal, TerminalStatuses
  <2>3. NewOutbox(w) = {n}
    BY <1>5 DEF NewOutbox
  <2>4. {a \in outbox' : a.call = c} = {n} /\ n.status = row'[c].status
    BY <1>1, <2>1, <2>2, <2>3
  <2> HIDE DEF n
  <2>5. QED
    BY <1>1, <1>3, <1>4, <2>1, <2>4 DEF AnnouncedOnce, Lifecycle, Terminal, TerminalStatuses
<1>6. CASE ~Closes(w)
  <2>1. NewOutbox(w) = {}
    BY <1>6 DEF NewOutbox
  <2>2. \/ row'[c].status = row[c].status
        \/ row[c].status = "absent" /\ row'[c].status = "in_progress"
    BY <1>6, RowWritten
  <2>3. outbox' = outbox
    BY <1>1, <2>1
  <2>4. Said(c) = {} \/ row'[c].status = row[c].status
    BY <1>1, <1>3, <2>2 DEF Terminal, TerminalStatuses
  <2>5. QED
    BY <1>1, <1>3, <1>4, <2>2, <2>3, <2>4 DEF AnnouncedOnce, Lifecycle, Terminal, TerminalStatuses
<1>7. QED
  BY <1>5, <1>6

\* The invariant is inductive.
LEMMA LedgerNext == LedgerInv /\ [Next]_vars => LedgerInv'
<1> SUFFICES ASSUME LedgerInv, [Next]_vars PROVE LedgerInv'
  OBVIOUS
<1>1. OneWorker /\ TypeOK' /\ Safe' /\ log' = log
  <2>1. IndexTells
    BY DEF LedgerInv, OneWorker, IndexTells
  <2>2. QED
    BY <2>1, NextTypes, NextSafe, StepShapes DEF LedgerInv, Safe
<1>2. CASE UNCHANGED <<db, tx>>
  BY <1>1, <1>2, QuietLedger, TablesKept DEF LedgerInv, OneWorker
<1>3. ASSUME NEW w \in Workers, UNCHANGED db, tx' = [tx EXCEPT ![w] = NoTx]
      PROVE  LedgerInv'
  <2>1. tx'[w].phase = "idle"
    BY <1>3 DEF LedgerInv, TypeOK, LoopTypeOK, NoTx
  <2>2. QED
    BY <1>1, <1>3, <2>1, IdleLedger, TablesKept DEF LedgerInv, OneWorker
<1>4. ASSUME NEW w \in Workers, Receive(w) PROVE LedgerInv'
  <2>1. UNCHANGED db
    BY <1>4 DEF Receive
  <2>2. QED
    BY <1>1, <1>4, <2>1, ReceiveLedger, TablesKept DEF LedgerInv, OneWorker
<1>5. ASSUME NEW w \in Workers, Handle(w), ~OpenConflict(w) PROVE LedgerInv'
  <2>1. UNCHANGED db
    BY <1>5, HandleApplies DEF LedgerInv, Apply
  <2>2. QED
    BY <1>1, <1>5, <2>1, HandleLedger, TablesKept DEF LedgerInv, OneWorker
<1>6. ASSUME NEW w \in Workers, Commit(w) PROVE LedgerInv'
  <2>1. tx'[w].phase = "idle"
    BY <1>6 DEF Commit, LedgerInv, TypeOK, LoopTypeOK, NoTx
  <2>2. QED
    BY <1>1, <1>6, <2>1, IdleLedger, CommitDense, CommitAnnounces
       DEF LedgerInv, OneWorker, TablesRight
<1>7. QED
  BY <1>2, <1>3, <1>4, <1>5, <1>6, StepShapes DEF LedgerInv

LEMMA LedgerInit == OneWorker /\ Init => LedgerInv
<1> SUFFICES ASSUME OneWorker, Init PROVE LedgerInv
  OBVIOUS
<1>1. TypeOK /\ Safe
  BY InitTypes, InitSafe
<1>2. SeenIsRow /\ NumberIsNext
  BY DEF Init, SeenIsRow, NumberIsNext, NoTx
<1>3. Lifecycle
  BY DEF Init, Lifecycle, NoRow
<1>4. FiniteTables
  BY FS_EmptySet DEF Init, FiniteTables
<1>5. AnnouncedOnce
  BY DEF Init, AnnouncedOnce, Terminal, TerminalStatuses, NoRow
<1>6. Dense({})
  <2>1. \A c : Mine({}, c) = {}
    BY DEF Mine
  <2>2. Cardinality({}) = 0
    BY FS_EmptySet
  <2>3. QED
    BY <2>1, <2>2 DEF Dense
<1>7. DenseNumbers
  BY <1>6, DenseTables DEF Init
<1>8. QED
  BY <1>1, <1>2, <1>3, <1>4, <1>5, <1>7 DEF LedgerInv, TablesRight

LEMMA LedgerAlways == OneWorker /\ Spec => []LedgerInv
BY LedgerInit, LedgerNext, PTL DEF Spec

\* With one worker a call is terminal exactly when its completion is in the outbox,
\* once and with its status, and the numbers of its turns and nodes have neither
\* gap nor repetition, over every drop, redelivery, rollback and crash
\* (handle_closed, _next_sequence).
THEOREM AnnouncementsTheorem == OneWorker /\ Spec => []Announcements
<1>1. LedgerInv => Announcements
  BY DEF LedgerInv, TablesRight, Announcements
<1>2. QED
  BY <1>1, LedgerAlways, PTL

\* A step that is not a commit changes no row.
LEMMA OnlyCommitsWrite ==
  ASSUME TypeOK, [Next]_vars
  PROVE  UNCHANGED db \/ \E w \in Workers : Commit(w)
<1>1. ASSUME NEW w \in Workers, Handle(w), ~OpenConflict(w) PROVE UNCHANGED db
  BY <1>1, HandleApplies DEF Apply
<1>2. QED
  BY <1>1, StepShapes DEF Receive

\* With one worker, rule 3: no late, redelivered or second close changes the end of
\* a call that has ended (the early return of handle_closed).
THEOREM TerminalTheorem == OneWorker /\ Spec => TerminalOnce
<1> DEFINE Kept == \A c \in Calls : Terminal(c) =>
                     /\ row'[c].status = row[c].status
                     /\ row'[c].endedAt = row[c].endedAt
                     /\ row'[c].disposition = row[c].disposition
                     /\ row'[c].vicidial = row[c].vicidial
<1>1. ASSUME LedgerInv, [Next]_vars
      PROVE  Kept
  <2>1. CASE UNCHANGED db
    BY <2>1 DEF db
  <2>2. ASSUME NEW w \in Workers, Commit(w), NEW c \in Calls, Terminal(c)
        PROVE  /\ row'[c].status = row[c].status
               /\ row'[c].endedAt = row[c].endedAt
               /\ row'[c].disposition = row[c].disposition
               /\ row'[c].vicidial = row[c].vicidial
    <3>1. row \in [Calls -> Rows]
      BY <1>1 DEF LedgerInv, TypeOK, DbTypeOK
    <3>2. row[c].status \notin {"absent", "in_progress"}
      BY <2>2 DEF Terminal, TerminalStatuses
    <3>3. CASE c # tx[w].call
      BY <1>1, <2>2, <3>1, <3>3, RowWritten
    <3>4. CASE c = tx[w].call
      <4>1. ~Opens(w) /\ ~Closes(w)
        BY <1>1, <2>2, <3>2, <3>4, RowWritten
      <4>2. QED
        BY <1>1, <2>2, <3>4, <4>1, RowWritten
    <3>5. QED
      BY <3>3, <3>4
  <2>3. QED
    BY <1>1, <2>1, <2>2, OnlyCommitsWrite DEF LedgerInv
<1>2. LedgerInv /\ [Next]_vars => [Kept]_vars
  BY <1>1
<1>3. QED
  BY <1>2, LedgerAlways, PTL DEF Spec, TerminalOnce

\* A commit of one worker is a step of the ledger, or changes nothing it shows.
LEMMA CommitInLedger ==
  ASSUME LedgerInv, NEW w \in Workers, Commit(w)
  PROVE  [Ledger!Next]_(Ledger!vars)
<1> DEFINE c == tx[w].call
           id == InHand(w).id
<1>1. /\ tx[w].phase = "applied" /\ c \in Calls /\ id \in EventIds
      /\ Key(w) = <<c, id>> /\ row \in [Calls -> Rows]
  BY ActiveTx DEF Commit, LedgerInv, Messages, Key, TypeOK, DbTypeOK
<1>2. /\ row' = [row EXCEPT ![c] = RowAfter(w)]
      /\ events' = IF tx[w].fresh THEN events \cup {Key(w)} ELSE events
      /\ turns' = turns \cup NewTurns(w) /\ nodes' = nodes \cup NewNodes(w)
      /\ outbox' = outbox \cup NewOutbox(w)
  BY DEF Commit
<1>3. ASSUME NEW s, RowAfter(w).status = s
      PROVE  [d \in Calls |-> row'[d].status]
               = [[d \in Calls |-> row[d].status] EXCEPT ![c] = s]
  BY <1>1, <1>2, <1>3
<1>4. CASE ~tx[w].fresh
  <2>1. NewTurns(w) = {} /\ NewNodes(w) = {} /\ NewOutbox(w) = {}
    BY <1>4 DEF NewTurns, NewNodes, NewOutbox, Closes
  <2>2. ~Opens(w) /\ ~Closes(w)
    BY <1>4, RowWritten DEF Closes
  <2>3. RowAfter(w).status = row[c].status
    BY <2>2, RowWritten
  <2>4. [d \in Calls |-> row'[d].status] = [d \in Calls |-> row[d].status]
    BY <1>1, <1>2, <2>3
  <2>5. QED
    BY <1>2, <1>4, <2>1, <2>4 DEF Ledger!vars
<1>5. CASE tx[w].fresh
  <2>1. events' = events \cup {<<c, id>>} /\ <<c, id>> \notin events
    BY <1>1, <1>2, <1>5 DEF LedgerInv, Safe, Keyed, UncommittedKeys
  <2>2. CASE Opens(w)
    <3>1. NewTurns(w) = {} /\ NewNodes(w) = {} /\ NewOutbox(w) = {}
      BY <2>2 DEF Opens, NewTurns, NewNodes, NewOutbox, Closes
    <3>2. row[c].status = "absent" /\ RowAfter(w).status = "in_progress"
      BY <2>2, RowWritten
    <3>3. PICK d \in Calls, i \in EventIds : d = c /\ i = id
      BY <1>1
    <3>4. Ledger!Open(d, i)
      BY <1>1, <1>2, <1>3, <2>1, <3>1, <3>2, <3>3 DEF Ledger!Open
    <3>5. QED
      BY <3>4 DEF Ledger!Next
  <2>3. CASE ~Opens(w) /\ Closes(w)
    <3>1. NewTurns(w) = {} /\ NewNodes(w) = {}
      BY <2>3 DEF NewTurns, NewNodes, Closes
    <3>2. NewOutbox(w) = {[call |-> c, id |-> id, status |-> InHand(w).status]}
      BY <2>3 DEF NewOutbox
    <3>3. /\ row[c].status = "in_progress" /\ RowAfter(w).status = InHand(w).status
          /\ InHand(w).status \in Ledger!Ends
      BY <2>3, RowWritten DEF Ledger!Ends
    <3>4. PICK d \in Calls, i \in EventIds, end \in Ledger!Ends :
            d = c /\ i = id /\ end = InHand(w).status
      BY <1>1, <3>3
    <3>5. Ledger!Close(d, i, end)
      BY <1>1, <1>2, <1>3, <2>1, <3>1, <3>2, <3>3, <3>4 DEF Ledger!Close, Ledger!Counts
    <3>6. QED
      BY <3>5 DEF Ledger!Next
  <2>4. CASE ~Opens(w) /\ ~Closes(w)
    <3>1. NewOutbox(w) = {} /\ outbox' = outbox
      BY <1>2, <2>4 DEF NewOutbox
    <3>2. RowAfter(w).status = row[c].status
      BY <2>4, RowWritten
    <3>3. [d \in Calls |-> row'[d].status] = [d \in Calls |-> row[d].status]
      BY <1>1, <1>2, <3>2
    <3>4. row[c].status # "absent"
      BY <1>1, <2>4 DEF LedgerInv, Safe, Rooted, Attached, Present
    <3>5. Ledger!Counts(c, id)
      BY <1>1, <2>1, <3>4 DEF Ledger!Counts
    <3>6. CASE NewTurns(w) # {}
      <4>1. /\ tx[w].topic = "transcript" /\ NewTurns(w) = {NumberedRow(w)}
            /\ NewNodes(w) = {}
        BY <3>6 DEF NewTurns, NewNodes
      <4>2. tx[w].seq \in Ledger!Following(turns, c)
        BY <1>1, <1>5, <4>1 DEF LedgerInv, NumberIsNext, NextSeq, Ledger!Following
      <4>3. turns' = turns \cup {[call |-> c, id |-> id, seq |-> tx[w].seq]}
        BY <1>2, <4>1 DEF NumberedRow
      <4>4. Ledger!Say(c, id)
        BY <1>2, <3>1, <3>3, <3>5, <4>1, <4>2, <4>3 DEF Ledger!Say
      <4>5. QED
        BY <1>1, <4>4 DEF Ledger!Next
    <3>7. CASE NewNodes(w) # {}
      <4>1. /\ tx[w].topic = "event" /\ NewNodes(w) = {NumberedRow(w)}
            /\ NewTurns(w) = {}
        BY <3>7 DEF NewTurns, NewNodes
      <4>2. tx[w].seq \in Ledger!Following(nodes, c)
        BY <1>1, <1>5, <4>1 DEF LedgerInv, NumberIsNext, NextSeq, Ledger!Following
      <4>3. nodes' = nodes \cup {[call |-> c, id |-> id, seq |-> tx[w].seq]}
        BY <1>2, <4>1 DEF NumberedRow
      <4>4. Ledger!Enter(c, id)
        BY <1>2, <3>1, <3>3, <3>5, <4>1, <4>2, <4>3 DEF Ledger!Enter
      <4>5. QED
        BY <1>1, <4>4 DEF Ledger!Next
    <3>8. CASE NewTurns(w) = {} /\ NewNodes(w) = {}
      <4>1. Ledger!Note(c, id)
        BY <1>2, <3>1, <3>3, <3>5, <3>8 DEF Ledger!Note
      <4>2. QED
        BY <1>1, <4>1 DEF Ledger!Next
    <3>9. QED
      BY <3>6, <3>7, <3>8
  <2>5. QED
    BY <2>2, <2>3, <2>4
<1>6. QED
  BY <1>4, <1>5

\* One worker of the group implements the ledger of calls: whatever order the topics
\* come in and whatever is dropped, redelivered, aborted or crashed, a call opens
\* once, each of its events counts once and at once with all that follows from it,
\* and it ends once, with one announcement.
THEOREM LedgerTheorem == OneWorker /\ Spec => ImplementsLedger
<1>1. ASSUME Init PROVE Ledger!Init
  <2>1. \A c \in Calls : row[c].status = "absent"
    BY <1>1 DEF Init, NoRow
  <2>2. QED
    BY <1>1, <2>1 DEF Init, Ledger!Init
<1>2. ASSUME LedgerInv, [Next]_vars PROVE [Ledger!Next]_(Ledger!vars)
  <2>1. CASE UNCHANGED db
    BY <2>1 DEF db, Ledger!vars
  <2>2. QED
    BY <1>2, <2>1, CommitInLedger, OnlyCommitsWrite DEF LedgerInv
<1>3. QED
  BY <1>1, <1>2, LedgerAlways, PTL DEF Spec, ImplementsLedger, Ledger!Spec

-----------------------------------------------------------------------------
(* One worker: the live board.                                              *)
(*                                                                         *)
(* A handler writes Redis before its transaction commits, so in between the *)
(* board is ahead of the registry: it shows the row as the commit will      *)
(* leave it.  As long as nothing fails, no message comes twice but by a     *)
(* second publication, and what follows keeps the two in step.              *)

\* The board shows call c as row r has it.
Agree(c, r) == /\ c \in index <=> r.status = "in_progress"
               /\ snap[c] # NoSnapshot => snap[c] = SnapshotOf(r)

\* Worker w holds an uncommitted message of call c, or a further open of it.
Pending(w, c) == tx[w].phase = "applied" /\ tx[w].call = c
Reopens(w) == tx[w].topic = "opened" /\ ~Opens(w)

\* The board shows every call as its row will be, but those opened once more.
BoardFollows ==
  \A w \in Workers, c \in Calls :
    ~Reopened(c) =>
      IF Pending(w, c) THEN ~Reopens(w) => Agree(c, RowAfter(w)) ELSE Agree(c, row[c])

\* The position is past the batch, and the message in hand is of the batch.
Ahead == \A w \in Workers, t \in Topics : \A o \in todo[w][t] : o <= position[w][t]
InBatch == \A w \in Workers : tx[w].phase # "idle" => tx[w].off \in todo[w][tx[w].topic]

\* Every call there is was opened by a message that has been handled.
OpenedBy(w, c, o) == /\ <<c, log["opened"][o].id>> \in events
                     /\ o <= position[w]["opened"] /\ o \notin todo[w]["opened"]
OpenedBefore ==
  \A w \in Workers, c \in Calls :
    Present(c) => \E o \in DOMAIN log["opened"] : OpenedBy(w, c, o)

\* What is not marked as fresh was recorded before.
KnownIfSkipped ==
  \A w \in Workers : tx[w].phase = "applied" /\ ~tx[w].fresh => Key(w) \in events

Board == BoardFollows /\ Ahead /\ InBatch /\ OpenedBefore /\ KnownIfSkipped
LiveInv == LedgerInv /\ (faults = 0 => Board)

\* Faults are counted up only, and an interrupted Redis call is one.
LEMMA FaultsCount ==
  ASSUME faults \in Nat, NEW n \in Nat, NEW sent, Reached(sent, n), faults' = 0
  PROVE  sent = n
BY DEF Reached

LEMMA FaultsGrow == TypeOK /\ [Next]_vars /\ faults' = 0 => faults = 0
<1> SUFFICES ASSUME TypeOK, [Next]_vars, faults' = 0 PROVE faults = 0
  OBVIOUS
<1>1. faults \in Nat
  BY DEF TypeOK, BudgetTypeOK
<1>2. ASSUME NEW n \in Nat, NEW sent, Reached(sent, n)
      PROVE  faults = 0
  BY <1>1, <1>2 DEF Reached
<1>3. ASSUME NEW w \in Workers, Handle(w) PROVE faults = 0
  <2>1. CASE OpenConflict(w)
    BY <2>1 DEF OpenConflict, budget
  <2>2. CASE ~OpenConflict(w)
    <3>1. PICK r \in Rows :
            \/ WriteLiveSnapshot(tx[w].call, r) \/ UpdateLiveSnapshot(tx[w].call, r)
            \/ RemoveLiveSnapshot(tx[w].call)   \/ LeaveRedis
      BY <1>3, <2>2, HandleApplies
    <3>2. QED
      BY <1>2, <3>1 DEF WriteLiveSnapshot, UpdateLiveSnapshot, RemoveLiveSnapshot, LeaveRedis
  <2>3. QED
    BY <2>1, <2>2
<1>4. ASSUME NEW w \in Workers,
             \/ Poll(w) \/ SkipPoison(w) \/ Receive(w) \/ RefuseMessage(w)
             \/ Commit(w) \/ CommitOffsets(w) \/ Abort(w) \/ Crash(w)
      PROVE  faults = 0
  BY <1>1, <1>4 DEF Poll, SkipPoison, Receive, RefuseMessage, Commit, CommitOffsets, Abort,
                    Crash, budget
<1>5. ASSUME NEW t \in Topics, NEW w \in Workers, Rebalance(t, w) PROVE faults = 0
  BY <1>5 DEF Rebalance
<1>6. QED
  BY <1>3, <1>4, <1>5 DEF Next, Work, vars, budget

LEMMA OpenedFinite ==
  ASSUME TypeOK
  PROVE  IsFiniteSet(DOMAIN log["opened"])
<1>1. log["opened"] \in Seq(Messages)
  BY DEF TypeOK, KafkaTypeOK, Topics
<1>2. DOMAIN log["opened"] = 1..Len(log["opened"]) /\ Len(log["opened"]) \in Int /\ 1 \in Int
  BY <1>1
<1>3. QED
  BY <1>2, FS_Interval

\* A call two of whose opening messages are recorded is reopened, and stays so.
LEMMA OpenedTwice ==
  ASSUME TypeOK, log' = log, NEW c, NEW o \in DOMAIN log["opened"], NEW p \in DOMAIN log["opened"],
         o # p, <<c, log["opened"][o].id>> \in events', <<c, log["opened"][p].id>> \in events'
  PROVE  Reopened(c)'
<1> DEFINE S == {q \in DOMAIN log["opened"] : <<c, log["opened"][q].id>> \in events'}
<1>3. IsFiniteSet(S)
  BY OpenedFinite, FS_Subset, S \in SUBSET DOMAIN log["opened"]
<1>4. {o, p} \subseteq S
  OBVIOUS
<1>5. Cardinality({o, p}) = 2
  <2>1. IsFiniteSet({o}) /\ Cardinality({o}) = 1
    BY FS_Singleton
  <2>2. {o, p} = {o} \cup {p} /\ p \notin {o}
    OBVIOUS
  <2>3. Cardinality({o} \cup {p}) = Cardinality({o}) + 1
    BY <2>1, <2>2, FS_AddElement
  <2>4. QED
    BY <2>1, <2>2, <2>3
<1>6. Cardinality({o, p}) <= Cardinality(S) /\ Cardinality(S) \in Nat
  BY <1>3, <1>4, FS_Subset, FS_CardinalityType
<1>7. QED
  BY <1>5, <1>6 DEF Reopened

LEMMA ReopenedStays ==
  ASSUME TypeOK, log' = log, events \subseteq events', NEW c, Reopened(c)
  PROVE  Reopened(c)'
<1> DEFINE S == {q \in DOMAIN log["opened"] : <<c, log["opened"][q].id>> \in events}
           N == {q \in DOMAIN log["opened"] : <<c, log["opened"][q].id>> \in events'}
<1>3. IsFiniteSet(N)
  BY OpenedFinite, FS_Subset, N \in SUBSET DOMAIN log["opened"]
<1>4. S \subseteq N
  OBVIOUS
<1>5. Cardinality(S) <= Cardinality(N) /\ Cardinality(S) \in Nat /\ Cardinality(N) \in Nat
  BY <1>3, <1>4, FS_Subset, FS_CardinalityType
<1>6. Cardinality(S) > 1 => Cardinality(N) > 1
  BY <1>5
<1>7. QED
  BY <1>6 DEF Reopened

\* What a handler writes to Redis is about its call only, and shows the row as its
\* commit will leave it.
LEMMA HandleShows ==
  ASSUME LiveInv, NEW w \in Workers, Handle(w), ~OpenConflict(w), faults' = 0,
         NEW c, c = tx[w].call
  PROVE  /\ KnownIfSkipped'
         /\ \A d \in Calls \ {c} : (d \in index' <=> d \in index) /\ snap'[d] = snap[d]
         /\ ~Reopens(w) /\ (~Opens(w) => Agree(c, row[c])) => Agree(c, RowAfter(w))'
<1> DEFINE m == InHand(w)
           seen == tx[w].seen
<1>1. /\ tx[w].phase = "read" /\ c \in Calls /\ m \in Messages /\ seen \in Rows
      /\ seen.qualification \in Qualifications /\ faults \in Nat
      /\ snap \in [Calls -> Snapshots] /\ row[c] \in Rows
      /\ \A v \in Workers : v = w
  BY HandleApplies, ActiveTx DEF LiveInv, LedgerInv, OneWorker, Rows, TypeOK, BudgetTypeOK,
     RedisTypeOK, DbTypeOK
<1>2. ASSUME NEW fresh, NEW seq, NEW q, Apply(w, fresh, seq, q)
      PROVE  /\ tx'[w].phase = "applied" /\ tx'[w].fresh = fresh /\ tx'[w].verdict = q
             /\ tx'[w].call = c /\ tx'[w].topic = tx[w].topic /\ tx'[w].seen = seen
             /\ InHand(w)' = m /\ Key(w)' = Key(w) /\ row' = row /\ events' = events
  BY <1>1, <1>2, ActiveTx DEF Apply, LiveInv, LedgerInv, TypeOK, LoopTypeOK, InHand, Key, db,
     kafka
<1>3. ASSUME ~Opens(w) PROVE seen = row[c]
  BY <1>1, <1>3 DEF LiveInv, LedgerInv, SeenIsRow
<1>4. ASSUME NEW r, WriteLiveSnapshot(c, r)
      PROVE  /\ snap' = [snap EXCEPT ![c] = SnapshotOf(r)] /\ index' = index \cup {c}
  <2>1. PICK sent \in 0..2 :
          /\ Reached(sent, 2)
          /\ snap' = IF sent > 0 THEN [snap EXCEPT ![c] = SnapshotOf(r)] ELSE snap
          /\ index' = IF sent = 2 THEN index \cup {c} ELSE index
    BY <1>4 DEF WriteLiveSnapshot
  <2>2. sent = 2
    BY <1>1, <2>1, FaultsCount
  <2>3. QED
    BY <2>1, <2>2
<1>5. ASSUME NEW r, UpdateLiveSnapshot(c, r)
      PROVE  snap' = [snap EXCEPT ![c] = SnapshotOf(r)] /\ index' = index
  <2>1. PICK sent \in 0..1 :
          /\ Reached(sent, 1)
          /\ snap' = IF sent = 1 THEN [snap EXCEPT ![c] = SnapshotOf(r)] ELSE snap
    BY <1>5 DEF UpdateLiveSnapshot
  <2>2. sent = 1
    BY <1>1, <2>1, FaultsCount
  <2>3. QED
    BY <1>5, <2>1, <2>2 DEF UpdateLiveSnapshot
<1>6. ASSUME RemoveLiveSnapshot(c)
      PROVE  snap' = [snap EXCEPT ![c] = NoSnapshot] /\ index' = index \ {c}
  <2>1. PICK sent \in 0..2 :
          /\ Reached(sent, 2)
          /\ snap' = IF sent > 0 THEN [snap EXCEPT ![c] = NoSnapshot] ELSE snap
          /\ index' = IF sent = 2 THEN index \ {c} ELSE index
    BY <1>6 DEF RemoveLiveSnapshot
  <2>2. sent = 2
    BY <1>1, <2>1, FaultsCount
  <2>3. QED
    BY <2>1, <2>2
<1>7. ASSUME NEW d \in Calls \ {c}
      PROVE  (d \in index' <=> d \in index) /\ snap'[d] = snap[d]
  <2>1. PICK r \in Rows :
          \/ WriteLiveSnapshot(c, r) \/ UpdateLiveSnapshot(c, r)
          \/ RemoveLiveSnapshot(c)   \/ LeaveRedis
    BY HandleApplies DEF LiveInv, LedgerInv
  <2>2. CASE LeaveRedis
    BY <2>2 DEF LeaveRedis, redis
  <2>3. QED
    BY <1>1, <1>4, <1>5, <1>6, <1>7, <2>1, <2>2
<1>8. ASSUME RowAfter(w)' = row[c], Agree(c, row[c]), index' = index,
             snap'[c] \in {snap[c], SnapshotOf(row[c])}
      PROVE  Agree(c, RowAfter(w))'
  BY <1>8 DEF Agree
<1>9. ASSUME NEW fresh \in BOOLEAN, NEW seq, NEW q, Apply(w, fresh, seq, q),
             ~fresh => IsDuplicate(w)
      PROVE  KnownIfSkipped'
  BY <1>1, <1>2, <1>9 DEF KnownIfSkipped, IsDuplicate
<1>10. CASE SkipDuplicate(w)
  <2>1. Apply(w, FALSE, 0, seen.qualification) /\ Key(w) \in events /\ UNCHANGED redis
    BY <1>10 DEF SkipDuplicate, IsDuplicate, LeaveRedis
  <2>2. ~tx'[w].fresh /\ tx'[w].topic # "opened" /\ ~Opens(w)
    BY <1>2, <1>10, <2>1 DEF SkipDuplicate, Opens
  <2>3. RowAfter(w)' = row[c]
    BY <1>2, <2>1, <2>2 DEF RowAfter, Opens, Closes, Requalifies
  <2>4. KnownIfSkipped'
    BY <1>9, <2>1 DEF IsDuplicate
  <2>5. QED
    BY <1>7, <1>8, <2>1, <2>2, <2>3, <2>4 DEF redis
<1>11. ASSUME NEW q, Apply(w, ~IsDuplicate(w), 0, q)
       PROVE  KnownIfSkipped'
  <2>1. PICK fresh \in BOOLEAN : fresh = (~IsDuplicate(w))
    OBVIOUS
  <2>2. Apply(w, fresh, 0, q) /\ (~fresh => IsDuplicate(w))
    BY <1>11, <2>1
  <2>3. QED
    BY <1>9, <2>2
<1>12. CASE ReuseCall(w)
  <2>1. Apply(w, ~IsDuplicate(w), 0, seen.qualification) /\ Reopens(w)
    BY <1>12 DEF ReuseCall, Reading, Reopens
  <2>2. QED
    BY <1>7, <1>11, <2>1
<1>13. CASE OpenCall(w)
  <2>1. Apply(w, ~IsDuplicate(w), 0, NoRow.qualification) /\ Opens(w)
    BY <1>13 DEF OpenCall
  <2>2. Opens(w)'
    BY <1>2, <2>1 DEF Opens
  <2>3. RowAfter(w)' = NewRow(m)
    BY <1>2, <2>1, <2>2 DEF RowAfter
  <2>4. NewRow(m).status = "in_progress"
    BY DEF NewRow, NoRow
  <2>5. snap' = [snap EXCEPT ![c] = SnapshotOf(NewRow(m))] /\ index' = index \cup {c}
    BY <1>4, <1>13 DEF OpenCall
  <2>6. c \in index' /\ snap'[c] = SnapshotOf(NewRow(m))
    BY <1>1, <2>5
  <2>7. Agree(c, RowAfter(w))'
    BY <2>3, <2>4, <2>6 DEF Agree
  <2>8. QED
    BY <1>7, <1>11, <2>1, <2>7
<1>14. ASSUME NEW seq, NEW q, Apply(w, TRUE, seq, q), tx[w].topic # "opened"
       PROVE  /\ KnownIfSkipped' /\ ~Opens(w)' /\ ~Opens(w) /\ seen = row[c]
              /\ (~Closes(w)' /\ ~Requalifies(w)' => RowAfter(w)' = row[c])
  BY <1>1, <1>2, <1>3, <1>9, <1>14 DEF Opens, RowAfter
<1>15. CASE EnterNode(w)
  <2>1. tx[w].topic = "event"
    BY <1>15 DEF EnterNode, Fresh, Reading
  <2>2. PICK n : Apply(w, TRUE, n, seen.qualification)
    BY <1>15 DEF EnterNode
  <2>3. ~Closes(w)' /\ ~Requalifies(w)'
    BY <1>2, <2>1, <2>2 DEF Closes, Requalifies
  <2>4. index' = index /\ snap'[c] \in {snap[c], SnapshotOf(row[c])}
    <3>1. CASE m.flag
      <4>1. UpdateLiveSnapshot(c, seen)
        BY <1>15, <3>1 DEF EnterNode
      <4>2. snap' = [snap EXCEPT ![c] = SnapshotOf(seen)] /\ index' = index
        BY <1>5, <4>1
      <4>3. seen = row[c]
        BY <1>14, <2>1, <2>2
      <4>4. QED
        BY <1>1, <4>2, <4>3
    <3>2. CASE ~m.flag
      BY <1>15, <3>2 DEF EnterNode, LeaveRedis, redis
    <3>3. QED
      BY <3>1, <3>2
  <2>5. QED
    BY <1>7, <1>8, <1>14, <2>1, <2>2, <2>3, <2>4
<1>16. CASE AddTurn(w)
  <2>1. tx[w].topic = "transcript" /\ UNCHANGED redis
    BY <1>16 DEF AddTurn, Fresh, Reading, LeaveRedis
  <2>2. PICK n : Apply(w, TRUE, n, seen.qualification)
    BY <1>16 DEF AddTurn
  <2>3. ~Closes(w)' /\ ~Requalifies(w)'
    BY <1>2, <2>1, <2>2 DEF Closes, Requalifies
  <2>4. QED
    BY <1>7, <1>8, <1>14, <2>1, <2>2, <2>3 DEF redis
<1>17. CASE CloseAgain(w)
  <2>1. /\ tx[w].topic = "closed" /\ UNCHANGED redis /\ seen.status \in TerminalStatuses
        /\ Apply(w, TRUE, 0, seen.qualification)
    BY <1>17 DEF CloseAgain, Fresh, Reading, LeaveRedis
  <2>2. ~Closes(w)' /\ ~Requalifies(w)'
    BY <1>2, <2>1 DEF Closes, Requalifies
  <2>3. QED
    BY <1>7, <1>8, <1>14, <2>1, <2>2 DEF redis
<1>18. CASE CloseCall(w)
  <2>1. /\ tx[w].topic = "closed" /\ seen.status \notin TerminalStatuses
        /\ Apply(w, TRUE, 0, seen.qualification) /\ RemoveLiveSnapshot(c)
    BY <1>18 DEF CloseCall, Fresh, Reading
  <2>2. Closes(w)' /\ ~Opens(w)'
    BY <1>2, <1>14, <2>1 DEF Closes
  <2>3. RowAfter(w)'.status = m.status
    BY <1>2, <2>1, <2>2 DEF RowAfter, ClosedRow
  <2>4. m.status # "in_progress"
    BY <1>1 DEF Messages
  <2>5. c \notin index' /\ snap'[c] = NoSnapshot
    BY <1>1, <1>6, <2>1
  <2>6. Agree(c, RowAfter(w))'
    BY <2>3, <2>4, <2>5 DEF Agree
  <2>7. QED
    BY <1>7, <1>14, <2>1, <2>6
<1>19. CASE CaptureField(w)
  <2>1. tx[w].topic = "field"
    BY <1>19 DEF CaptureField, Fresh, Reading
  <2>2. ASSUME Apply(w, TRUE, 0, seen.qualification), LeaveRedis
        PROVE  /\ KnownIfSkipped'
               /\ Agree(c, row[c]) => Agree(c, RowAfter(w))'
    <3>1. ~Closes(w)' /\ ~Requalifies(w)'
      BY <1>2, <2>1, <2>2 DEF Closes, Requalifies
    <3>2. QED
      BY <1>8, <1>14, <2>1, <2>2, <3>1 DEF LeaveRedis, redis
  <2>3. ASSUME NEW q \in Qualifications, Apply(w, TRUE, 0, q), q # seen.qualification,
               UpdateLiveSnapshot(c, [seen EXCEPT !.qualification = q])
        PROVE  /\ KnownIfSkipped'
               /\ Agree(c, row[c]) => Agree(c, RowAfter(w))'
    <3>1. ~Closes(w)' /\ Requalifies(w)' /\ ~Opens(w)' /\ seen = row[c]
      BY <1>2, <1>14, <2>1, <2>3 DEF Closes, Requalifies
    <3>2. RowAfter(w)' = [row[c] EXCEPT !.qualification =
                            Requalified(seen.qualification, q, row[c].qualification)]
      BY <1>2, <2>3, <3>1 DEF RowAfter
    <3>3. Requalified(seen.qualification, q, row[c].qualification) = q
      BY <1>1, <3>1 DEF Requalified, Column, Qualifications
    <3>4. /\ RowAfter(w)'.status = row[c].status
          /\ SnapshotOf(RowAfter(w)') = SnapshotOf([seen EXCEPT !.qualification = q])
      BY <1>1, <3>1, <3>2, <3>3 DEF SnapshotOf
    <3>5. index' = index /\ snap'[c] = SnapshotOf([seen EXCEPT !.qualification = q])
      BY <1>1, <1>5, <2>3
    <3>6. QED
      BY <1>14, <2>1, <2>3, <3>4, <3>5 DEF Agree
  <2>4. CASE m.field = Null
    BY <1>7, <1>14, <1>19, <2>1, <2>2, <2>4 DEF CaptureField
  <2>5. CASE m.field # Null
    <3>1. PICK e \in Evidence(c, m.field, m.answer) :
            LET q == EvaluateQualification(e) IN
            /\ Apply(w, TRUE, 0, q)
            /\ IF q = seen.qualification
               THEN LeaveRedis
               ELSE UpdateLiveSnapshot(c, [seen EXCEPT !.qualification = q])
      BY <1>19, <2>5 DEF CaptureField
    <3>2. e \in [PolicyFields -> Answers]
      BY DEF Evidence
    <3>3. PICK q \in Qualifications : q = EvaluateQualification(e)
      BY <3>2, PolicyTypes
    <3>4. KnownIfSkipped' /\ (Agree(c, row[c]) => Agree(c, RowAfter(w))')
      BY <2>2, <2>3, <3>1, <3>3
    <3>5. QED
      BY <1>7, <1>14, <2>1, <3>1, <3>4
  <2>6. QED
    BY <2>4, <2>5
<1>20. QED
  BY <1>10, <1>12, <1>13, <1>15, <1>16, <1>17, <1>18, <1>19 DEF Handle

\* Steps that leave tables and Redis alone and hold nothing uncommitted.
LEMMA BoardStays ==
  ASSUME LedgerInv, UNCHANGED <<db, redis, log>>, NEW w \in Workers,
         tx[w].phase # "applied", tx'[w].phase # "applied", BoardFollows
  PROVE  BoardFollows' /\ KnownIfSkipped'
<1>1. \A v \in Workers : v = w
  BY DEF LedgerInv, OneWorker
<1>2. UNCHANGED <<row, events, snap, index, log>>
  BY DEF db, redis
<1>3. BoardFollows <=> \A c \in Calls : ~Reopened(c) => Agree(c, row[c])
  BY <1>1 DEF BoardFollows, Pending
<1>4. BoardFollows' <=> \A c \in Calls : ~Reopened(c)' => Agree(c, row[c])'
  BY <1>1 DEF BoardFollows, Pending
<1>5. \A c \in Calls : (Reopened(c)' <=> Reopened(c)) /\ (Agree(c, row[c])' <=> Agree(c, row[c]))
  BY <1>2 DEF Reopened, Agree
<1>6. QED
  BY <1>1, <1>3, <1>4, <1>5 DEF KnownIfSkipped

\* Steps that take nothing on.
LEMMA BatchShrinks ==
  ASSUME UNCHANGED <<db, log, position>>, Ahead, OpenedBefore,
         \A w \in Workers, t \in Topics : todo'[w][t] \subseteq todo[w][t]
  PROVE  Ahead' /\ OpenedBefore'
<1>1. UNCHANGED <<row, events, log, position>>
  BY DEF db
<1>2. Ahead'
  BY <1>1 DEF Ahead
<1>3. ASSUME NEW w \in Workers, NEW c, NEW o, OpenedBy(w, c, o) PROVE OpenedBy(w, c, o)'
  BY <1>1, <1>3 DEF OpenedBy, Topics
<1>4. OpenedBefore'
  BY <1>1, <1>3 DEF OpenedBefore, Present
<1>5. QED
  BY <1>2, <1>4

\* A poll moves the position exactly past what it takes.
LEMMA PollBoard ==
  ASSUME LiveInv, Board, NEW w \in Workers, Poll(w)
  PROVE  Ahead' /\ OpenedBefore'
<1>1. PICK batch \in SUBSET Available(w) :
        /\ \A b \in batch : \A a \in Available(w) :
             a[1] = b[1] /\ a[2] < b[2] => a \in batch
        /\ todo' = [todo EXCEPT ![w] = [t \in Topics |-> OffsetsOf(batch, t)]]
        /\ position' = [position EXCEPT ![w] =
             [t \in Topics |-> @[t] + Cardinality(OffsetsOf(batch, t))]]
  BY DEF Poll
<1>2. /\ log \in [Topics -> Seq(Messages)] /\ assigned \in [Topics -> Workers]
      /\ position \in [Workers -> [Topics -> Nat]]
      /\ todo \in [Workers -> [Topics -> SUBSET Nat]]
      /\ \A v \in Workers : v = w
  BY DEF LiveInv, LedgerInv, TypeOK, KafkaTypeOK, LoopTypeOK, OneWorker
<1>3. ASSUME NEW t \in Topics, NEW o \in todo'[w][t]
      PROVE  position[w][t] < o /\ o <= position'[w][t]
  <2> DEFINE S == OffsetsOf(batch, t)
             p == position[w][t]
             l == Len(log[t])
  <2>1. todo'[w][t] = S /\ position'[w][t] = p + Cardinality(S) /\ p \in Nat /\ l \in Nat
    BY <1>1, <1>2
  <2>2. ASSUME NEW b \in Available(w), b[1] = t PROVE b[2] \in (p + 1)..l
    BY <2>2 DEF Available
  <2>3. S \subseteq (p + 1)..l
    BY <2>2 DEF OffsetsOf
  <2>4. <<t, o>> \in batch
    <3>1. PICK b \in batch : b[1] = t /\ b[2] = o
      BY <2>1 DEF OffsetsOf
    <3>2. \E u \in Topics : b \in {<<u, k>> : k \in (position[w][u] + 1)..Len(log[u])}
      BY <3>1 DEF Available
    <3>3. b = <<t, o>>
      BY <3>1, <3>2
    <3>4. QED
      BY <3>1, <3>3
  <2>5. assigned[t] = w
    BY <1>2
  <2>6. ASSUME NEW k \in (p + 1)..o PROVE k \in S
    <3>1. o \in (p + 1)..l
      BY <2>1, <2>3
    <3>2. k \in (p + 1)..l
      BY <2>1, <3>1
    <3>3. <<t, k>> \in Available(w)
      BY <2>5, <3>2 DEF Available
    <3>4. k = o \/ k < o
      BY <3>1, <3>2
    <3>5. <<t, k>> \in batch
      BY <1>1, <2>4, <3>3, <3>4
    <3>6. QED
      BY <3>5 DEF OffsetsOf
  <2>7. o \in Nat /\ p < o
    BY <2>1, <2>3
  <2>8. IsFiniteSet(S)
    <3>1. p + 1 \in Int /\ l \in Int
      BY <2>1
    <3>2. IsFiniteSet((p + 1)..l)
      BY <3>1, FS_Interval
    <3>3. QED
      BY <2>3, <3>2, FS_Subset
  <2>9. Cardinality((p + 1)..o) = o - p
    <3>1. p + 1 \in Int /\ o \in Int
      BY <2>1, <2>7
    <3>2. Cardinality((p + 1)..o) = IF p + 1 > o THEN 0 ELSE o - (p + 1) + 1
      BY <3>1, FS_Interval
    <3>3. QED
      BY <2>1, <2>7, <3>2
  <2>10. (p + 1)..o \in SUBSET S
    BY <2>6
  <2>11. o - p <= Cardinality(S) /\ Cardinality(S) \in Nat
    <3>1. Cardinality((p + 1)..o) <= Cardinality(S)
      BY <2>8, <2>10, FS_Subset
    <3>2. Cardinality(S) \in Nat
      BY <2>8, FS_CardinalityType
    <3>3. QED
      BY <2>9, <3>1, <3>2
  <2>12. QED
    BY <2>1, <2>7, <2>11
<1>4. Ahead'
  BY <1>2, <1>3 DEF Ahead
<1>5. ASSUME NEW c, NEW o \in DOMAIN log["opened"], OpenedBy(w, c, o)
      PROVE  OpenedBy(w, c, o)'
  <2>1. "opened" \in Topics
    BY DEF Topics
  <2>2. o \in Nat /\ position[w]["opened"] \in Nat
    BY <1>2, <2>1
  <2>3. o \notin todo'[w]["opened"]
    BY <1>3, <1>5, <2>1, <2>2 DEF OpenedBy
  <2>4. position[w]["opened"] <= position'[w]["opened"] /\ position'[w]["opened"] \in Nat
    <3>1. Cardinality(OffsetsOf(batch, "opened")) \in Nat
      <4>1. OffsetsOf(batch, "opened") \in SUBSET DOMAIN log["opened"]
        <5>1. ASSUME NEW b \in batch, b[1] = "opened"
              PROVE  b[2] \in 1..Len(log["opened"])
          BY <1>2, <2>2, <5>1 DEF Available
        <5>2. DOMAIN log["opened"] = 1..Len(log["opened"])
          BY <1>2, <2>1
        <5>3. QED
          BY <5>1, <5>2 DEF OffsetsOf
      <4>2. IsFiniteSet(OffsetsOf(batch, "opened"))
        BY <4>1, OpenedFinite, FS_Subset DEF LiveInv, LedgerInv
      <4>3. QED
        BY <4>2, FS_CardinalityType
    <3>2. QED
      BY <1>1, <1>2, <2>1, <2>2, <3>1
  <2>5. events' = events /\ log' = log
    BY DEF Poll, db
  <2>6. QED
    BY <1>5, <2>2, <2>3, <2>4, <2>5 DEF OpenedBy
<1>6. OpenedBefore'
  <2>1. row' = row /\ log' = log
    BY DEF Poll, db
  <2>2. QED
    BY <1>2, <1>5, <2>1 DEF Board, OpenedBefore, Present
<1>7. QED
  BY <1>4, <1>6

\* A handler keeps the board: of its own call it shows what will be committed.
LEMMA HandleBoard ==
  ASSUME LiveInv, Board, NEW w \in Workers, Handle(w), ~OpenConflict(w), faults' = 0
  PROVE  Board'
<1>1. PICK fresh \in BOOLEAN, seq \in Nat, q \in Qualifications : Apply(w, fresh, seq, q)
  BY HandleApplies DEF LiveInv, LedgerInv
<1>2. PICK c \in Calls : c = tx[w].call
  BY HandleApplies, ActiveTx DEF LiveInv, LedgerInv
<1>3. tx[w].phase = "read" /\ \A v \in Workers : v = w
  BY HandleApplies DEF LiveInv, LedgerInv, OneWorker
<1>4. /\ tx'[w].phase = "applied" /\ tx'[w].call = c /\ tx'[w].topic = tx[w].topic
      /\ tx'[w].seen = tx[w].seen /\ tx'[w].off = tx[w].off
      /\ UNCHANGED <<row, events, log, todo, position>>
  BY <1>1, <1>2, <1>3, ActiveTx DEF Apply, LiveInv, LedgerInv, TypeOK, LoopTypeOK, db, kafka, loop
<1>5. Ahead' /\ InBatch' /\ OpenedBefore'
  BY <1>3, <1>4 DEF Board, Ahead, InBatch, OpenedBefore, OpenedBy, Present
<1>6. /\ KnownIfSkipped'
      /\ \A d \in Calls \ {c} : (d \in index' <=> d \in index) /\ snap'[d] = snap[d]
      /\ ~Reopens(w) /\ (~Opens(w) => Agree(c, row[c])) => Agree(c, RowAfter(w))'
  BY <1>2, HandleShows
<1>7. /\ Reopens(w)' <=> Reopens(w)
      /\ \A d \in Calls : /\ Reopened(d)' <=> Reopened(d)
                          /\ ~Reopened(d) => Agree(d, row[d])
                          /\ Pending(w, d)' <=> d = c
  BY <1>3, <1>4 DEF Reopens, Opens, Reopened, Pending, Board, BoardFollows
<1>8. ASSUME NEW d \in Calls, ~Reopened(d)'
      PROVE  IF Pending(w, d)' THEN ~Reopens(w)' => Agree(d, RowAfter(w))'
                               ELSE Agree(d, row[d])'
  <2>1. CASE d = c
    BY <1>6, <1>7, <1>8, <2>1
  <2>2. CASE d # c
    BY <1>4, <1>6, <1>7, <1>8, <2>2 DEF Agree
  <2>3. QED
    BY <2>1, <2>2
<1>9. BoardFollows'
  BY <1>3, <1>8 DEF BoardFollows
<1>10. QED
  BY <1>5, <1>6, <1>9 DEF Board

\* A commit brings the row to what the board shows; a call that is opened once more
\* has two of its opening messages recorded by then.
LEMMA CommitBoard ==
  ASSUME LiveInv, Board, NEW w \in Workers, Commit(w)
  PROVE  Board'
<1>1. PICK c \in Calls : c = tx[w].call
  BY RowWritten DEF LiveInv
<1>2. /\ tx[w].phase = "applied" /\ \A v \in Workers : v = w
      /\ tx[w].topic \in Topics /\ "opened" \in Topics
      /\ row \in [Calls -> Rows] /\ todo \in [Workers -> [Topics -> SUBSET Nat]]
      /\ position \in [Workers -> [Topics -> Nat]]
  BY ActiveTx DEF Commit, LiveInv, LedgerInv, OneWorker, TypeOK, DbTypeOK, LoopTypeOK,
     KafkaTypeOK, Topics
<1>3. /\ tx'[w].phase = "idle" /\ log' = log /\ position' = position
      /\ UNCHANGED <<snap, index>>
      /\ todo' = [todo EXCEPT ![w][tx[w].topic] = @ \ {tx[w].off}]
      /\ row' = [row EXCEPT ![c] = RowAfter(w)]
      /\ events \subseteq events' /\ events' \subseteq events \cup {Key(w)}
      /\ tx[w].fresh => Key(w) \in events'
  BY <1>1 DEF Commit, LiveInv, LedgerInv, TypeOK, LoopTypeOK, NoTx, kafka, redis
<1>4. Key(w) \in events' /\ Key(w) = <<c, InHand(w).id>>
  BY <1>1, <1>2, <1>3 DEF Board, KnownIfSkipped, Key
<1>5. /\ tx[w].off \in todo[w][tx[w].topic] /\ tx[w].off \in DOMAIN log[tx[w].topic]
      /\ tx[w].off <= position[w][tx[w].topic]
  BY <1>2 DEF Board, InBatch, Ahead, LiveInv, LedgerInv, TypeOK, LoopTypeOK
<1>6. Ahead' /\ InBatch' /\ KnownIfSkipped'
  <2>1. \A t \in Topics : todo'[w][t] \subseteq todo[w][t]
    BY <1>2, <1>3
  <2>2. QED
    BY <1>2, <1>3, <2>1 DEF Board, Ahead, InBatch, KnownIfSkipped
<1>7. ASSUME NEW d, NEW o, OpenedBy(w, d, o) PROVE OpenedBy(w, d, o)'
  BY <1>2, <1>3, <1>7 DEF OpenedBy
<1>8. ASSUME tx[w].topic = "opened"
      PROVE  \E o \in DOMAIN log'["opened"] : OpenedBy(w, c, o)'
  <2>1. PICK o \in DOMAIN log["opened"] : o = tx[w].off
    BY <1>5, <1>8
  <2>2. o \notin todo'[w]["opened"] /\ o <= position'[w]["opened"]
    BY <1>2, <1>3, <1>5, <1>8, <2>1
  <2>3. <<c, log'["opened"][o].id>> \in events'
    BY <1>3, <1>4, <1>8, <2>1 DEF InHand
  <2>4. QED
    BY <1>3, <2>1, <2>2, <2>3 DEF OpenedBy
<1>9. OpenedBefore'
  <2>1. ASSUME NEW d \in Calls, Present(d)'
        PROVE  \E o \in DOMAIN log'["opened"] : OpenedBy(w, d, o)'
    <3>1. CASE Present(d)
      BY <1>3, <1>7, <3>1 DEF Board, OpenedBefore
    <3>2. CASE ~Present(d)
      <4>1. d = c
        BY <1>2, <1>3, <2>1, <3>2 DEF Present
      <4>2. Opens(w)
        BY <1>1, <1>2, <3>2, <4>1 DEF LiveInv, LedgerInv, Safe, Rooted, Attached
      <4>3. QED
        BY <1>8, <4>1, <4>2 DEF Opens
    <3>3. QED
      BY <3>1, <3>2
  <2>2. QED
    BY <1>2, <2>1 DEF OpenedBefore
<1>10. ASSUME Reopens(w)
       PROVE  Reopened(c)'
  <2>1. Present(c) /\ tx[w].topic = "opened"
    BY <1>1, <1>2, <1>10 DEF Reopens, LiveInv, LedgerInv, Safe, Rooted, Attached
  <2>2. PICK o \in DOMAIN log["opened"] : OpenedBy(w, c, o)
    BY <2>1 DEF Board, OpenedBefore
  <2>3. PICK p \in DOMAIN log["opened"] : p = tx[w].off
    BY <1>5, <2>1
  <2>4. o # p /\ <<c, log["opened"][o].id>> \in events'
    BY <1>3, <1>5, <2>1, <2>2, <2>3 DEF OpenedBy
  <2>5. <<c, log["opened"][p].id>> \in events'
    BY <1>4, <2>1, <2>3 DEF InHand
  <2>6. QED
    BY <1>3, <2>4, <2>5, OpenedTwice DEF LiveInv, LedgerInv
<1>11. ASSUME NEW d \in Calls, ~Reopened(d)'
       PROVE  Agree(d, row[d])'
  <2>1. ~Reopened(d)
    BY <1>3, <1>11, ReopenedStays DEF LiveInv, LedgerInv
  <2>2. CASE d = c
    <3>1. Agree(c, RowAfter(w))
      BY <1>1, <1>2, <1>10, <1>11, <2>1, <2>2 DEF Board, BoardFollows, Pending
    <3>2. row'[c] = RowAfter(w)
      BY <1>2, <1>3
    <3>3. QED
      BY <1>3, <2>2, <3>1, <3>2 DEF Agree
  <2>3. CASE d # c
    <3>1. Agree(d, row[d])
      BY <1>1, <2>1, <2>3 DEF Board, BoardFollows, Pending
    <3>2. row'[d] = row[d]
      BY <1>2, <1>3, <2>3
    <3>3. QED
      BY <1>3, <3>1, <3>2 DEF Agree
  <2>4. QED
    BY <2>2, <2>3
<1>12. BoardFollows'
  BY <1>2, <1>3, <1>11 DEF BoardFollows, Pending
<1>13. QED
  BY <1>6, <1>9, <1>12 DEF Board

LEMMA LiveInit == OneWorker /\ Init => LiveInv
<1> SUFFICES ASSUME OneWorker, Init PROVE LiveInv
  OBVIOUS
<1>1. LedgerInv
  BY LedgerInit
<1>2. KnownIfSkipped /\ InBatch
  BY DEF Init, KnownIfSkipped, InBatch, NoTx
<1>3. Ahead
  BY DEF Init, Ahead
<1>4. OpenedBefore
  BY DEF Init, OpenedBefore, Present, NoRow
<1>5. BoardFollows
  BY DEF Init, BoardFollows, Agree, Pending, NoTx, NoRow
<1>6. QED
  BY <1>1, <1>2, <1>3, <1>4, <1>5 DEF LiveInv, Board

\* The invariant is inductive, one action at a time.
LEMMA LiveNext == LiveInv /\ [Next]_vars => LiveInv'
<1> SUFFICES ASSUME LiveInv, [Next]_vars PROVE LiveInv'
  OBVIOUS
<1>1. LedgerInv' /\ TypeOK /\ log' = log /\ (faults' = 0 => faults = 0)
  BY LedgerNext, StepShapes, FaultsGrow DEF LiveInv, LedgerInv
<1>2. SUFFICES ASSUME faults' = 0, Board PROVE Board'
  BY <1>1 DEF LiveInv
<1>3. PICK w : Workers = {w}
  BY DEF LiveInv, LedgerInv, OneWorker
<1>4. \A v \in Workers, u \in Workers : v = u
  BY <1>3
<1>5. assigned \in [Topics -> Workers] /\ faults \in Nat
  BY <1>1 DEF TypeOK, KafkaTypeOK, BudgetTypeOK
<1>6. tx'[w].phase = "idle" => KnownIfSkipped' /\ InBatch'
  BY <1>3 DEF KnownIfSkipped, InBatch
<1>7. tx[w].phase = "idle" /\ tx' = tx => tx'[w].phase # "applied"
  OBVIOUS
<1>8. CASE Poll(w)
  <2>1. tx[w].phase = "idle" /\ UNCHANGED <<db, redis, log, tx>>
    BY <1>8, <1>1 DEF Poll
  <2>2. QED
    BY <1>2, <1>3, <1>6, <1>7, <1>8, <2>1, PollBoard, BoardStays DEF Board, LiveInv
<1>9. CASE SkipPoison(w) \/ CommitOffsets(w)
  <2>1. /\ tx[w].phase = "idle" /\ UNCHANGED <<db, redis, log, position, tx>>
    BY <1>9 DEF SkipPoison, CommitOffsets, IsNext, kafka
  <2>2. \A v \in Workers, t \in Topics : todo'[v][t] \subseteq todo[v][t]
    BY <1>9 DEF SkipPoison, CommitOffsets, LiveInv, LedgerInv, TypeOK, LoopTypeOK
  <2>3. QED
    BY <1>2, <1>3, <1>6, <1>7, <2>1, <2>2, BatchShrinks, BoardStays DEF Board, LiveInv
<1>10. CASE Receive(w)
  <2>1. PICK t \in Topics : \E o \in todo[w][t], c \in Calls :
          tx[w].phase = "idle" /\ tx' = [tx EXCEPT ![w] = ReadTx(t, o, c)]
    BY ZenonT(60), <1>10 DEF Receive, IsNext
  <2>2. PICK o \in todo[w][t], c \in Calls :
          tx[w].phase = "idle" /\ tx' = [tx EXCEPT ![w] = ReadTx(t, o, c)]
    BY <2>1
  <2>3. tx'[w].phase = "read" /\ tx'[w].topic = t /\ tx'[w].off = o
    BY <1>3, <2>2 DEF ReadTx, LiveInv, LedgerInv, TypeOK, LoopTypeOK
  <2>4. UNCHANGED <<db, redis, log, position, todo>>
    BY <1>10 DEF Receive, kafka
  <2>5. InBatch'
    BY <1>3, <2>3, <2>4 DEF InBatch
  <2>6. KnownIfSkipped'
    BY <1>3, <2>3 DEF KnownIfSkipped
  <2>7. QED
    BY <1>2, <1>3, <2>2, <2>3, <2>4, <2>5, <2>6, BatchShrinks, BoardStays DEF Board, LiveInv
<1>11. CASE RefuseMessage(w) \/ OpenConflict(w)
  <2>1. tx[w].phase # "applied" /\ UNCHANGED <<db, redis, log, position>> /\ DropBatch(w)
    BY <1>11 DEF RefuseMessage, OpenConflict, IsNext, Reading, kafka
  <2>2. tx'[w].phase = "idle"
    BY <1>3, <2>1 DEF DropBatch, NoTx, LiveInv, LedgerInv, TypeOK, LoopTypeOK
  <2>3. \A v \in Workers, t \in Topics : todo'[v][t] \subseteq todo[v][t]
    BY <1>3, <2>1 DEF DropBatch, LiveInv, LedgerInv, TypeOK, LoopTypeOK
  <2>4. QED
    BY <1>2, <1>3, <1>6, <2>1, <2>2, <2>3, BatchShrinks, BoardStays DEF Board, LiveInv
<1>12. CASE Handle(w) /\ ~OpenConflict(w)
  BY <1>2, <1>3, <1>12, HandleBoard
<1>13. CASE Commit(w)
  BY <1>2, <1>3, <1>13, CommitBoard
<1>14. ~Abort(w) /\ ~Crash(w)
  BY <1>1, <1>2, <1>5 DEF Abort, Crash
<1>15. \A t \in Topics : ~Rebalance(t, w)
  BY <1>3, <1>5 DEF Rebalance
<1>16. CASE UNCHANGED vars
  <2>1. UNCHANGED <<row, events, snap, index, log, todo, position, tx>>
    BY <1>16 DEF vars, db, redis, kafka, loop
  <2>2. BoardFollows'
    <3> SUFFICES ASSUME NEW w2 \in Workers, NEW c \in Calls, ~Reopened(c)'
                 PROVE  IF Pending(w2, c)' THEN ~Reopens(w2)' => Agree(c, RowAfter(w2))'
                                           ELSE Agree(c, row[c])'
      BY DEF BoardFollows
    <3>1. ~Reopened(c) /\ (Pending(w2, c)' <=> Pending(w2, c))
      BY <2>1 DEF Reopened, Pending
    <3>2. (Opens(w2)' <=> Opens(w2)) /\ (Reopens(w2)' <=> Reopens(w2))
      BY <2>1 DEF Opens, Reopens
    <3>3. RowAfter(w2)' = RowAfter(w2)
      BY <2>1, <3>2 DEF RowAfter, Closes, Requalifies, InHand
    <3>4. /\ Agree(c, RowAfter(w2))' <=> Agree(c, RowAfter(w2))
          /\ Agree(c, row[c])' <=> Agree(c, row[c])
      BY <2>1, <3>3 DEF Agree
    <3>5. QED
      BY <1>2, <3>1, <3>2, <3>4 DEF Board, BoardFollows
  <2>3. Ahead' /\ InBatch' /\ OpenedBefore' /\ KnownIfSkipped'
    BY <1>2, <2>1 DEF Board, Ahead, InBatch, OpenedBefore, OpenedBy, Present, KnownIfSkipped,
                      Key, InHand
  <2>4. QED
    BY <2>2, <2>3 DEF Board
<1>17. QED
  BY <1>3, <1>8, <1>9, <1>10, <1>11, <1>12, <1>13, <1>14, <1>15, <1>16 DEF Next, Work, Handle

\* With one worker, and as long as nothing failed, the live board agrees with the
\* registry whenever no message is in hand: the index holds the calls in progress
\* and no snapshot shows what the row does not have (write_live_snapshot,
\* update_live_snapshot, remove_live_snapshot, all before the commit).
THEOREM LiveBoardTheorem == OneWorker /\ Spec => []LiveBoardAgrees
<1>1. ASSUME LiveInv PROVE LiveBoardAgrees
  <2>1. SUFFICES ASSUME faults = 0, \A w \in Workers : tx[w].phase = "idle",
                        NEW c \in Calls, ~Reopened(c)
                 PROVE  Agree(c, row[c])
    BY DEF LiveBoardAgrees, Agree
  <2>2. PICK w \in Workers : ~Pending(w, c)
    BY <1>1, <2>1 DEF LiveInv, LedgerInv, OneWorker, Pending
  <2>3. QED
    BY <1>1, <2>1, <2>2 DEF LiveInv, Board, BoardFollows
<1>2. QED
  BY <1>1, LiveInit, LiveNext, PTL DEF Spec
=============================================================================
