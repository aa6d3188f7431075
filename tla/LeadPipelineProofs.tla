-------------------------- MODULE LeadPipelineProofs --------------------------
(***************************************************************************)
(* Proofs about LeadPipeline and the register below it, for any sessions,   *)
(* jobs, files, leads and numbers; and, in the second part, for requests    *)
(* that come one at a time.                                                 *)
(***************************************************************************)
EXTENDS MCLeadPipeline, FiniteSetTheorems, TLAPS

-----------------------------------------------------------------------------
(* Types.  The records in flight are of two kinds, told apart by their        *)
(* operation; what was uploaded is one of the files, or nothing yet.         *)

Requests == DeskRequests \cup JobRequests \cup {NoRequest}
NoFile == [rows |-> <<>>, header |-> "phone"]

FileTypes == file \in [Jobs -> Files \cup {NoFile}]
RegisterTypes == register \in [Phones -> Register] /\ cache \in [Phones -> Verdicts]
                 /\ redis \in Redis
LeadTypes == /\ phone \in [Leads -> Phones \cup {NoPhone}] /\ flagged \subseteq Leads
             /\ status \in [Leads -> LeadStatuses] /\ dialerId \in [Leads -> Ids]
HopperTypes == /\ hopper \subseteq [lead: Leads, phone: Phones, id: Ids \ {0}, by: Sessions]
               /\ IsFiniteSet(hopper)
TxTypes == tx \in [Sessions -> Requests]
JobTypes == jobs \in [Jobs -> JobRows]

Typed == /\ RegisterTypes /\ LeadTypes /\ TxTypes /\ JobTypes /\ FileTypes
         /\ HopperTypes

LEMMA TypedIsTypeOK == Typed => TypeOK
BY DEF Typed, RegisterTypes, LeadTypes, TxTypes, JobTypes, HopperTypes, TypeOK,
       SuppressionTypeOK, Requests

\* What is in flight, by its operation.
LEMMA RequestKinds ==
  ASSUME TxTypes, NEW x \in Sessions
  PROVE  /\ tx[x].op \in {"check", "add", "remove", "import_csv"} => tx[x] \in DeskRequests
         /\ OnJob(x) => tx[x] \in JobRequests
         /\ Idle(x) => tx[x] = NoRequest
         /\ tx[x].wrote \subseteq Leads
         /\ Idle(x) \/ OnJob(x) \/ tx[x].op \in {"check", "add", "remove", "import_csv"}
BY DEF TxTypes, Requests, DeskRequests, JobRequests, NoRequest, OnJob, Idle

LEMMA OneRequest ==
  ASSUME TxTypes, NEW x \in Sessions, NEW r \in Requests, tx' = [tx EXCEPT ![x] = r]
  PROVE  TxTypes'
BY DEF TxTypes

LEMMA NewRequests ==
  /\ NoRequest \in Requests
  /\ \A op \in {"check", "add", "remove", "import_csv"}, phase \in {"missed", "read", "written"},
        P \in SUBSET Phones, e \in [Phones -> 0..MaxEntries], L \in SUBSET Leads :
        Request(op, phase, P, e, L) \in Requests
BY DEF Requests, Request, DeskRequests

LEMMA NewJobRequest ==
  ASSUME NEW op \in {"map", "import", "run", "stop", "delete"}, NEW j \in Jobs, NEW row \in JobRows
  PROVE  JobRequest(op, j, row) \in JobRequests
BY DEF JobRequest, JobRequests

\* The rows of a file are numbers or none, and there are no more than MaxLines.
LEMMA FileShape ==
  ASSUME FileTypes, NEW j \in Jobs
  PROVE  /\ FileLines(j) \subseteq Lines
         /\ \A i \in FileLines(j) : FileRow(j, i) \in Phones \cup {NoPhone}
<1>1. /\ file[j].rows \in Seq(Phones \cup {NoPhone})
      /\ Len(file[j].rows) <= MaxLines
  <2>1. CASE file[j] \in Files
    BY <2>1, FileAssumption
  <2>2. CASE file[j] = NoFile
    BY <2>2, BoundAssumption DEF NoFile
  <2>3. QED
    BY <2>1, <2>2 DEF FileTypes
<1>2. QED
  BY <1>1, BoundAssumption DEF FileLines, FileRow, Lines

LEMMA ActiveEntryType ==
  ASSUME RegisterTypes, NEW p \in Phones
  PROVE  ActiveEntry(p) \in 0..MaxEntries
<1>1. CASE p \in Suppressed
  <2>1. \E n \in Entries : n \in register[p].active
    BY <1>1 DEF Suppressed, RegisterTypes, Register
  <2>2. ActiveEntry(p) \in Entries
    BY <1>1, <2>1 DEF ActiveEntry
  <2>3. QED
    BY <2>2, EntryAssumption DEF Entries
<1>2. CASE p \notin Suppressed
  BY <1>2, EntryAssumption DEF ActiveEntry
<1>3. QED
  BY <1>1, <1>2

-----------------------------------------------------------------------------
(* The register's requests keep the types.                                  *)

LEMMA CacheTypes ==
  ASSUME RegisterTypes, NEW p \in Phones, NEW v \in Verdicts, Cache(p, v)
  PROVE  cache' \in [Phones -> Verdicts]
BY DEF RegisterTypes, Cache

deskVars == <<status, dialerId, jobs, file, hopper>>

LEMMA DeskStepTyped ==
  ASSUME Typed, UNCHANGED <<phone, deskVars>>, flagged' \subseteq Leads,
         RegisterTypes', TxTypes'
  PROVE  Typed'
BY DEF Typed, deskVars, LeadTypes, JobTypes, FileTypes, HopperTypes

LEMMA SuppressionTyped ==
  ASSUME Typed, SuppressionNext, UNCHANGED deskVars
  PROVE  Typed'
<1> USE DEF Typed
<1>1. \A x \in Sessions : Done(x) => TxTypes'
  BY NewRequests, OneRequest DEF Done
<1>2. NoEntry \in [Phones -> 0..MaxEntries]
  BY EntryAssumption DEF NoEntry
<1>3. ASSUME UNCHANGED <<register, redis, phone, flagged>>, TxTypes',
             cache' \in [Phones -> Verdicts]
      PROVE  Typed'
  BY <1>3, DeskStepTyped DEF RegisterTypes, LeadTypes
<1>4. CASE RedisChanges
  BY <1>4, DeskStepTyped DEF RedisChanges, RegisterTypes, LeadTypes, TxTypes
<1>5. ASSUME NEW p \in Phones, Expire(p)
      PROVE  Typed'
  <2>1. cache' \in [Phones -> Verdicts]
    BY <1>5 DEF Expire, RegisterTypes, Verdicts
  <2>2. QED
    BY <1>3, <1>5, <2>1 DEF Expire, TxTypes
<1>6. ASSUME NEW x \in Sessions, NEW p \in Checked, CheckMiss(x, p)
      PROVE  Typed'
  <2>1. TxTypes'
    BY <1>2, <1>6, NewRequests, OneRequest, PhoneAssumption DEF CheckMiss
  <2>2. QED
    BY <1>3, <1>6, <2>1 DEF CheckMiss, RegisterTypes
<1>7. ASSUME NEW x \in Sessions, NEW p \in Phones, Add(x, p) \/ Remove(x, p)
      PROVE  Typed'
  <2>1. [NoEntry EXCEPT ![p] = ActiveEntry(p)] \in [Phones -> 0..MaxEntries]
    BY <1>2, ActiveEntryType
  <2>2. TxTypes'
    BY <1>2, <1>7, <2>1, NewRequests, OneRequest DEF Add, Remove
  <2>3. QED
    BY <1>3, <1>7, <2>2 DEF Add, Remove, RegisterTypes
<1>8. ASSUME NEW x \in Sessions, NEW P \in (SUBSET Phones) \ {{}}, ImportCsv(x, P)
      PROVE  Typed'
  <2> DEFINE new == {p \in P : ~Conflict(p)}
             e == [p \in Phones |-> IF p \in new THEN register[p].used + 1 ELSE 0]
  <2>1. \A p \in new : register[p].used < MaxEntries
    BY <1>8 DEF ImportCsv
  <2>2. e \in [Phones -> 0..MaxEntries]
    BY <2>1, EntryAssumption DEF RegisterTypes, Register
  <2>3. tx' = [tx EXCEPT ![x] = Request("import_csv", "written", P, e, Rows(P))]
    BY <1>8 DEF ImportCsv
  <2>4. TxTypes'
    <3> HIDE DEF e
    <3>1. Rows(P) \in SUBSET Leads
      BY DEF Rows
    <3>2. QED
      BY <2>2, <2>3, <3>1, NewRequests, OneRequest
  <2>5. register' = [p \in Phones |->
          [used   |-> register[p].used + (IF p \in new THEN 1 ELSE 0),
           active |-> register[p].active]]
    BY <1>8 DEF ImportCsv
  <2>6. register' \in [Phones -> Register]
    BY <2>1, <2>5, EntryAssumption DEF RegisterTypes, Register
  <2>7. QED
    BY <1>8, <2>4, <2>6, DeskStepTyped DEF ImportCsv, RegisterTypes, LeadTypes
<1>9. ASSUME NEW x \in Sessions, CheckRead(x)
      PROVE  Typed'
  <2> DEFINE e == [p \in Phones |-> ActiveEntry(p)]
             r == [tx[x] EXCEPT !.phase = "read", !.entry = e]
  <2>1. tx[x] \in DeskRequests
    BY <1>9, RequestKinds DEF CheckRead, Waits
  <2>2. e \in [Phones -> 0..MaxEntries]
    BY ActiveEntryType
  <2>3. r \in DeskRequests
    <3> HIDE DEF e
    <3>1. QED
      BY <2>1, <2>2 DEF DeskRequests
  <2>4. tx' = [tx EXCEPT ![x] = r]
    BY <1>9 DEF CheckRead
  <2>5. TxTypes'
    <3> HIDE DEF r
    <3>1. QED
      BY <2>3, <2>4, OneRequest DEF Requests
  <2>6. QED
    BY <1>3, <1>9, <2>5 DEF CheckRead, RegisterTypes
<1>10. ASSUME NEW x \in Sessions, CheckAnswer(x)
       PROVE  Typed'
  <2>1. tx[x] \in DeskRequests
    BY <1>10, RequestKinds DEF CheckAnswer, Waits
  <2>2. PICK p \in tx[x].phones : Cache(p, {tx[x].entry[p]})
    BY <1>10 DEF CheckAnswer
  <2>3. p \in Phones /\ {tx[x].entry[p]} \in Verdicts
    BY <2>1 DEF DeskRequests, Verdicts
  <2>4. QED
    BY <1>1, <1>3, <1>10, <2>2, <2>3, CacheTypes DEF CheckAnswer
<1>11. ASSUME NEW x \in Sessions, AddWrite(x)
       PROVE  Typed'
  <2>1. tx[x] \in DeskRequests
    BY <1>11, RequestKinds DEF AddWrite, Waits
  <2>2. PICK p \in tx[x].phones :
          LET n == register[p].used + 1 IN
          /\ register[p].used < MaxEntries
          /\ register' = [register EXCEPT ![p].used = n]
          /\ Cache(p, {n})
          /\ tx' = [tx EXCEPT ![x] = Request("add", "written", {p},
                                       [NoEntry EXCEPT ![p] = n], Rows({p}))]
    BY <1>11 DEF AddWrite, CacheAdded
  <2> DEFINE n == register[p].used + 1
  <2>3. p \in Phones /\ n \in 0..MaxEntries
    BY <2>1, <2>2, EntryAssumption DEF DeskRequests, RegisterTypes, Register
  <2>4. register' \in [Phones -> Register]
    BY <2>2, <2>3 DEF RegisterTypes, Register
  <2>5. [NoEntry EXCEPT ![p] = n] \in [Phones -> 0..MaxEntries] /\ {n} \in Verdicts
        /\ {p} \in SUBSET Phones /\ Rows({p}) \in SUBSET Leads
    BY <1>2, <2>3 DEF Verdicts, Rows
  <2> HIDE DEF n
  <2>6. tx' = [tx EXCEPT ![x] = Request("add", "written", {p},
                                   [NoEntry EXCEPT ![p] = n], Rows({p}))]
        /\ Cache(p, {n})
    BY <2>2 DEF n
  <2>7. TxTypes'
    BY <2>5, <2>6, NewRequests, OneRequest
  <2>8. cache' \in [Phones -> Verdicts]
    BY <2>3, <2>5, <2>6, CacheTypes
  <2>9. QED
    BY <1>11, <2>4, <2>7, <2>8, DeskStepTyped DEF AddWrite, RegisterTypes, LeadTypes
<1>12. ASSUME NEW x \in Sessions, AddRefused(x) \/ Abandon(x)
       PROVE  Typed'
  BY <1>1, <1>3, <1>12 DEF AddRefused, Abandon, RegisterTypes
<1>13. ASSUME NEW x \in Sessions, AddCommit(x)
       PROVE  Typed'
  <2>1. tx[x] \in DeskRequests
    BY <1>13, RequestKinds DEF AddCommit, Waits
  <2>2. register' = [p \in Phones |->
          [used   |-> register[p].used,
           active |-> register[p].active \cup ({tx[x].entry[p]} \ {0})]]
    BY <1>13 DEF AddCommit
  <2>3. \A p \in Phones : {tx[x].entry[p]} \ {0} \subseteq Entries
    BY <2>1, EntryAssumption DEF DeskRequests, Entries
  <2>4. register' \in [Phones -> Register]
    BY <2>2, <2>3 DEF RegisterTypes, Register
  <2>5. flagged' \subseteq Leads
    BY <1>13, RequestKinds DEF AddCommit, LeadTypes
  <2>6. QED
    BY <1>1, <1>13, <2>4, <2>5, DeskStepTyped DEF AddCommit, RegisterTypes
<1>14. ASSUME NEW x \in Sessions, RemoveWrite(x)
       PROVE  Typed'
  <2>1. tx[x] \in DeskRequests
    BY <1>14, RequestKinds DEF RemoveWrite, Waits
  <2>2. PICK p \in tx[x].phones :
          /\ Cache(p, {})
          /\ tx' = [tx EXCEPT ![x] = Request("remove", "written", {p}, tx[x].entry,
                                             Rows({p}) \cap flagged)]
    BY <1>14 DEF RemoveWrite
  <2>3. p \in Phones /\ {} \in Verdicts /\ tx[x].entry \in [Phones -> 0..MaxEntries]
        /\ Rows({p}) \cap flagged \in SUBSET Leads
    BY <2>1 DEF DeskRequests, Verdicts, Rows
  <2>4. TxTypes'
    BY <2>2, <2>3, NewRequests, OneRequest
  <2>5. QED
    BY <1>3, <1>14, <2>2, <2>3, <2>4, CacheTypes DEF RemoveWrite
<1>15. ASSUME NEW x \in Sessions, RemoveCommit(x)
       PROVE  Typed'
  <2>1. register' = [p \in Phones |->
          [used   |-> register[p].used,
           active |-> register[p].active \ {tx[x].entry[p]}]]
    BY <1>15 DEF RemoveCommit
  <2>2. register' \in [Phones -> Register]
    BY <2>1 DEF RegisterTypes, Register
  <2>3. QED
    BY <1>1, <1>15, <2>2, DeskStepTyped DEF RemoveCommit, RegisterTypes, LeadTypes
<1>16. QED
  BY <1>4, <1>5, <1>6, <1>7, <1>8, <1>9, <1>10, <1>11, <1>12, <1>13, <1>14, <1>15
     DEF SuppressionNext

-----------------------------------------------------------------------------
(* The rows a mapping keeps for insertion are rows of the file with a number,  *)
(* each number once; nothing is kept of a job that is not there yet, and a     *)
(* request that maps or imports works on a job that is.                       *)

KeptFor(j, rows) ==
  \A i, n \in Lines : <<i, "insert">> \in rows.kept =>
    /\ i \in FileLines(j) /\ FileRow(j, i) \in Phones
    /\ (<<n, "insert">> \in rows.kept /\ FileRow(j, i) = FileRow(j, n)) => i = n

Untouched(j) == jobs[j].rows.kept = {} /\ \A l \in Leads : l[1] = j => phone[l] = NoPhone

RequestKept(x) ==
  /\ KeptFor(tx[x].job, tx[x].row.rows)
  /\ tx[x].op \in {"map", "import"} => jobs[tx[x].job].status # "absent"
  /\ tx[x].op \notin {"map", "import"} => tx[x].row.rows.kept = {}

ImportInv ==
  /\ \A j \in Jobs : KeptFor(j, jobs[j].rows)
  /\ \A j \in Jobs : jobs[j].status = "absent" => Untouched(j)
  /\ \A x \in Sessions : OnJob(x) => RequestKept(x)

-----------------------------------------------------------------------------
(* The requests on jobs keep the types.                                     *)

LEMMA EditedRequest ==
  ASSUME NEW r \in JobRequests
  PROVE  /\ \A b \in BOOLEAN, K \in SUBSET Phones :
               [r EXCEPT !.phase = "sent", !.locked = b, !.known = K] \in JobRequests
         /\ \A b \in BOOLEAN : [r EXCEPT !.phase = "sent", !.locked = b] \in JobRequests
         /\ \A b \in BOOLEAN, T \in SUBSET (Leads \X Phones), B \in SUBSET Leads :
               [r EXCEPT !.phase = "listed", !.locked = b, !.todo = T, !.blocked = B]
                  \in JobRequests
         /\ \A T \in SUBSET (Leads \X Phones), B \in SUBSET Leads :
               [r EXCEPT !.phase = "pushing", !.blocked = B, !.todo = T] \in JobRequests
         /\ \A T \in SUBSET (Leads \X Phones), G \in SUBSET (Leads \X Ids) :
               [r EXCEPT !.todo = T, !.got = G] \in JobRequests
         /\ \A T \in SUBSET (Leads \X Phones) : [r EXCEPT !.todo = T] \in JobRequests
         /\ [r EXCEPT !.phase = "broken"] \in JobRequests
         /\ \A W \in SUBSET Leads : [r EXCEPT !.phase = "sent", !.wrote = W] \in JobRequests
BY ZenonT(60) DEF JobRequests

LEMMA JobRowTypes ==
  /\ NoJobRow \in JobRows
  /\ JobTypes => \A j \in Jobs : Wizard(j) \in JobRows /\ Toggle(j) \in JobRows
BY ZenonT(60) DEF NoJobRow, JobRows, RowSets, Raw, Wizard, Toggle, JobTypes

\* A step of a request that leaves the rest alone.
LEMMA TxStepTyped ==
  ASSUME Typed, UNCHANGED <<register, cache, redis, leadVars, jobs, file, hopper>>, TxTypes'
  PROVE  Typed'
BY DEF Typed, RegisterTypes, LeadTypes, leadVars, JobTypes, FileTypes, HopperTypes

LEMMA JobStepTyped ==
  ASSUME Typed, NEW x \in Sessions, Done(x), LeadTypes', JobTypes',
         UNCHANGED <<register, cache, redis, file, hopper>>
  PROVE  Typed'
<1>1. TxTypes'
  BY NewRequests, OneRequest DEF Done, Typed
<1>2. QED
  BY <1>1 DEF Typed, RegisterTypes, FileTypes, HopperTypes

LEMMA IdsAreNumbers == Ids \subseteq Nat /\ 0 \in Ids
BY BoundAssumption DEF Ids

\* The requests begin.
LEMMA BeginTyped ==
  ASSUME Typed, NEW x \in Sessions, NEW j \in Jobs,
         SaveMapping(x, j) \/ CommitImport(x, j) \/ StartRun(x, j) \/ StopRun(x, j)
           \/ DeleteLeads(x, j)
  PROVE  Typed'
<1>1. Batch(j) \in SUBSET Leads
  BY DEF Batch
<1>2. PICK r \in JobRequests : tx' = [tx EXCEPT ![x] = r]
  <2>1. CASE SaveMapping(x, j)
    BY <2>1, NewJobRequest, JobRowTypes DEF SaveMapping, Typed
  <2>2. CASE CommitImport(x, j)
    BY <2>2, NewJobRequest, JobRowTypes DEF CommitImport, Typed
  <2>3. CASE StartRun(x, j)
    BY <2>3, NewJobRequest, JobRowTypes DEF StartRun, Typed
  <2>4. CASE StopRun(x, j)
    BY <2>4, NewJobRequest, JobRowTypes DEF StopRun, Typed
  <2>5. CASE DeleteLeads(x, j)
    BY <1>1, <2>5, NewJobRequest, JobRowTypes, EditedRequest DEF DeleteLeads
  <2>6. QED
    BY <2>1, <2>2, <2>3, <2>4, <2>5
<1>3. TxTypes'
  BY <1>2, OneRequest DEF Requests, Typed
<1>4. QED
  BY <1>3, TxStepTyped DEF SaveMapping, CommitImport, StartRun, StopRun, DeleteLeads

\* They go on.
LEMMA ContinueTyped ==
  ASSUME Typed, NEW x \in Sessions,
         MapKnown(x) \/ ImportSend(x) \/ ListLeads(x) \/ CheckRegister(x)
  PROVE  Typed'
<1> USE DEF Typed
<1>1. tx[x] \in JobRequests
  BY RequestKinds DEF MapKnown, ImportSend, ListLeads, CheckRegister, Waits, OnJob
<1>2. tx[x].job \in Jobs /\ tx[x].todo \in SUBSET (Leads \X Phones)
      /\ tx[x].blocked \in SUBSET Leads
  BY <1>1 DEF JobRequests
<1>3. PICK r \in JobRequests : tx' = [tx EXCEPT ![x] = r]
  <2>1. CASE MapKnown(x)
    <3>1. Looked(x) \cap {phone[l] : l \in Leads} \in SUBSET Phones
      BY <1>2, FileShape DEF Looked
    <3>2. QED
      BY ZenonT(60), <1>1, <2>1, <3>1, EditedRequest DEF MapKnown
  <2>2. CASE ImportSend(x)
    BY ZenonT(60), <1>1, <2>2, EditedRequest DEF ImportSend
  <2>3. CASE ListLeads(x)
    <3> DEFINE T == {<<l, phone[l]>> : l \in ToPush(tx[x].job)}
               B == {l \in ToPush(tx[x].job) : Barred(l)}
    <3>1. T \in SUBSET (Leads \X Phones)
      BY DEF ToPush, Pending, Batch, LeadTypes
    <3>2. B \in SUBSET Leads
      BY DEF ToPush, Pending, Batch
    <3>3. PICK b \in BOOLEAN :
            tx' = [tx EXCEPT ![x] = [tx[x] EXCEPT !.phase = "listed", !.locked = b,
                                                  !.todo = T, !.blocked = B]]
      BY ZenonT(60), <2>3 DEF ListLeads
    <3> HIDE DEF T, B
    <3>4. QED
      BY <1>1, <3>1, <3>2, <3>3, EditedRequest
  <2>4. CASE CheckRegister(x)
    <3> DEFINE caught == tx[x].blocked
                   \cup {l \in Leads : \E p \in Guarded : <<l, p>> \in tx[x].todo}
    <3>1. caught \in SUBSET Leads
      BY <1>2
    <3>2. {t \in tx[x].todo : t[1] \notin caught} \in SUBSET (Leads \X Phones)
      BY <1>2
    <3>3. tx' = [tx EXCEPT ![x] = [tx[x] EXCEPT !.phase = "pushing", !.blocked = caught,
                    !.todo = {t \in tx[x].todo : t[1] \notin caught}]]
      BY <2>4 DEF CheckRegister
    <3> HIDE DEF caught
    <3>4. QED
      BY <1>1, <3>1, <3>2, <3>3, EditedRequest
  <2>5. QED
    BY <2>1, <2>2, <2>3, <2>4
<1>4. TxTypes'
  BY <1>3, OneRequest DEF Requests
<1>5. QED
  BY ZenonT(60), <1>4, TxStepTyped DEF MapKnown, ImportSend, ListLeads, CheckRegister

LEMMA PushTyped ==
  ASSUME Typed, NEW x \in Sessions, Push(x)
  PROVE  Typed'
<1> USE DEF Typed
<1>1. tx[x] \in JobRequests
  BY RequestKinds DEF Push, Waits, OnJob
<1>2. PICK t \in tx[x].todo :
        LET entry == [lead |-> t[1], phone |-> t[2], id |-> NextId, by |-> x]
            rest  == tx[x].todo \ {t} IN
        \/ /\ NextId <= MaxPushes
           /\ hopper' = hopper \cup {entry}
           /\ \/ tx' = [tx EXCEPT ![x] = [tx[x] EXCEPT !.todo = rest,
                          !.got = tx[x].got \cup {<<t[1], NextId>>}]]
              \/ tx' = [tx EXCEPT ![x] = [tx[x] EXCEPT !.todo = rest]]
              \/ tx' = [tx EXCEPT ![x] = [tx[x] EXCEPT !.phase = "broken"]]
        \/ /\ tx' = [tx EXCEPT ![x] = [tx[x] EXCEPT !.todo = rest]]
           /\ UNCHANGED hopper
        \/ /\ tx' = [tx EXCEPT ![x] = [tx[x] EXCEPT !.phase = "broken"]]
           /\ UNCHANGED hopper
  BY ZenonT(60) DEF Push
<1> DEFINE entry == [lead |-> t[1], phone |-> t[2], id |-> NextId, by |-> x]
           rest  == tx[x].todo \ {t}
<1>3. t \in Leads \X Phones /\ rest \in SUBSET (Leads \X Phones)
      /\ tx[x].got \in SUBSET (Leads \X Ids)
  BY <1>1 DEF JobRequests
<1>4. NextId \in Nat \ {0}
  BY FS_CardinalityType DEF NextId, HopperTypes
<1>5. ASSUME NextId <= MaxPushes
      PROVE  NextId \in Ids \ {0} /\ tx[x].got \cup {<<t[1], NextId>>} \in SUBSET (Leads \X Ids)
  BY <1>3, <1>4, <1>5, BoundAssumption DEF Ids
<1>6. HopperTypes'
  <2>1. ASSUME NextId <= MaxPushes, hopper' = hopper \cup {entry}
        PROVE  HopperTypes'
    <3>1. entry \in [lead: Leads, phone: Phones, id: Ids \ {0}, by: Sessions]
      BY <1>3, <1>5, <2>1
    <3> HIDE DEF entry
    <3>2. QED
      BY <2>1, <3>1, FS_AddElement DEF HopperTypes
  <2>2. QED
    BY <1>2, <2>1 DEF HopperTypes
<1>7. TxTypes'
  <2>1. \E r \in JobRequests : tx' = [tx EXCEPT ![x] = r]
    <3> HIDE DEF rest
    <3>1. [tx[x] EXCEPT !.todo = rest] \in JobRequests
      BY <1>1, <1>3, EditedRequest
    <3>2. [tx[x] EXCEPT !.phase = "broken"] \in JobRequests
      BY <1>1, EditedRequest
    <3>3. NextId <= MaxPushes => [tx[x] EXCEPT !.todo = rest,
                      !.got = tx[x].got \cup {<<t[1], NextId>>}] \in JobRequests
      BY <1>1, <1>3, <1>5, EditedRequest
    <3>4. QED
      BY <1>2, <3>1, <3>2, <3>3 DEF rest
  <2>2. QED
    BY <2>1, OneRequest DEF Requests
<1>8. QED
  BY <1>6, <1>7 DEF Push, RegisterTypes, LeadTypes, leadVars, JobTypes, FileTypes

\* They end, or write at once.
LEMMA UploadTyped ==
  ASSUME Typed, NEW x \in Sessions, NEW j \in Jobs, Upload(x, j)
  PROVE  Typed'
<1>1. FileTypes' /\ JobTypes'
  BY DEF Upload, Typed, FileTypes, JobTypes, JobRows
<1>2. QED
  BY <1>1 DEF Upload, Typed, RegisterTypes, LeadTypes, leadVars, TxTypes, HopperTypes

LEMMA KeptType ==
  ASSUME Typed, NEW x \in Sessions, OnJob(x), NEW u \in BOOLEAN
  PROVE  [raw |-> FALSE, kept |-> Kept(x, u)] \in RowSets
<1>1. tx[x].job \in Jobs
  BY RequestKinds DEF Typed, JobRequests
<1>2. Kept(x, u) \subseteq Lines \X Kinds
  BY <1>1, FileShape DEF Kept, Typed, Kinds
<1>3. QED
  BY <1>2 DEF RowSets

\* A row keeps its type when one column of it is written.
LEMMA ColumnTyped ==
  ASSUME NEW J \in [Jobs -> JobRows], NEW j \in Jobs
  PROVE  /\ \A s \in {"absent", "mapping", "validating", "completed", "deleted"} :
              [J EXCEPT ![j].status = s] \in [Jobs -> JobRows]
         /\ \A r \in RowSets : [J EXCEPT ![j].rows = r] \in [Jobs -> JobRows]
         /\ \A l \in BOOLEAN : [J EXCEPT ![j].list = l] \in [Jobs -> JobRows]
         /\ \A r \in {"idle", "running", "interrupted"} :
              [J EXCEPT ![j].run = r] \in [Jobs -> JobRows]
         /\ \A a \in BOOLEAN : [J EXCEPT ![j].active = a] \in [Jobs -> JobRows]
BY DEF JobRows

\* What a mapping writes, column by column.
LEMMA MapWrites ==
  ASSUME JobTypes, NEW j \in Jobs, NEW r \in RowSets, NEW l \in BOOLEAN,
         NEW s \in {"absent", "mapping", "validating", "completed", "deleted"},
         jobs' = [jobs EXCEPT ![j].status = s, ![j].rows = r, ![j].list = l]
  PROVE  JobTypes'
<1> DEFINE J1 == [jobs EXCEPT ![j].status = s]
           J2 == [J1 EXCEPT ![j].rows = r]
<1>1. J1 \in [Jobs -> JobRows]
  BY ColumnTyped DEF JobTypes
<1>2. jobs' = [J2 EXCEPT ![j].list = l]
  OBVIOUS
<1> HIDE DEF J1
<1>3. J2 \in [Jobs -> JobRows]
  BY <1>1, ColumnTyped
<1> HIDE DEF J2
<1>4. [J2 EXCEPT ![j].list = l] \in [Jobs -> JobRows]
  BY <1>3, ColumnTyped
<1>5. QED
  BY <1>2, <1>4 DEF JobTypes

\* What the end of a run or a stop writes.
LEMMA RunWrites ==
  ASSUME JobTypes, NEW j \in Jobs, NEW l \in BOOLEAN, NEW a \in BOOLEAN,
         NEW r \in {"idle", "running", "interrupted"},
         jobs' = [jobs EXCEPT ![j].list = l, ![j].run = r, ![j].active = a]
  PROVE  JobTypes'
<1> DEFINE J1 == [jobs EXCEPT ![j].list = l]
           J2 == [J1 EXCEPT ![j].run = r]
<1>1. J1 \in [Jobs -> JobRows]
  BY ColumnTyped DEF JobTypes
<1>2. jobs' = [J2 EXCEPT ![j].active = a]
  OBVIOUS
<1> HIDE DEF J1
<1>3. J2 \in [Jobs -> JobRows]
  BY <1>1, ColumnTyped
<1> HIDE DEF J2
<1>4. [J2 EXCEPT ![j].active = a] \in [Jobs -> JobRows]
  BY <1>3, ColumnTyped
<1>5. QED
  BY <1>2, <1>4 DEF JobTypes

LEMMA MapClassifyTyped ==
  ASSUME Typed, NEW x \in Sessions, MapClassify(x)
  PROVE  Typed'
<1> DEFINE j == tx[x].job
           r == tx[x].row
<1>1. OnJob(x) /\ tx[x] \in JobRequests
  BY RequestKinds DEF MapClassify, Waits, OnJob, Typed
<1>2. j \in Jobs /\ r \in JobRows /\ jobs[j] \in JobRows
  BY <1>1 DEF JobRequests, Typed, JobTypes
<1>3. PICK u, list \in BOOLEAN :
        jobs' = [jobs EXCEPT
         ![j].status = Column(r.status, "validating", jobs[j].status),
         ![j].rows   = Column(r.rows, [raw |-> FALSE, kept |-> Kept(x, u)], jobs[j].rows),
         ![j].list   = jobs[j].list \/ list]
  BY DEF MapClassify
<1> DEFINE new == [raw |-> FALSE, kept |-> Kept(x, u)]
<1>4. new \in RowSets
  BY <1>1, KeptType
<1> HIDE DEF j, r, new
<1> DEFINE newStatus == Column(r.status, "validating", jobs[j].status)
           newRows == Column(r.rows, new, jobs[j].rows)
           newList == jobs[j].list \/ list
<1>5. /\ newStatus \in {"absent", "mapping", "validating", "completed", "deleted"}
      /\ newRows \in RowSets /\ newList \in BOOLEAN
  BY <1>2, <1>4 DEF JobRows, Column
<1>6. jobs' = [jobs EXCEPT ![j].status = newStatus, ![j].rows = newRows, ![j].list = newList]
  BY <1>3 DEF new
<1> HIDE DEF newStatus, newRows, newList
<1>7. JobTypes'
  BY <1>2, <1>5, <1>6, MapWrites DEF Typed
<1>8. QED
  BY <1>7, JobStepTyped DEF MapClassify, Typed, LeadTypes, leadVars

LEMMA ImportFinishTyped ==
  ASSUME Typed, ImportInv, NEW x \in Sessions, ImportFinish(x)
  PROVE  Typed'
<1> DEFINE j   == tx[x].job
           new == {i \in Lines : <<i, "insert">> \in tx[x].row.rows.kept}
<1>1. OnJob(x) /\ j \in Jobs
  BY RequestKinds DEF ImportFinish, Waits, OnJob, Typed, JobRequests
<1>2. \A i \in new : FileRow(j, i) \in Phones
  BY <1>1 DEF ImportInv, RequestKept, KeptFor
<1>3. PICK k \in Copies, s \in LeadStatuses :
        /\ phone' = [l \in Leads |-> IF l \in {<<j, i, k>> : i \in new}
                                      THEN FileRow(j, l[2]) ELSE phone[l]]
        /\ status' = [l \in Leads |-> IF l \in {<<j, i, k>> : i \in new}
                                        THEN s ELSE status[l]]
        /\ jobs' = [jobs EXCEPT ![j].status = "completed"]
  BY DEF ImportFinish
<1>4. LeadTypes'
  <2>1. ASSUME NEW l \in Leads, l \in {<<j, i, k>> : i \in new}
        PROVE  FileRow(j, l[2]) \in Phones
    <3>1. PICK i \in new : l = <<j, i, k>>
      BY <2>1
    <3>2. l[2] = i
      BY <3>1
    <3>3. QED
      BY <1>2, <3>2
  <2>2. phone' \in [Leads -> Phones \cup {NoPhone}]
    BY <1>3, <2>1 DEF Typed, LeadTypes
  <2>3. status' \in [Leads -> LeadStatuses]
    BY <1>3 DEF Typed, LeadTypes
  <2>4. QED
    BY <2>2, <2>3 DEF ImportFinish, Typed, LeadTypes
<1>5. JobTypes'
  BY <1>1, <1>3 DEF Typed, JobTypes, JobRows
<1>6. QED
  BY <1>4, <1>5, JobStepTyped DEF ImportFinish

LEMMA FinishRunTyped ==
  ASSUME Typed, NEW x \in Sessions, FinishRun(x)
  PROVE  Typed'
<1> DEFINE j == tx[x].job
           r == tx[x].row
           accepted == tx[x].got # {}
<1>1. tx[x] \in JobRequests
  BY ZenonT(60), RequestKinds DEF FinishRun, Typed
<1>2. /\ \E caught \in SUBSET tx[x].blocked : flagged' = flagged \cup (caught \cap Batch(j))
      /\ dialerId' = [l \in Leads |-> IF l \in Batch(j) THEN Stored(x, l) ELSE dialerId[l]]
      /\ \E list \in {~r.list, tx[x].locked} :
           jobs' = [jobs EXCEPT
            ![j].list   = jobs[j].list \/ list,
            ![j].run    = Column(r.run, Outcome(accepted), jobs[j].run),
            ![j].active = Column(r.active, accepted, jobs[j].active)]
      /\ UNCHANGED <<phone, status>>
  BY DEF FinishRun
<1>3. \A l \in Leads : Stored(x, l) \in Ids
  BY DEF Stored, Typed, LeadTypes
<1>4. LeadTypes'
  BY <1>2, <1>3 DEF Typed, LeadTypes, Batch
<1>5. JobTypes'
  <2>1. j \in Jobs /\ r \in JobRows /\ accepted \in BOOLEAN /\ tx[x].locked \in BOOLEAN
        /\ Outcome(accepted) \in {"running", "idle"}
    BY <1>1 DEF JobRequests, Outcome
  <2>2. PICK list \in {~r.list, tx[x].locked} :
           jobs' = [jobs EXCEPT
            ![j].list   = jobs[j].list \/ list,
            ![j].run    = Column(r.run, Outcome(accepted), jobs[j].run),
            ![j].active = Column(r.active, accepted, jobs[j].active)]
    BY <1>2
  <2> HIDE DEF j, r, accepted
  <2>3. jobs[j] \in JobRows
    BY <2>1 DEF Typed, JobTypes
  <2>4. /\ Column(r.run, Outcome(accepted), jobs[j].run) \in {"idle", "running", "interrupted"}
        /\ Column(r.active, accepted, jobs[j].active) \in BOOLEAN
        /\ (jobs[j].list \/ list) \in BOOLEAN
    BY <2>1, <2>3 DEF Column, JobRows
  <2> DEFINE newList == jobs[j].list \/ list
             newRun == Column(r.run, Outcome(accepted), jobs[j].run)
             newActive == Column(r.active, accepted, jobs[j].active)
  <2>5. jobs' = [jobs EXCEPT ![j].list = newList, ![j].run = newRun, ![j].active = newActive]
    BY <2>2
  <2>6. newList \in BOOLEAN /\ newRun \in {"idle", "running", "interrupted"}
        /\ newActive \in BOOLEAN
    BY <2>4
  <2> HIDE DEF newList, newRun, newActive
  <2>7. QED
    BY <2>1, <2>5, <2>6, RunWrites DEF Typed
<1>6. QED
  BY ZenonT(60), <1>4, <1>5, JobStepTyped DEF FinishRun

LEMMA FinishStopTyped ==
  ASSUME Typed, NEW x \in Sessions, FinishStop(x)
  PROVE  Typed'
<1> DEFINE j == tx[x].job
           r == tx[x].row
<1>1. tx[x] \in JobRequests
  BY RequestKinds DEF FinishStop, Waits, OnJob, Typed
<1>2. j \in Jobs /\ r \in JobRows /\ jobs[j] \in JobRows
  BY <1>1 DEF JobRequests, Typed, JobTypes
<1>3. PICK list \in BOOLEAN :
        jobs' = [jobs EXCEPT
         ![j].list   = jobs[j].list \/ list,
         ![j].run    = Column(r.run, "interrupted", jobs[j].run),
         ![j].active = Column(r.active, FALSE, jobs[j].active)]
  BY DEF FinishStop
<1> HIDE DEF j, r
<1> DEFINE newList == jobs[j].list \/ list
           newRun == Column(r.run, "interrupted", jobs[j].run)
           newActive == Column(r.active, FALSE, jobs[j].active)
<1>4. /\ newList \in BOOLEAN /\ newRun \in {"idle", "running", "interrupted"}
      /\ newActive \in BOOLEAN
  BY <1>2 DEF JobRows, Column
<1>5. jobs' = [jobs EXCEPT ![j].list = newList, ![j].run = newRun, ![j].active = newActive]
  BY <1>3
<1> HIDE DEF newList, newRun, newActive
<1>6. JobTypes'
  BY <1>2, <1>4, <1>5, RunWrites DEF Typed
<1>7. QED
  BY <1>6, JobStepTyped DEF FinishStop, Typed, LeadTypes, leadVars

LEMMA DeleteBatchTyped ==
  ASSUME Typed, NEW x \in Sessions, DeleteBatch(x)
  PROVE  Typed'
<1>1. tx[x] \in JobRequests
  BY RequestKinds DEF DeleteBatch, Waits, OnJob, Typed
<1>2. JobTypes'
  BY <1>1, JobRowTypes DEF DeleteBatch, Typed, JobTypes, JobRows, JobRequests
<1>3. LeadTypes'
  BY StatusAssumption, IdsAreNumbers DEF DeleteBatch, Typed, LeadTypes
<1>4. QED
  BY <1>2, <1>3, JobStepTyped DEF DeleteBatch

LEMMA JobTyped ==
  ASSUME Typed, ImportInv, JobNext
  PROVE  Typed'
<1>1. ASSUME NEW x \in Sessions, NothingToPush(x)
      PROVE  Typed'
  BY <1>1, JobStepTyped DEF NothingToPush, Typed, LeadTypes, leadVars, JobTypes
<1>2. ASSUME NEW j \in Jobs, NEW set \in BOOLEAN, AssignList(j, set)
      PROVE  Typed'
  <2>1. JobTypes'
    BY <1>2 DEF AssignList, Typed, JobTypes, JobRows
  <2>2. QED
    BY <1>2, <2>1 DEF AssignList, Typed, RegisterTypes, LeadTypes, leadVars, TxTypes,
       FileTypes, HopperTypes
<1>3. ASSUME NEW l \in Leads, NEW p \in Phones, NEW s \in LeadStatuses, UpdateLead(l, p, s)
      PROVE  Typed'
  <2>1. LeadTypes'
    BY <1>3 DEF UpdateLead, Typed, LeadTypes
  <2>2. QED
    BY <1>3, <2>1 DEF UpdateLead, Typed, RegisterTypes, TxTypes, JobTypes,
       FileTypes, HopperTypes
<1>4. QED
  BY <1>1, <1>2, <1>3, BeginTyped, ContinueTyped, PushTyped, UploadTyped, MapClassifyTyped,
     ImportFinishTyped, FinishRunTyped, FinishStopTyped, DeleteBatchTyped DEF JobNext

-----------------------------------------------------------------------------
(* What is kept for insertion stays right.                                  *)

SameRows(j) == jobs'[j].status = jobs[j].status /\ jobs'[j].rows = jobs[j].rows

SameRequest(x) == /\ OnJob(x) /\ tx'[x].op = tx[x].op
                  /\ tx'[x].job = tx[x].job /\ tx'[x].row = tx[x].row

LEMMA ImportKept ==
  ASSUME Typed, ImportInv, UNCHANGED file,
         \A j \in Jobs : \/ SameRows(j)
                         \/ jobs'[j].status # "absent" /\ KeptFor(j, jobs'[j].rows),
         \A l \in Leads : phone[l] = NoPhone /\ phone'[l] # NoPhone
                           => jobs'[l[1]].status # "absent",
         \A x \in Sessions : SameRequest(x) \/ ~OnJob(x)' \/ RequestKept(x)'
  PROVE  ImportInv'
<1>1. \A j, rows : KeptFor(j, rows) => KeptFor(j, rows)'
  BY ZenonT(60) DEF KeptFor, FileLines, FileRow
<1>2. \A j \in Jobs : KeptFor(j, jobs[j].rows)'
  <2> TAKE j \in Jobs
  <2>1. KeptFor(j, jobs'[j].rows)
    BY DEF ImportInv, SameRows
  <2>2. QED
    BY <2>1 DEF KeptFor, FileLines, FileRow
<1>3. ASSUME NEW j \in Jobs, jobs'[j].status = "absent"
      PROVE  Untouched(j)'
  <2>1. SameRows(j) /\ Untouched(j)
    BY <1>3 DEF ImportInv, SameRows
  <2>2. QED
    BY <1>3, <2>1 DEF SameRows, Untouched
<1>4. ASSUME NEW x \in Sessions, OnJob(x)'
      PROVE  RequestKept(x)'
  <2>1. CASE SameRequest(x)
    <3>1. RequestKept(x) /\ tx[x].job \in Jobs
      BY <2>1, RequestKinds DEF ImportInv, SameRequest, Typed, JobRequests
    <3>2. KeptFor(tx[x].job, tx[x].row.rows)'
      BY <2>1, <3>1 DEF RequestKept, SameRequest, KeptFor, FileLines, FileRow
    <3>3. jobs[tx[x].job].status # "absent" => jobs'[tx[x].job].status # "absent"
      BY <3>1 DEF SameRows
    <3>4. QED
      BY <2>1, <3>1, <3>2, <3>3 DEF RequestKept, SameRequest
  <2>2. QED
    BY <1>4, <2>1
<1>5. QED
  BY <1>2, <1>3, <1>4 DEF ImportInv

LEMMA EmptyKept == \A j, rows : rows.kept = {} => KeptFor(j, rows)
BY DEF KeptFor

\* Every other request stays as it is.
LEMMA OthersSame ==
  ASSUME TxTypes, NEW x \in Sessions, NEW r, tx' = [tx EXCEPT ![x] = r]
  PROVE  /\ tx'[x] = r
         /\ \A y \in Sessions : y # x => SameRequest(y) \/ ~OnJob(y)'
BY DEF TxTypes, SameRequest, OnJob

LEMMA RequestOver ==
  ASSUME TxTypes, NEW x \in Sessions, tx' = [tx EXCEPT ![x] = NoRequest]
  PROVE  \A y \in Sessions : SameRequest(y) \/ ~OnJob(y)'
<1>1. tx'[x] = NoRequest /\ \A y \in Sessions : y # x => SameRequest(y) \/ ~OnJob(y)'
  BY OthersSame
<1>2. ~OnJob(x)'
  BY <1>1 DEF OnJob, NoRequest
<1>3. QED
  BY <1>1, <1>2

\* A step of the register moves one request, which is not on a job.
DeskMove(x, r) == tx' = [tx EXCEPT ![x] = r]
                  /\ r.op \notin {"map", "import", "run", "stop", "delete"}

LEMMA DeskSteps ==
  ASSUME Typed, SuppressionNext
  PROVE  UNCHANGED tx \/ \E y \in Sessions : \E s : DeskMove(y, s)
<1>1. ASSUME NEW x \in Sessions, NEW r, tx' = [tx EXCEPT ![x] = r], r.op \notin
                {"map", "import", "run", "stop", "delete"}
      PROVE  \E y \in Sessions : \E s : DeskMove(y, s)
  BY <1>1 DEF DeskMove
<1>2. NoRequest.op = "none" /\ \A op, ph, P, e, L : Request(op, ph, P, e, L).op = op
  BY DEF NoRequest, Request
<1>3. CASE RedisChanges \/ \E p \in Phones : Expire(p)
  BY <1>3 DEF RedisChanges, Expire
<1>4. ASSUME NEW x \in Sessions, CheckRead(x)
      PROVE  \E y \in Sessions : \E s : DeskMove(y, s)
  <2> DEFINE r == [tx[x] EXCEPT !.phase = "read", !.entry = [p \in Phones |-> ActiveEntry(p)]]
  <2>1. tx' = [tx EXCEPT ![x] = r]
    BY <1>4 DEF CheckRead
  <2>2. r.op = "check"
    BY <1>4, RequestKinds DEF CheckRead, Waits, Typed, DeskRequests
  <2> HIDE DEF r
  <2>3. QED
    BY <1>1, <2>1, <2>2
<1>5. ASSUME NEW x \in Sessions,
             Done(x) \/ \E op \in {"check", "add", "remove", "import_csv"} : \E ph, P, e, L :
                          tx' = [tx EXCEPT ![x] = Request(op, ph, P, e, L)]
      PROVE  \E y \in Sessions : \E s : DeskMove(y, s)
  BY <1>1, <1>2, <1>5 DEF Done
<1>6. ASSUME NEW x \in Sessions, CheckAnswer(x) \/ AddRefused(x) \/ AddCommit(x)
                                \/ RemoveCommit(x) \/ Abandon(x)
      PROVE  Done(x)
  BY <1>6 DEF CheckAnswer, AddRefused, AddCommit, RemoveCommit, Abandon
<1>7. ASSUME NEW x \in Sessions,
             \/ \E p \in Checked : CheckMiss(x, p)
             \/ \E p \in Phones : Add(x, p) \/ Remove(x, p)
             \/ \E P \in (SUBSET Phones) \ {{}} : ImportCsv(x, P)
             \/ AddWrite(x) \/ RemoveWrite(x)
      PROVE  \E op \in {"check", "add", "remove", "import_csv"} : \E ph, P, e, L :
                tx' = [tx EXCEPT ![x] = Request(op, ph, P, e, L)]
  <2>1. ASSUME NEW p, CheckMiss(x, p)
        PROVE  tx' = [tx EXCEPT ![x] = Request("check", "missed", {p}, NoEntry, {})]
    BY <2>1 DEF CheckMiss
  <2>2. ASSUME NEW p, Add(x, p)
        PROVE  tx' = [tx EXCEPT ![x] = Request("add", "read", {p}, NoEntry, {})]
    BY <2>2 DEF Add
  <2>3. ASSUME NEW p, Remove(x, p)
        PROVE  tx' = [tx EXCEPT ![x] = Request("remove", "read", {p},
                                          [NoEntry EXCEPT ![p] = ActiveEntry(p)], {})]
    BY <2>3 DEF Remove
  <2>4. ASSUME NEW P, ImportCsv(x, P)
        PROVE  \E e : tx' = [tx EXCEPT ![x] = Request("import_csv", "written", P, e, Rows(P))]
    BY <2>4 DEF ImportCsv
  <2>5. ASSUME AddWrite(x)
        PROVE  \E p, e : tx' = [tx EXCEPT ![x] = Request("add", "written", {p}, e, Rows({p}))]
    BY <2>5 DEF AddWrite
  <2>6. ASSUME RemoveWrite(x)
        PROVE  \E p, L : tx' = [tx EXCEPT ![x] = Request("remove", "written", {p},
                                                    tx[x].entry, L)]
    BY <2>6 DEF RemoveWrite
  <2> DEFINE Sent(op, ph, P, e, L) == tx' = [tx EXCEPT ![x] = Request(op, ph, P, e, L)]
  <2>7. ASSUME NEW op \in {"check", "add", "remove", "import_csv"}, NEW ph, NEW P, NEW e,
               NEW L, Sent(op, ph, P, e, L)
        PROVE  \E o \in {"check", "add", "remove", "import_csv"} : \E h, Q, c, K :
                  Sent(o, h, Q, c, K)
    BY <2>7
  <2> HIDE DEF Sent
  <2>8. \E o \in {"check", "add", "remove", "import_csv"} : \E h, Q, c, K : Sent(o, h, Q, c, K)
    <3>1. CASE \E p \in Checked : CheckMiss(x, p)
      BY <2>1, <2>7, <3>1 DEF Sent
    <3>2. CASE \E p \in Phones : Add(x, p)
      BY <2>2, <2>7, <3>2 DEF Sent
    <3>3. CASE \E p \in Phones : Remove(x, p)
      BY <2>3, <2>7, <3>3 DEF Sent
    <3>4. CASE \E P \in (SUBSET Phones) \ {{}} : ImportCsv(x, P)
      BY <2>4, <2>7, <3>4 DEF Sent
    <3>5. CASE AddWrite(x)
      BY <2>5, <2>7, <3>5 DEF Sent
    <3>6. CASE RemoveWrite(x)
      BY <2>6, <2>7, <3>6 DEF Sent
    <3>7. QED
      BY <1>7, <3>1, <3>2, <3>3, <3>4, <3>5, <3>6
  <2>9. QED
    BY <2>8 DEF Sent
<1>8. QED
  BY <1>3, <1>4, <1>5, <1>6, <1>7 DEF SuppressionNext

LEMMA SuppressionImport ==
  ASSUME Typed, ImportInv, SuppressionNext, UNCHANGED deskVars
  PROVE  ImportInv'
<1>1. UNCHANGED phone
  BY DEF SuppressionNext, RedisChanges, Expire, CheckMiss, Add, Remove, ImportCsv, CheckRead,
     CheckAnswer, AddWrite, AddRefused, AddCommit, RemoveWrite, RemoveCommit, Abandon
<1>2. \A y \in Sessions : SameRequest(y) \/ ~OnJob(y)'
  <2>1. CASE UNCHANGED tx
    BY <2>1 DEF SameRequest, OnJob
  <2>2. ASSUME NEW x \in Sessions, NEW r, DeskMove(x, r)
        PROVE  \A y \in Sessions : SameRequest(y) \/ ~OnJob(y)'
    <3>1. ~OnJob(x)'
      BY <2>2 DEF DeskMove, OnJob, Typed, TxTypes
    <3>2. QED
      BY <2>2, <3>1, OthersSame DEF DeskMove, Typed
  <2>3. QED
    BY <2>1, <2>2, DeskSteps
<1>3. \A j \in Jobs : SameRows(j)
  BY DEF SameRows, deskVars
<1>4. QED
  BY <1>1, <1>2, <1>3, ImportKept DEF deskVars

\* A request that goes on keeps its operation, its job and what it has read of it.
LEMMA ContinuedRequest ==
  ASSUME Typed, NEW x \in Sessions,
         MapKnown(x) \/ ImportSend(x) \/ ListLeads(x) \/ CheckRegister(x) \/ Push(x)
  PROVE  SameRequest(x)
<1>1. tx[x] \in JobRequests /\ OnJob(x)
  BY RequestKinds DEF MapKnown, ImportSend, ListLeads, CheckRegister, Push, Waits, OnJob, Typed
<1>2. CASE MapKnown(x) \/ ImportSend(x)
  BY <1>1, <1>2 DEF MapKnown, ImportSend, SameRequest, JobRequests, Typed, TxTypes
<1>3. CASE ListLeads(x)
  <2>1. \E b, T, B : tx' = [tx EXCEPT ![x].phase = "listed", ![x].locked = b, ![x].todo = T,
                                    ![x].blocked = B]
    BY <1>3 DEF ListLeads
  <2>2. QED
    BY <1>1, <2>1 DEF SameRequest, JobRequests, Typed, TxTypes
<1>4. CASE CheckRegister(x)
  <2>1. \E T, B : tx' = [tx EXCEPT ![x].phase = "pushing", ![x].blocked = B, ![x].todo = T]
    BY <1>4 DEF CheckRegister
  <2>2. QED
    BY <1>1, <2>1 DEF SameRequest, JobRequests, Typed, TxTypes
<1>5. CASE Push(x)
  BY <1>1, <1>5 DEF Push, SameRequest, JobRequests, Typed, TxTypes
<1>6. QED
  BY <1>2, <1>3, <1>4, <1>5

LEMMA QuietRows ==
  ASSUME Typed, NEW x \in Sessions,
         \/ MapKnown(x) \/ ImportSend(x) \/ ListLeads(x) \/ CheckRegister(x) \/ Push(x)
         \/ NothingToPush(x) \/ FinishRun(x) \/ FinishStop(x)
  PROVE  \A j \in Jobs : SameRows(j)
<1> DEFINE i == tx[x].job
<1>1. CASE FinishRun(x) \/ FinishStop(x)
  <2> DEFINE Written(list, run, active) ==
               jobs' = [jobs EXCEPT ![i].list = list, ![i].run = run, ![i].active = active]
  <2>1. \E list, run, active : Written(list, run, active)
    <3>1. CASE FinishRun(x)
      <4>1. PICK list \in {~tx[x].row.list, tx[x].locked} :
              Written(jobs[i].list \/ list,
                      Column(tx[x].row.run, Outcome(tx[x].got # {}), jobs[i].run),
                      Column(tx[x].row.active, tx[x].got # {}, jobs[i].active))
        BY <3>1 DEF FinishRun
      <4> HIDE DEF Written
      <4>2. QED
        BY <4>1
    <3>2. CASE FinishStop(x)
      <4>1. PICK list \in BOOLEAN :
              Written(jobs[i].list \/ list,
                      Column(tx[x].row.run, "interrupted", jobs[i].run),
                      Column(tx[x].row.active, FALSE, jobs[i].active))
        BY <3>2 DEF FinishStop
      <4> HIDE DEF Written
      <4>2. QED
        BY ZenonT(60), <4>1
    <3>3. QED
      BY <1>1, <3>1, <3>2
  <2>2. PICK list, run, active : jobs' = [jobs EXCEPT ![i].list = list, ![i].run = run,
                                                  ![i].active = active]
    BY ZenonT(60), <2>1
  <2> HIDE DEF i
  <2>3. QED
    BY <2>2 DEF Typed, JobTypes, JobRows, SameRows
<1>2. CASE ~(FinishRun(x) \/ FinishStop(x))
  BY <1>2 DEF MapKnown, ImportSend, ListLeads, CheckRegister, Push, NothingToPush, SameRows
<1>3. QED
  BY <1>1, <1>2

\* Steps that write no number and no rows, of requests that are under way.
LEMMA QuietImport ==
  ASSUME Typed, ImportInv, NEW x \in Sessions,
         \/ MapKnown(x) \/ ImportSend(x) \/ ListLeads(x) \/ CheckRegister(x) \/ Push(x)
         \/ NothingToPush(x) \/ FinishRun(x) \/ FinishStop(x)
  PROVE  ImportInv'
<1>1. UNCHANGED <<phone, file>>
  BY ZenonT(60) DEF MapKnown, ImportSend, ListLeads, CheckRegister, Push, NothingToPush, FinishRun,
     FinishStop, leadVars
<1>2. tx[x] \in JobRequests /\ OnJob(x)
  BY RequestKinds DEF MapKnown, ImportSend, ListLeads, CheckRegister, Push, NothingToPush,
     FinishRun, FinishStop, Waits, OnJob, Typed
<1>3. \A j \in Jobs : SameRows(j)
  BY QuietRows
<1>4. SameRequest(x) \/ ~OnJob(x)'
  <2>1. CASE NothingToPush(x) \/ FinishRun(x) \/ FinishStop(x)
    <3>1. Done(x)
      BY <2>1 DEF NothingToPush, FinishRun, FinishStop
    <3>2. QED
      BY <3>1 DEF Done, NoRequest, OnJob, Typed, TxTypes
  <2>2. QED
    BY <2>1, ContinuedRequest
<1>5. \A y \in Sessions : SameRequest(y) \/ ~OnJob(y)'
  <2>1. \E r : tx' = [tx EXCEPT ![x] = r]
    BY DEF MapKnown, ImportSend, ListLeads, CheckRegister, Push, NothingToPush, FinishRun,
       FinishStop, Done
  <2>2. QED
    BY <1>4, <2>1, OthersSame DEF Typed
<1>6. QED
  BY <1>1, <1>3, <1>5, ImportKept

LEMMA BeginImport ==
  ASSUME Typed, ImportInv, NEW x \in Sessions, NEW j \in Jobs,
         SaveMapping(x, j) \/ CommitImport(x, j) \/ StartRun(x, j) \/ StopRun(x, j)
           \/ DeleteLeads(x, j)
  PROVE  ImportInv'
<1>1. UNCHANGED <<phone, file, jobs>>
  BY DEF SaveMapping, CommitImport, StartRun, StopRun, DeleteLeads, leadVars
<1>2. ASSUME NEW op, NEW row, NEW r, tx' = [tx EXCEPT ![x] = r],
             r.op = op, r.job = j, r.row = row, KeptFor(j, row.rows),
             op \in {"map", "import"} => jobs[j].status # "absent",
             op \notin {"map", "import"} => row.rows.kept = {}
      PROVE  ImportInv'
  <2>1. RequestKept(x)'
    BY ZenonT(60), <1>1, <1>2, OthersSame DEF RequestKept, KeptFor, FileLines, FileRow, Typed
  <2>2. \A y \in Sessions : SameRequest(y) \/ ~OnJob(y)' \/ RequestKept(y)'
    BY <1>2, <2>1, OthersSame DEF Typed
  <2>3. QED
    BY <1>1, <2>2, ImportKept DEF SameRows
<1>3. /\ Wizard(j).rows = jobs[j].rows /\ Toggle(j).rows.kept = {} /\ NoJobRow.rows.kept = {}
  BY DEF Wizard, NoJobRow, Toggle, Raw, Typed, JobTypes, JobRows
<1>4. \A op, row : /\ JobRequest(op, j, row).op = op /\ JobRequest(op, j, row).job = j
                   /\ JobRequest(op, j, row).row = row
  BY DEF JobRequest
<1>5. KeptFor(j, jobs[j].rows)
  BY DEF ImportInv
<1>6. CASE SaveMapping(x, j)
  <2> DEFINE r == JobRequest("map", j, Wizard(j))
  <2>1. r.op = "map" /\ r.job = j /\ r.row = Wizard(j)
    BY <1>4
  <2>2. tx' = [tx EXCEPT ![x] = r]
    BY <1>6 DEF SaveMapping
  <2> HIDE DEF r
  <2>3. QED
    BY <1>2, <1>3, <1>5, <1>6, <2>1, <2>2, EmptyKept DEF SaveMapping
<1>7. CASE CommitImport(x, j)
  <2> DEFINE r == JobRequest("import", j, Wizard(j))
  <2>1. r.op = "import" /\ r.job = j /\ r.row = Wizard(j)
    BY <1>4
  <2>2. tx' = [tx EXCEPT ![x] = r]
    BY <1>7 DEF CommitImport
  <2> HIDE DEF r
  <2>3. QED
    BY <1>2, <1>3, <1>5, <1>7, <2>1, <2>2, EmptyKept DEF CommitImport, Committable, MayCommit
<1>8. CASE StartRun(x, j)
  <2> DEFINE r == JobRequest("run", j, Toggle(j))
  <2>1. r.op = "run" /\ r.job = j /\ r.row = Toggle(j)
    BY <1>4
  <2>2. tx' = [tx EXCEPT ![x] = r]
    BY <1>8 DEF StartRun
  <2> HIDE DEF r
  <2>3. QED
    BY ZenonT(60), <1>2, <1>3, <1>5, <1>8, <2>1, <2>2, EmptyKept DEF StartRun
<1>9. CASE StopRun(x, j)
  <2> DEFINE r == JobRequest("stop", j, Toggle(j))
  <2>1. r.op = "stop" /\ r.job = j /\ r.row = Toggle(j)
    BY <1>4
  <2>2. tx' = [tx EXCEPT ![x] = r]
    BY <1>9 DEF StopRun
  <2> HIDE DEF r
  <2>3. QED
    BY ZenonT(60), <1>2, <1>3, <1>5, <1>9, <2>1, <2>2, EmptyKept DEF StopRun
<1>10. CASE DeleteLeads(x, j)
  <2> DEFINE q == JobRequest("delete", j, NoJobRow)
             r == [q EXCEPT !.phase = "sent", !.wrote = Batch(j)]
  <2>1. r.op = "delete" /\ r.job = j /\ r.row = NoJobRow
    BY <1>4, NewJobRequest, JobRowTypes DEF JobRequests
  <2>2. tx' = [tx EXCEPT ![x] = r]
    BY <1>10 DEF DeleteLeads
  <2> HIDE DEF r
  <2>3. QED
    BY <1>2, <1>3, <2>1, <2>2, EmptyKept
<1>11. QED
  BY <1>6, <1>7, <1>8, <1>9, <1>10

\* A mapping that is over: the rows it keeps have a number, each a new one.
LEMMA MappedRows ==
  ASSUME Typed, NEW x \in Sessions, OnJob(x), NEW u \in BOOLEAN
  PROVE  KeptFor(tx[x].job, [raw |-> FALSE, kept |-> Kept(x, u)])
<1> DEFINE j == tx[x].job
<1>1. j \in Jobs
  BY RequestKinds DEF Typed, JobRequests
<1>2. FileLines(j) \subseteq Lines /\ \A i \in FileLines(j) : FileRow(j, i) \in Phones \cup {NoPhone}
  BY <1>1, FileShape DEF Typed
<1>3. \A i \in Lines : <<i, "insert">> \in Kept(x, u) =>
        /\ i \in FileLines(j) /\ FileRow(j, i) # NoPhone
        /\ \A k \in 1..(i - 1) : FileRow(j, k) # FileRow(j, i)
  BY DEF Kept, NewNumber, SkipsRepeated, FirstInFile
<1>4. Lines \subseteq Nat \ {0}
  BY BoundAssumption DEF Lines
<1>5. ASSUME NEW i \in Lines, NEW n \in Lines, <<i, "insert">> \in Kept(x, u),
             <<n, "insert">> \in Kept(x, u), FileRow(j, i) = FileRow(j, n)
      PROVE  i = n
  <2>1. ~(i < n) /\ ~(n < i)
    BY <1>3, <1>4, <1>5
  <2>2. QED
    BY <1>4, <2>1
<1>6. QED
  BY <1>2, <1>3, <1>5 DEF KeptFor

LEMMA MapClassifyImport ==
  ASSUME Typed, ImportInv, NEW x \in Sessions, MapClassify(x)
  PROVE  ImportInv'
<1> DEFINE j == tx[x].job
<1>1. OnJob(x) /\ tx[x] \in JobRequests /\ tx[x].op = "map"
  BY RequestKinds DEF MapClassify, Waits, OnJob, Typed
<1>2. PICK u, list \in BOOLEAN :
        jobs' = [jobs EXCEPT
         ![j].status = Column(tx[x].row.status, "validating", jobs[j].status),
         ![j].rows   = Column(tx[x].row.rows, [raw |-> FALSE, kept |-> Kept(x, u)], jobs[j].rows),
         ![j].list   = jobs[j].list \/ list]
  BY DEF MapClassify
<1>3. j \in Jobs /\ jobs[j].status # "absent"
  BY <1>1 DEF ImportInv, RequestKept, JobRequests
<1> DEFINE rows == [raw |-> FALSE, kept |-> Kept(x, u)]
<1>4. KeptFor(j, rows) /\ KeptFor(j, jobs[j].rows)
  BY <1>1, <1>3, MappedRows DEF ImportInv
<1> HIDE DEF rows
<1>5. /\ \A i \in Jobs : i # j => SameRows(i)
      /\ jobs'[j].rows \in {rows, jobs[j].rows}
      /\ jobs'[j].status \in {"validating", jobs[j].status}
  <2> DEFINE newStatus == Column(tx[x].row.status, "validating", jobs[j].status)
             newRows == Column(tx[x].row.rows, rows, jobs[j].rows)
             newList == jobs[j].list \/ list
  <2>1. jobs' = [jobs EXCEPT ![j].status = newStatus, ![j].rows = newRows, ![j].list = newList]
    BY <1>2 DEF rows
  <2>2. /\ newStatus \in {"validating", jobs[j].status}
        /\ newRows \in {rows, jobs[j].rows}
    BY DEF Column
  <2> HIDE DEF j, newStatus, newRows, newList
  <2>3. /\ \A i \in Jobs \ {j} : jobs'[i] = jobs[i]
        /\ jobs'[j].status = newStatus /\ jobs'[j].rows = newRows
    BY <1>3, <2>1 DEF Typed, JobTypes, JobRows
  <2>4. QED
    BY <2>2, <2>3 DEF SameRows
<1>6. \A i \in Jobs : SameRows(i) \/ (jobs'[i].status # "absent" /\ KeptFor(i, jobs'[i].rows))
  BY <1>3, <1>4, <1>5
<1>7. UNCHANGED <<file, phone>> /\ tx' = [tx EXCEPT ![x] = NoRequest]
  BY DEF MapClassify, leadVars, Done
<1>8. \A y \in Sessions : SameRequest(y) \/ ~OnJob(y)'
  BY <1>7, RequestOver DEF Typed
<1>9. QED
  BY <1>6, <1>7, <1>8, ImportKept

\* An upload: the job has kept nothing of an earlier file, and no request works
\* on it.
LEMMA UploadImport ==
  ASSUME Typed, ImportInv, NEW x \in Sessions, NEW j \in Jobs, Upload(x, j)
  PROVE  ImportInv'
<1>1. /\ UNCHANGED <<phone, tx>> /\ jobs' = [jobs EXCEPT ![j].status = "mapping"]
      /\ jobs[j].status = "absent" /\ \E f \in Files : file' = [file EXCEPT ![j] = f]
  BY DEF Upload, leadVars
<1>2. \A i \in Jobs : i # j => jobs'[i] = jobs[i] /\ file'[i] = file[i]
  BY <1>1 DEF Typed, JobTypes, FileTypes
<1>3. jobs'[j].status = "mapping" /\ jobs'[j].rows = jobs[j].rows /\ jobs[j].rows.kept = {}
  BY <1>1 DEF Typed, JobTypes, JobRows, ImportInv, Untouched
<1>4. \A i, rows : i \in Jobs \ {j} /\ KeptFor(i, rows) => KeptFor(i, rows)'
  BY ZenonT(60), <1>2 DEF KeptFor, FileLines, FileRow
<1>5. \A rows : rows.kept = {} => KeptFor(j, rows)'
  BY DEF KeptFor
<1>6. \A i \in Jobs : KeptFor(i, jobs[i].rows)'
  <2> TAKE i \in Jobs
  <2>1. CASE i = j
    BY <1>3, <2>1 DEF KeptFor
  <2>2. CASE i # j
    <3>1. jobs'[i] = jobs[i] /\ file'[i] = file[i] /\ KeptFor(i, jobs[i].rows)
      BY <1>2, <2>2 DEF ImportInv
    <3>2. QED
      BY <3>1 DEF KeptFor, FileLines, FileRow
  <2>3. QED
    BY <2>1, <2>2
<1>7. \A i \in Jobs : jobs'[i].status = "absent" => Untouched(i)'
  BY <1>1, <1>2, <1>3 DEF ImportInv, Untouched
<1>8. ASSUME NEW y \in Sessions, OnJob(y)
      PROVE  RequestKept(y)'
  <2>1. RequestKept(y) /\ tx[y].job \in Jobs
    BY <1>8, RequestKinds DEF ImportInv, Typed, JobRequests
  <2>2. CASE tx[y].job = j
    <3>1. tx[y].row.rows.kept = {} /\ tx[y].op \notin {"map", "import"}
      BY <1>1, <2>1, <2>2 DEF RequestKept
    <3>2. QED
      BY <1>1, <3>1 DEF RequestKept, KeptFor
  <2>3. CASE tx[y].job # j
    BY <1>1, <1>2, <1>4, <2>1, <2>3 DEF RequestKept, KeptFor, FileLines, FileRow
  <2>4. QED
    BY <2>2, <2>3
<1>9. QED
  BY <1>1, <1>6, <1>7, <1>8 DEF ImportInv, OnJob

LEMMA ImportFinishImport ==
  ASSUME Typed, ImportInv, NEW x \in Sessions, ImportFinish(x)
  PROVE  ImportInv'
<1> DEFINE j   == tx[x].job
           new == {i \in Lines : <<i, "insert">> \in tx[x].row.rows.kept}
<1>1. OnJob(x) /\ j \in Jobs
  BY RequestKinds DEF ImportFinish, Waits, OnJob, Typed, JobRequests
<1>2. PICK k \in Copies :
        phone' = [l \in Leads |-> IF l \in {<<j, i, k>> : i \in new}
                                      THEN FileRow(j, l[2]) ELSE phone[l]]
  BY DEF ImportFinish
<1>3. jobs' = [jobs EXCEPT ![j].status = "completed"] /\ UNCHANGED file
      /\ tx' = [tx EXCEPT ![x] = NoRequest]
  BY DEF ImportFinish, Done
<1>4. \A i \in Jobs : /\ i # j => SameRows(i)
                      /\ jobs'[i].rows = jobs[i].rows
                      /\ i = j => jobs'[i].status = "completed"
  BY <1>1, <1>3 DEF Typed, JobTypes, JobRows, SameRows
<1>5. \A i \in Jobs : SameRows(i) \/ (jobs'[i].status # "absent" /\ KeptFor(i, jobs'[i].rows))
  <2> HIDE DEF j
  <2> TAKE i \in Jobs
  <2>1. KeptFor(i, jobs'[i].rows)
    BY <1>4 DEF ImportInv
  <2>2. CASE i = j
    BY <1>4, <2>1, <2>2
  <2>3. QED
    BY <1>4, <2>2
<1>6. \A l \in Leads : phone[l] = NoPhone /\ phone'[l] # NoPhone
                         => jobs'[l[1]].status # "absent"
  <2> SUFFICES ASSUME NEW l \in Leads, phone[l] = NoPhone, phone'[l] # NoPhone
               PROVE  jobs'[l[1]].status # "absent"
    OBVIOUS
  <2>1. PICK i \in new : l = <<j, i, k>>
    BY <1>2
  <2>2. l[1] = j
    BY <2>1
  <2>3. jobs'[j].status = "completed"
    <3> HIDE DEF j
    <3>1. QED
      BY <1>1, <1>4
  <2>4. QED
    BY <2>2, <2>3
<1>7. \A y \in Sessions : SameRequest(y) \/ ~OnJob(y)'
  BY <1>3, RequestOver DEF Typed
<1>8. QED
  BY <1>3, <1>5, <1>6, <1>7, ImportKept

LEMMA DeleteBatchImport ==
  ASSUME Typed, ImportInv, NEW x \in Sessions, DeleteBatch(x)
  PROVE  ImportInv'
<1>1. OnJob(x) /\ tx[x].job \in Jobs
  BY RequestKinds DEF DeleteBatch, Waits, OnJob, Typed, JobRequests
<1> DEFINE j == tx[x].job
<1>2. /\ jobs' = [jobs EXCEPT ![j] = [NoJobRow EXCEPT !.status = "deleted"]]
      /\ tx' = [tx EXCEPT ![x] = NoRequest] /\ UNCHANGED file
      /\ phone' = [l \in Leads |-> IF l \in tx[x].wrote THEN NoPhone ELSE phone[l]]
  BY DEF DeleteBatch, Done
<1>3. \A i \in Jobs : /\ i # j => SameRows(i)
                      /\ i = j => jobs'[i].status = "deleted" /\ jobs'[i].rows.kept = {}
  BY <1>1, <1>2 DEF Typed, JobTypes, SameRows, NoJobRow, Raw
<1>4. \A i \in Jobs : SameRows(i) \/ (jobs'[i].status # "absent" /\ KeptFor(i, jobs'[i].rows))
  <2> HIDE DEF j
  <2>1. QED
    BY <1>3, EmptyKept
<1>5. \A l \in Leads : ~(phone[l] = NoPhone /\ phone'[l] # NoPhone)
  BY <1>2
<1>6. \A y \in Sessions : SameRequest(y) \/ ~OnJob(y)'
  BY <1>2, RequestOver DEF Typed
<1>7. QED
  BY <1>2, <1>4, <1>5, <1>6, ImportKept

LEMMA JobImport ==
  ASSUME Typed, ImportInv, JobNext
  PROVE  ImportInv'
<1>1. ASSUME NEW j \in Jobs, NEW set \in BOOLEAN, AssignList(j, set)
      PROVE  ImportInv'
  <2>1. \A i \in Jobs : SameRows(i)
    BY <1>1 DEF AssignList, Typed, JobTypes, JobRows, SameRows
  <2>2. QED
    BY <1>1, <2>1, ImportKept DEF AssignList, leadVars, SameRequest, OnJob
<1>2. ASSUME NEW l \in Leads, NEW p \in Phones, NEW s \in LeadStatuses, UpdateLead(l, p, s)
      PROVE  ImportInv'
  <2>1. \A m \in Leads : ~(phone[m] = NoPhone /\ phone'[m] # NoPhone)
    BY <1>2 DEF UpdateLead, Typed, LeadTypes
  <2>2. QED
    BY <1>2, <2>1, ImportKept DEF UpdateLead, SameRequest, OnJob, SameRows
<1>3. QED
  BY <1>1, <1>2, QuietImport, BeginImport, MapClassifyImport, UploadImport, ImportFinishImport,
     DeleteBatchImport DEF JobNext

-----------------------------------------------------------------------------
(* The type invariant, with what is kept for insertion.                      *)

ImportedInv == Typed /\ ImportInv

LEMMA RegisterWritesNoNumber ==
  ASSUME SuppressionNext
  PROVE  UNCHANGED phone
BY DEF SuppressionNext, RedisChanges, Expire, CheckMiss, Add, Remove, ImportCsv, CheckRead,
   CheckAnswer, AddWrite, AddRefused, AddCommit, RemoveWrite, RemoveCommit, Abandon

LEMMA Imported == Spec => []ImportedInv
<1>1. Init => ImportedInv
  BY EntryAssumption, IdsAreNumbers, StatusAssumption, FS_EmptySet
     DEF Init, SuppressionInit, JobInit, Typed, RegisterTypes, Register, Verdicts, LeadTypes,
         TxTypes, Requests, JobTypes, NoJobRow, JobRows, RowSets, Raw, FileTypes, NoFile,
         HopperTypes, ImportInv, KeptFor, Untouched, OnJob, NoRequest, ImportedInv
<1>2. ImportedInv /\ [Next]_vars => ImportedInv'
  <2> USE DEF ImportedInv
  <2>1. CASE UNCHANGED vars
    <3>1. UNCHANGED <<register, cache, redis, phone, flagged, status, dialerId, tx, jobs, file,
                      hopper>>
      BY <2>1 DEF vars, leadVars
    <3>2. QED
      BY <3>1 DEF Typed, RegisterTypes, LeadTypes, TxTypes, JobTypes, FileTypes, HopperTypes,
         ImportInv, KeptFor, FileLines, FileRow, Untouched, OnJob, RequestKept
  <2>2. QED
    BY <2>1, JobTyped, JobImport, SuppressionTyped, SuppressionImport DEF Next, deskVars
<1>3. QED
  BY <1>1, <1>2, PTL DEF Spec

\* Every column of a request, a lead, a job and a register entry keeps its type,
\* for any sessions, jobs, files and bounds: what service.py reads from one row and
\* writes to another fits the column, however the requests overlap.
THEOREM TypeTheorem == Spec => []TypeOK
<1>1. ImportedInv => TypeOK
  BY TypedIsTypeOK DEF ImportedInv
<1>2. QED
  BY <1>1, Imported, PTL

-----------------------------------------------------------------------------
(* One insert has each number of its file once.                              *)

LEMMA LeadParts ==
  ASSUME NEW l \in Leads
  PROVE  /\ l = <<l[1], l[2], l[3]>>
         /\ l[1] \in Jobs /\ l[2] \in Lines /\ l[3] \in Copies
BY LeadAssumption

\* Steps that write no number leave it so.
LEMMA OnceQuiet ==
  ASSUME NumberOncePerInsert, UNCHANGED file,
         \A l \in Leads : phone[l] = NoPhone => phone'[l] = NoPhone
  PROVE  NumberOncePerInsert'
BY DEF NumberOncePerInsert, FileRow

LEMMA OnceUpload ==
  ASSUME ImportedInv, NumberOncePerInsert, NEW x \in Sessions, NEW j \in Jobs, Upload(x, j)
  PROVE  NumberOncePerInsert'
<1>1. UNCHANGED phone /\ \A i \in Jobs : i # j => file'[i] = file[i]
  BY DEF Upload, leadVars, ImportedInv, Typed, FileTypes
<1>2. \A l \in Leads : l[1] = j => phone[l] = NoPhone
  BY DEF Upload, ImportedInv, ImportInv, Untouched
<1>3. SUFFICES ASSUME NEW l \in Leads, NEW m \in Leads, phone[l] # NoPhone, phone[m] # NoPhone,
                      l[1] = m[1], l[3] = m[3], (FileRow(l[1], l[2]) = FileRow(m[1], m[2]))'
               PROVE  l = m
  BY <1>1 DEF NumberOncePerInsert
<1>4. l[1] # j /\ l[1] \in Jobs
  BY <1>2, <1>3, LeadParts
<1>5. FileRow(l[1], l[2]) = FileRow(m[1], m[2])
  BY <1>1, <1>3, <1>4 DEF FileRow
<1>6. QED
  BY <1>3, <1>5 DEF NumberOncePerInsert

LEMMA OnceImport ==
  ASSUME ImportedInv, NumberOncePerInsert, NEW x \in Sessions, ImportFinish(x)
  PROVE  NumberOncePerInsert'
<1> DEFINE j   == tx[x].job
           new == {i \in Lines : <<i, "insert">> \in tx[x].row.rows.kept}
<1>1. OnJob(x) /\ j \in Jobs
  BY RequestKinds DEF ImportFinish, Waits, OnJob, ImportedInv, Typed, JobRequests
<1>2. PICK k \in Copies \ Used(j) :
        phone' = [l \in Leads |-> IF l \in {<<j, i, k>> : i \in new}
                                      THEN FileRow(j, l[2]) ELSE phone[l]]
  BY DEF ImportFinish
<1>3. KeptFor(j, tx[x].row.rows)
  BY <1>1 DEF ImportedInv, ImportInv, RequestKept
<1> DEFINE Ins == {<<j, i, k>> : i \in new}
<1>4. ASSUME NEW l \in Ins
      PROVE  l[1] = j /\ l[2] \in new /\ l[3] = k
  <2>1. PICK i \in new : l = <<j, i, k>>
    OBVIOUS
  <2>2. QED
    BY <2>1
<1>5. \A l \in Leads \ Ins : phone'[l] = phone[l]
  BY <1>2
<1>6. \A l \in Leads : l[1] = j /\ l[3] = k => phone[l] = NoPhone
  <2> SUFFICES ASSUME NEW l \in Leads, l[1] = j, l[3] = k, phone[l] # NoPhone
               PROVE  FALSE
    OBVIOUS
  <2>1. l = <<j, l[2], k>> /\ l[2] \in Lines
    BY LeadParts
  <2>2. k \in Used(j)
    BY <1>2, <2>1 DEF Used
  <2>3. QED
    BY <1>2, <2>2
<1> SUFFICES ASSUME NEW l \in Leads, NEW m \in Leads, phone'[l] # NoPhone, phone'[m] # NoPhone,
                    l[1] = m[1], l[3] = m[3], FileRow(l[1], l[2]) = FileRow(m[1], m[2])
             PROVE  l = m
  BY DEF ImportFinish, NumberOncePerInsert, FileRow
<1> HIDE DEF j, new, Ins
<1>7. CASE l \notin Ins /\ m \notin Ins
  BY <1>5, <1>7 DEF NumberOncePerInsert
<1>8. CASE l \in Ins /\ m \notin Ins
  BY <1>4, <1>5, <1>6, <1>8
<1>9. CASE l \notin Ins /\ m \in Ins
  BY <1>4, <1>5, <1>6, <1>9
<1>10. CASE l \in Ins /\ m \in Ins
  <2>1. l[1] = j /\ m[1] = j /\ l[2] \in new /\ m[2] \in new
    BY <1>4, <1>10
  <2>2. l[2] = m[2]
    BY <1>3, <2>1 DEF KeptFor, new
  <2>3. QED
    BY <2>2, LeadParts
<1>11. QED
  BY <1>7, <1>8, <1>9, <1>10

\* However mappings, commits, deletions and edits race, one insert of an uploaded
\* file has each of its numbers at most once: classify_row keeps a repeated number
\* once, and a retried commit inserts the rows it has kept and no others.
THEOREM NumberOncePerInsertTheorem == Spec => []NumberOncePerInsert
<1>1. Init => NumberOncePerInsert
  BY DEF Init, SuppressionInit, NumberOncePerInsert
<1>2. ImportedInv /\ ImportedInv' /\ NumberOncePerInsert /\ [Next]_vars => NumberOncePerInsert'
  <2> SUFFICES ASSUME ImportedInv, NumberOncePerInsert, [Next]_vars
               PROVE  NumberOncePerInsert'
    OBVIOUS
  <2>1. CASE UNCHANGED vars
    BY <2>1, OnceQuiet DEF vars, leadVars
  <2>2. CASE SuppressionNext /\ UNCHANGED <<status, dialerId, jobs, file, hopper>>
    BY <2>2, OnceQuiet, RegisterWritesNoNumber
  <2>3. ASSUME NEW x \in Sessions,
               \/ \E j \in Jobs : \/ SaveMapping(x, j) \/ CommitImport(x, j)
                                  \/ StartRun(x, j) \/ StopRun(x, j) \/ DeleteLeads(x, j)
               \/ MapKnown(x) \/ MapClassify(x) \/ ImportSend(x)
               \/ ListLeads(x) \/ NothingToPush(x) \/ CheckRegister(x) \/ Push(x)
               \/ FinishRun(x) \/ FinishStop(x)
        PROVE  NumberOncePerInsert'
    <3>1. UNCHANGED <<phone, file>>
      BY <2>3 DEF SaveMapping, CommitImport, StartRun, StopRun, DeleteLeads, MapKnown, MapClassify,
         ImportSend, ListLeads, NothingToPush, CheckRegister, Push, FinishRun, FinishStop, leadVars
    <3>2. QED
      BY <3>1, OnceQuiet
  <2>4. ASSUME NEW x \in Sessions, DeleteBatch(x)
        PROVE  NumberOncePerInsert'
    BY <2>4, OnceQuiet DEF DeleteBatch
  <2>5. ASSUME NEW j \in Jobs, NEW set \in BOOLEAN, AssignList(j, set)
        PROVE  NumberOncePerInsert'
    BY <2>5, OnceQuiet DEF AssignList, leadVars
  <2>6. ASSUME NEW l \in Leads, NEW p \in Phones, NEW s \in LeadStatuses, UpdateLead(l, p, s)
        PROVE  NumberOncePerInsert'
    BY <2>6, OnceQuiet DEF UpdateLead, ImportedInv, Typed, LeadTypes
  <2>7. QED
    BY <2>1, <2>2, <2>3, <2>4, <2>5, <2>6, OnceUpload, OnceImport DEF Next, JobNext
<1>3. QED
  BY <1>1, <1>2, Imported, PTL DEF Spec

-----------------------------------------------------------------------------
(* One active entry per number.  An entry that is inserted and not committed   *)
(* keeps every other insert of its number out, and no entry is active beside   *)
(* it: the unique index sees it.                                              *)

Inserting(x, p) == /\ tx[x].op \in {"add", "import_csv"} /\ tx[x].phase = "written"
                   /\ tx[x].entry[p] # 0

PendingInsert ==
  \A x \in Sessions, p \in Phones : Inserting(x, p) =>
    register[p].active = {} /\ \A y \in Sessions : Inserting(y, p) => y = x

SingleActive == \A p \in Phones : \E n \in 0..MaxEntries : register[p].active \subseteq {n}

ActiveInv == PendingInsert /\ SingleActive

LEMMA SingleIsOne == ASSUME Typed, SingleActive PROVE OneActiveEntry
<1> SUFFICES ASSUME NEW p \in Phones
             PROVE  Cardinality(register[p].active) <= 1
  BY DEF OneActiveEntry
<1>1. PICK n \in 0..MaxEntries : register[p].active \subseteq {n}
  BY DEF SingleActive
<1>2. register[p].active = {} \/ register[p].active = {n}
  BY <1>1
<1>3. Cardinality({}) = 0 /\ Cardinality({n}) = 1
  BY FS_EmptySet, FS_Singleton
<1>4. QED
  BY <1>2, <1>3

\* Steps that insert and commit nothing.
LEMMA ActiveQuiet ==
  ASSUME ActiveInv,
         \A p \in Phones : register'[p].active \subseteq register[p].active,
         \A y \in Sessions, p \in Phones : Inserting(y, p)' => Inserting(y, p)
  PROVE  ActiveInv'
BY DEF ActiveInv, PendingInsert, SingleActive

\* An insert finds the index free: no other is under way, and none is active.
LEMMA ActiveInsert ==
  ASSUME ActiveInv, Typed, NEW x \in Sessions, NEW P \in SUBSET Phones,
         \A p \in P : IndexFree(x, p) /\ register[p].active = {},
         \A p \in Phones : register'[p].active = register[p].active,
         \A p \in Phones : Inserting(x, p)' => p \in P,
         \A y \in Sessions \ {x}, p \in Phones : Inserting(y, p)' => Inserting(y, p)
  PROVE  ActiveInv'
<1>1. SingleActive'
  BY DEF ActiveInv, SingleActive
<1>2. \A p \in P, y \in Sessions \ {x} : ~Inserting(y, p)
  BY DEF IndexFree, Touched, Inserting
<1>3. PendingInsert'
  BY <1>2 DEF ActiveInv, PendingInsert
<1>4. QED
  BY <1>1, <1>3 DEF ActiveInv

LEMMA ActiveCommit ==
  ASSUME ActiveInv, Typed, NEW x \in Sessions, AddCommit(x)
  PROVE  ActiveInv'
<1>1. tx[x] \in DeskRequests /\ tx[x].phase = "written" /\ tx[x].op \in {"add", "import_csv"}
  BY RequestKinds DEF AddCommit, Waits, Typed
<1>2. \A p \in Phones :
        register'[p].active = register[p].active \cup ({tx[x].entry[p]} \ {0})
  BY DEF AddCommit
<1>3. tx' = [tx EXCEPT ![x] = NoRequest]
  BY DEF AddCommit, Done
<1>4. \A p \in Phones : ~Inserting(x, p)'
  BY <1>3 DEF Inserting, NoRequest, Typed, TxTypes
<1>5. \A y \in Sessions \ {x}, p \in Phones : Inserting(y, p)' => Inserting(y, p)
  BY <1>3 DEF Inserting, Typed, TxTypes
<1>6. \A p \in Phones : tx[x].entry[p] # 0 => Inserting(x, p)
  BY <1>1 DEF Inserting
<1>7. SingleActive'
  <2> SUFFICES ASSUME NEW p \in Phones
               PROVE  \E n \in 0..MaxEntries : register'[p].active \subseteq {n}
    BY DEF SingleActive
  <2>1. CASE tx[x].entry[p] = 0
    BY <1>2, <2>1 DEF ActiveInv, SingleActive
  <2>2. CASE tx[x].entry[p] # 0
    <3>1. register[p].active = {} /\ tx[x].entry[p] \in 0..MaxEntries
      BY <1>1, <1>6, <2>2 DEF ActiveInv, PendingInsert, DeskRequests
    <3>2. QED
      BY <1>2, <3>1
  <2>3. QED
    BY <2>1, <2>2
<1>8. PendingInsert'
  <2> SUFFICES ASSUME NEW y \in Sessions, NEW p \in Phones, Inserting(y, p)'
               PROVE  register'[p].active = {} /\ \A z \in Sessions : Inserting(z, p)' => z = y
    BY DEF PendingInsert
  <2>1. y # x /\ Inserting(y, p)
    BY <1>4, <1>5
  <2>2. register[p].active = {} /\ \A z \in Sessions : Inserting(z, p) => z = y
    BY <2>1 DEF ActiveInv, PendingInsert
  <2>3. tx[x].entry[p] = 0
    BY <1>6, <2>1, <2>2
  <2>4. QED
    BY <1>2, <1>4, <1>5, <2>2, <2>3
<1>9. QED
  BY <1>7, <1>8 DEF ActiveInv

LEMMA RequestFields ==
  \A op, ph, P, e, L : /\ Request(op, ph, P, e, L).op = op
                       /\ Request(op, ph, P, e, L).phase = ph
                       /\ Request(op, ph, P, e, L).phones = P
                       /\ Request(op, ph, P, e, L).entry = e
                       /\ Request(op, ph, P, e, L).wrote = L
BY DEF Request

\* A request that goes on or ends, and has not sent an insert.
LEMMA ActiveRequest ==
  ASSUME ActiveInv, TxTypes, NEW x \in Sessions, NEW r, tx' = [tx EXCEPT ![x] = r],
         r.op \notin {"add", "import_csv"} \/ r.phase # "written",
         \A p \in Phones : register'[p].active \subseteq register[p].active
  PROVE  ActiveInv'
<1>1. \A p \in Phones : ~Inserting(x, p)'
  BY DEF Inserting, TxTypes
<1>2. \A y \in Sessions \ {x}, p \in Phones : Inserting(y, p)' => Inserting(y, p)
  BY DEF Inserting, TxTypes
<1>3. QED
  BY <1>1, <1>2, ActiveQuiet

LEMMA ActiveAddWrite ==
  ASSUME ActiveInv, Typed, NEW x \in Sessions, AddWrite(x)
  PROVE  ActiveInv'
<1>1. tx[x] \in DeskRequests
  BY RequestKinds DEF AddWrite, Waits, Typed
<1>2. PICK p \in tx[x].phones :
        LET n == register[p].used + 1 IN
        /\ IndexFree(x, p) /\ register[p].active = {}
        /\ register' = [register EXCEPT ![p].used = n]
        /\ tx' = [tx EXCEPT ![x] = Request("add", "written", {p},
                                     [NoEntry EXCEPT ![p] = n], Rows({p}))]
  BY DEF AddWrite, Conflict
<1> DEFINE e == [NoEntry EXCEPT ![p] = register[p].used + 1]
<1>3. p \in Phones /\ \A q \in Phones \ {p} : e[q] = 0
  BY <1>1, <1>2 DEF DeskRequests, NoEntry
<1> HIDE DEF e
<1>4. tx'[x].entry = e
  BY <1>2, RequestFields DEF Typed, TxTypes, e
<1>5. \A q \in Phones : Inserting(x, q)' => q \in {p}
  BY <1>3, <1>4 DEF Inserting
<1>6. \A y \in Sessions \ {x}, q \in Phones : Inserting(y, q)' => Inserting(y, q)
  BY <1>2 DEF Inserting, Typed, TxTypes
<1>7. \A q \in Phones : register'[q].active = register[q].active
  BY <1>2 DEF Typed, RegisterTypes, Register
<1>8. QED
  BY <1>2, <1>3, <1>5, <1>6, <1>7, ActiveInsert

LEMMA ActiveImportCsv ==
  ASSUME ActiveInv, Typed, NEW x \in Sessions, NEW P \in SUBSET Phones, ImportCsv(x, P)
  PROVE  ActiveInv'
<1> DEFINE new == {p \in P : ~Conflict(p)}
           e == [p \in Phones |-> IF p \in new THEN register[p].used + 1 ELSE 0]
<1>1. \A p \in new : IndexFree(x, p) /\ register[p].active = {}
  BY DEF ImportCsv, Conflict
<1>2. tx' = [tx EXCEPT ![x] = Request("import_csv", "written", P, e, Rows(P))]
  BY DEF ImportCsv
<1>3. \A p \in Phones : register'[p].active = register[p].active
  BY DEF ImportCsv
<1>4. \A p \in Phones : e[p] # 0 => p \in new
  OBVIOUS
<1> HIDE DEF e
<1>5. tx'[x].entry = e
  BY <1>2, RequestFields DEF Typed, TxTypes
<1>6. \A p \in Phones : Inserting(x, p)' => p \in new
  BY <1>4, <1>5 DEF Inserting
<1>7. \A y \in Sessions \ {x}, p \in Phones : Inserting(y, p)' => Inserting(y, p)
  BY <1>2 DEF Inserting, Typed, TxTypes
<1>8. new \in SUBSET Phones
  OBVIOUS
<1> HIDE DEF new
<1>9. QED
  BY <1>1, <1>3, <1>6, <1>7, <1>8, ActiveInsert

LEMMA ActiveSuppression ==
  ASSUME ActiveInv, Typed, SuppressionNext
  PROVE  ActiveInv'
<1>1. CASE RedisChanges \/ \E p \in Phones : Expire(p)
  BY <1>1, ActiveQuiet DEF RedisChanges, Expire, Inserting
<1>2. ASSUME NEW x \in Sessions, Done(x),
             \A p \in Phones : register'[p].active \subseteq register[p].active
      PROVE  ActiveInv'
  <2>1. NoRequest.op = "none"
    BY DEF NoRequest
  <2>2. QED
    BY <1>2, <2>1, ActiveRequest DEF Done, Typed
<1>3. ASSUME NEW x \in Sessions, CheckAnswer(x) \/ AddRefused(x) \/ RemoveCommit(x) \/ Abandon(x)
      PROVE  ActiveInv'
  BY <1>2, <1>3 DEF CheckAnswer, AddRefused, RemoveCommit, Abandon
<1>4. ASSUME NEW x \in Sessions, NEW op, NEW ph, NEW P, NEW e, NEW L,
             tx' = [tx EXCEPT ![x] = Request(op, ph, P, e, L)],
             op \notin {"add", "import_csv"} \/ ph # "written",
             UNCHANGED register
      PROVE  ActiveInv'
  <2> DEFINE r == Request(op, ph, P, e, L)
  <2>1. r.op = op /\ r.phase = ph
    BY RequestFields
  <2>2. tx' = [tx EXCEPT ![x] = r]
    BY <1>4
  <2> HIDE DEF r
  <2>3. QED
    BY <1>4, <2>1, <2>2, ActiveRequest DEF Typed
<1>5. ASSUME NEW x \in Sessions, NEW p, CheckMiss(x, p)
      PROVE  ActiveInv'
  BY <1>4, <1>5 DEF CheckMiss
<1>6. ASSUME NEW x \in Sessions, NEW p, Add(x, p)
      PROVE  ActiveInv'
  BY <1>4, <1>6 DEF Add
<1>7. ASSUME NEW x \in Sessions, NEW p, Remove(x, p)
      PROVE  ActiveInv'
  BY <1>4, <1>7 DEF Remove
<1>8. ASSUME NEW x \in Sessions, RemoveWrite(x)
      PROVE  ActiveInv'
  <2>1. PICK p, L : tx' = [tx EXCEPT ![x] = Request("remove", "written", {p}, tx[x].entry, L)]
    BY <1>8 DEF RemoveWrite
  <2>2. UNCHANGED register
    BY <1>8 DEF RemoveWrite
  <2>3. QED
    BY <1>4, <2>1, <2>2
<1>9. ASSUME NEW x \in Sessions, CheckRead(x)
      PROVE  ActiveInv'
  <2>1. /\ tx[x] \in DeskRequests /\ tx[x].op = "check" /\ UNCHANGED register
        /\ \E e : tx' = [tx EXCEPT ![x].phase = "read", ![x].entry = e]
    BY <1>9, RequestKinds DEF CheckRead, Waits, Typed
  <2>2. PICK e : tx' = [tx EXCEPT ![x] = [tx[x] EXCEPT !.phase = "read", !.entry = e]]
    BY <2>1
  <2> DEFINE r == [tx[x] EXCEPT !.phase = "read", !.entry = e]
  <2>3. r.op = "check"
    BY <2>1 DEF DeskRequests
  <2>4. tx' = [tx EXCEPT ![x] = r]
    BY <2>2
  <2> HIDE DEF r
  <2>5. QED
    BY <2>1, <2>3, <2>4, ActiveRequest DEF Typed
<1>10. QED
  BY <1>1, <1>3, <1>5, <1>6, <1>7, <1>8, <1>9, ActiveCommit, ActiveAddWrite, ActiveImportCsv
     DEF SuppressionNext

\* A step on a job moves one request, which goes on, begins or ends.
LEMMA JobSteps ==
  ASSUME Typed, JobNext
  PROVE  \/ UNCHANGED tx
         \/ \E x \in Sessions : \E r : tx' = [tx EXCEPT ![x] = r] /\ (OnJob(x)' \/ Idle(x)')
<1>1. ASSUME NEW x \in Sessions, Done(x)
      PROVE  \E r : tx' = [tx EXCEPT ![x] = r] /\ (OnJob(x)' \/ Idle(x)')
  <2>1. Idle(x)'
    BY <1>1 DEF Done, Idle, NoRequest, Typed, TxTypes
  <2>2. QED
    BY <1>1, <2>1 DEF Done
<1>2. ASSUME NEW x \in Sessions, NEW j \in Jobs,
             SaveMapping(x, j) \/ CommitImport(x, j) \/ StartRun(x, j) \/ StopRun(x, j)
               \/ DeleteLeads(x, j)
      PROVE  \E r : tx' = [tx EXCEPT ![x] = r] /\ (OnJob(x)' \/ Idle(x)')
  <2>1. \A op, row : JobRequest(op, j, row).op = op
    BY DEF JobRequest
  <2>2. ASSUME NEW op \in {"map", "import", "run", "stop"}, NEW row,
               tx' = [tx EXCEPT ![x] = JobRequest(op, j, row)]
        PROVE  \E r : tx' = [tx EXCEPT ![x] = r] /\ (OnJob(x)' \/ Idle(x)')
    <3> DEFINE r == JobRequest(op, j, row)
    <3>1. r.op = op /\ tx' = [tx EXCEPT ![x] = r]
      BY <2>1, <2>2
    <3> HIDE DEF r
    <3>2. QED
      BY <3>1 DEF OnJob, Typed, TxTypes
  <2>3. CASE SaveMapping(x, j)
    BY <2>2, <2>3 DEF SaveMapping
  <2>4. CASE CommitImport(x, j)
    BY <2>2, <2>4 DEF CommitImport
  <2>5. CASE StartRun(x, j)
    BY <2>2, <2>5 DEF StartRun
  <2>6. CASE StopRun(x, j)
    BY <2>2, <2>6 DEF StopRun
  <2>7. CASE DeleteLeads(x, j)
    <3> DEFINE q == JobRequest("delete", j, NoJobRow)
               r == [q EXCEPT !.phase = "sent", !.wrote = Batch(j)]
    <3>1. r.op = "delete"
      BY <2>1, NewJobRequest, JobRowTypes DEF JobRequests
    <3>2. tx' = [tx EXCEPT ![x] = r]
      BY <2>7 DEF DeleteLeads
    <3> HIDE DEF r
    <3>3. QED
      BY <3>1, <3>2 DEF OnJob, Typed, TxTypes
  <2>8. QED
    BY <1>2, <2>3, <2>4, <2>5, <2>6, <2>7
<1>3. ASSUME NEW x \in Sessions,
             MapKnown(x) \/ ImportSend(x) \/ ListLeads(x) \/ CheckRegister(x) \/ Push(x)
      PROVE  \E r : tx' = [tx EXCEPT ![x] = r] /\ (OnJob(x)' \/ Idle(x)')
  <2>1. OnJob(x)'
    BY <1>3, ContinuedRequest DEF SameRequest, OnJob
  <2>2. \E r : tx' = [tx EXCEPT ![x] = r]
    BY ZenonT(60), <1>3 DEF MapKnown, ImportSend, ListLeads, CheckRegister, Push
  <2>3. QED
    BY <2>1, <2>2
<1>4. ASSUME NEW x \in Sessions, \/ MapClassify(x) \/ ImportFinish(x) \/ NothingToPush(x)
                                 \/ FinishRun(x) \/ FinishStop(x) \/ DeleteBatch(x)
      PROVE  Done(x)
  BY <1>4 DEF MapClassify, ImportFinish, NothingToPush, FinishRun, FinishStop, DeleteBatch
<1>5. CASE \/ \E x \in Sessions, j \in Jobs : Upload(x, j)
           \/ \E j \in Jobs, set \in BOOLEAN : AssignList(j, set)
           \/ \E l \in Leads, p \in Phones, s \in LeadStatuses : UpdateLead(l, p, s)
  BY <1>5 DEF Upload, AssignList, UpdateLead
<1>6. QED
  BY <1>1, <1>2, <1>3, <1>4, <1>5 DEF JobNext

LEMMA JobsLeaveRegister ==
  ASSUME JobNext
  PROVE  UNCHANGED <<register, cache, redis>>
<1>1. ASSUME NEW x \in Sessions, NEW j \in Jobs,
             \/ Upload(x, j) \/ SaveMapping(x, j) \/ CommitImport(x, j)
             \/ StartRun(x, j) \/ StopRun(x, j) \/ DeleteLeads(x, j)
      PROVE  UNCHANGED <<register, cache, redis>>
  BY <1>1 DEF Upload, SaveMapping, CommitImport, StartRun, StopRun, DeleteLeads
<1>2. ASSUME NEW x \in Sessions,
             \/ MapKnown(x) \/ MapClassify(x) \/ ImportSend(x) \/ ImportFinish(x)
             \/ ListLeads(x) \/ NothingToPush(x) \/ CheckRegister(x) \/ Push(x)
             \/ FinishRun(x) \/ FinishStop(x) \/ DeleteBatch(x)
      PROVE  UNCHANGED <<register, cache, redis>>
  BY <1>2 DEF MapKnown, MapClassify, ImportSend, ImportFinish, ListLeads, NothingToPush,
     CheckRegister, Push, FinishRun, FinishStop, DeleteBatch
<1>3. QED
  BY <1>1, <1>2 DEF JobNext, AssignList, UpdateLead

LEMMA ActiveJob ==
  ASSUME ActiveInv, Typed, JobNext
  PROVE  ActiveInv'
<1>1. UNCHANGED register
  BY JobsLeaveRegister
<1>2. CASE UNCHANGED tx
  BY <1>1, <1>2, ActiveQuiet DEF Inserting
<1>3. ASSUME NEW x \in Sessions, NEW r, tx' = [tx EXCEPT ![x] = r], OnJob(x)' \/ Idle(x)'
      PROVE  ActiveInv'
  <2>1. r.op \notin {"add", "import_csv"}
    BY <1>3 DEF Typed, TxTypes, OnJob, Idle
  <2>2. QED
    BY <1>1, <1>3, <2>1, ActiveRequest DEF Typed
<1>4. QED
  BY <1>2, <1>3, JobSteps

LEMMA Active == Spec => []ActiveInv
<1>1. Init => ActiveInv
  BY EntryAssumption DEF Init, SuppressionInit, ActiveInv, PendingInsert, SingleActive, Inserting,
     NoRequest
<1>2. ImportedInv /\ ActiveInv /\ [Next]_vars => ActiveInv'
  <2>1. CASE UNCHANGED vars
    BY <2>1 DEF vars, ActiveInv, PendingInsert, SingleActive, Inserting
  <2>2. QED
    BY <2>1, ActiveJob, ActiveSuppression DEF Next, ImportedInv
<1>3. QED
  BY <1>1, <1>2, Imported, PTL DEF Spec

\* However additions, imports and removals of a number overlap, it has at most one
\* active entry, so that one removal lifts the suppression: the unique index is what
\* keeps two add_entry apart, their look-ups do not.
THEOREM OneActiveEntryTheorem == Spec => []OneActiveEntry
<1>1. ImportedInv /\ ActiveInv => OneActiveEntry
  BY SingleIsOne DEF ImportedInv, ActiveInv
<1>2. QED
  BY <1>1, Imported, Active, PTL

-----------------------------------------------------------------------------
(* What a run pushes.  The register is read once, after the leads; what was    *)
(* suppressed before the request began, and was not lifted since, is in it.     *)

\* The numbers that are left to push have not been suppressed all along.
Safe ==
  \A x \in Sessions : Waits(x, "run", "pushing") => \A t \in tx[x].todo : t[2] \notin settled[x]

SettledTrue == \A x \in Sessions : settled[x] \subseteq Suppressed

\* A request that is a run now was so before, or begins.
LEMMA RunSteps ==
  ASSUME ImportedInv, Next, NEW x \in Sessions, tx'[x].op = "run"
  PROVE  \/ tx'[x] = tx[x]
         \/ ListLeads(x) \/ CheckRegister(x) \/ Push(x)
         \/ \E j \in Jobs : StartRun(x, j)
<1> USE DEF ImportedInv
<1>1. CASE SuppressionNext
  <2>1. ASSUME NEW y \in Sessions, NEW r, DeskMove(y, r)
        PROVE  tx'[x] = tx[x]
    BY <2>1 DEF DeskMove, Typed, TxTypes
  <2>2. QED
    BY <1>1, <2>1, DeskSteps
<1>2. CASE JobNext
  <2>1. ASSUME NEW y \in Sessions, NEW r, tx' = [tx EXCEPT ![y] = r], y # x
        PROVE  tx'[x] = tx[x]
    BY <2>1 DEF Typed, TxTypes
  <2>2. ASSUME NEW y \in Sessions, NEW r, tx' = [tx EXCEPT ![y] = r], r.op # "run"
        PROVE  tx'[x] = tx[x]
    BY <2>2 DEF Typed, TxTypes
  <2>3. ASSUME NEW y \in Sessions, Done(y)
        PROVE  tx'[x] = tx[x]
    BY <2>2, <2>3 DEF Done, NoRequest
  <2>4. ASSUME NEW y \in Sessions, NEW j \in Jobs,
               SaveMapping(y, j) \/ CommitImport(y, j) \/ StopRun(y, j) \/ DeleteLeads(y, j)
        PROVE  tx'[x] = tx[x]
    <3>1. \A op, row : JobRequest(op, j, row).op = op
      BY DEF JobRequest
    <3>2. ASSUME NEW op, NEW row, op # "run", tx' = [tx EXCEPT ![y] = JobRequest(op, j, row)]
          PROVE  tx'[x] = tx[x]
      BY <2>2, <3>1, <3>2
    <3>3. ASSUME DeleteLeads(y, j)
          PROVE  tx'[x] = tx[x]
      <4> DEFINE q == JobRequest("delete", j, NoJobRow)
                 r == [q EXCEPT !.phase = "sent", !.wrote = Batch(j)]
      <4>1. r.op = "delete"
        BY <3>1, NewJobRequest, JobRowTypes DEF JobRequests
      <4>2. tx' = [tx EXCEPT ![y] = r]
        BY <3>3 DEF DeleteLeads
      <4> HIDE DEF r
      <4>3. QED
        BY <2>2, <4>1, <4>2
    <3>4. \/ DeleteLeads(y, j)
          \/ \E op, row : op # "run" /\ tx' = [tx EXCEPT ![y] = JobRequest(op, j, row)]
      <4>1. CASE SaveMapping(y, j)
        BY <4>1 DEF SaveMapping
      <4>2. CASE CommitImport(y, j)
        BY <4>2 DEF CommitImport
      <4>3. CASE StopRun(y, j)
        BY <4>3 DEF StopRun
      <4>4. QED
        BY <2>4, <4>1, <4>2, <4>3
    <3>5. QED
      BY <3>2, <3>3, <3>4
  <2>5. ASSUME NEW y \in Sessions, MapKnown(y) \/ ImportSend(y)
        PROVE  tx'[x] = tx[x]
    <3>1. SameRequest(y) /\ tx[y].op # "run"
      BY <2>5, ContinuedRequest DEF MapKnown, ImportSend, Waits
    <3>2. \E r : tx' = [tx EXCEPT ![y] = r]
      BY <2>5 DEF MapKnown, ImportSend
    <3>3. QED
      BY <2>1, <3>1, <3>2 DEF SameRequest
  <2>6. ASSUME NEW y \in Sessions,
               ListLeads(y) \/ CheckRegister(y) \/ Push(y) \/ \E j \in Jobs : StartRun(y, j)
        PROVE  \/ tx'[x] = tx[x]
               \/ ListLeads(x) \/ CheckRegister(x) \/ Push(x)
               \/ \E j \in Jobs : StartRun(x, j)
    <3>1. \E r : tx' = [tx EXCEPT ![y] = r]
      BY ZenonT(60), <2>6 DEF ListLeads, CheckRegister, Push, StartRun
    <3>2. QED
      BY <2>1, <2>6, <3>1
  <2>7. ASSUME NEW y \in Sessions, \/ MapClassify(y) \/ ImportFinish(y) \/ NothingToPush(y)
                                   \/ FinishRun(y) \/ FinishStop(y) \/ DeleteBatch(y)
        PROVE  Done(y)
    BY <2>7 DEF MapClassify, ImportFinish, NothingToPush, FinishRun, FinishStop, DeleteBatch
  <2>8. CASE \/ \E y \in Sessions, j \in Jobs : Upload(y, j)
             \/ \E j \in Jobs, set \in BOOLEAN : AssignList(j, set)
             \/ \E l \in Leads, p \in Phones, s \in LeadStatuses : UpdateLead(l, p, s)
    BY <2>8 DEF Upload, AssignList, UpdateLead
  <2>9. QED
    BY <1>2, <2>3, <2>4, <2>5, <2>6, <2>7, <2>8 DEF JobNext
<1>3. QED
  BY <1>1, <1>2 DEF Next

\* What a run has after each of its steps.
LEMMA RunStarts ==
  ASSUME ImportedInv, NEW x \in Sessions, NEW j \in Jobs, StartRun(x, j)
  PROVE  /\ tx'[x].job = j /\ tx'[x].row = Toggle(j) /\ tx'[x].phase = "read"
         /\ tx'[x].todo = {} /\ tx'[x].got = {}
<1>1. tx'[x] = JobRequest("run", j, Toggle(j))
  BY DEF StartRun, ImportedInv, Typed, TxTypes
<1>2. QED
  BY <1>1 DEF JobRequest

LEMMA RunLists ==
  ASSUME ImportedInv, NEW x \in Sessions, ListLeads(x)
  PROVE  /\ tx'[x].phase = "listed" /\ tx'[x].got = tx[x].got
         /\ tx'[x].todo = {<<l, phone[l]>> : l \in ToPush(tx[x].job)}
<1> DEFINE T == {<<l, phone[l]>> : l \in ToPush(tx[x].job)}
           B == {l \in ToPush(tx[x].job) : Barred(l)}
<1>1. tx[x] \in JobRequests
  BY RequestKinds DEF ListLeads, Waits, OnJob, ImportedInv, Typed
<1>2. PICK b \in BOOLEAN : tx' = [tx EXCEPT ![x].phase = "listed", ![x].locked = b,
                                           ![x].todo = T, ![x].blocked = B]
  BY DEF ListLeads
<1> HIDE DEF T, B
<1>3. tx'[x].phase = "listed" /\ tx'[x].got = tx[x].got /\ tx'[x].todo = T
  BY <1>1, <1>2 DEF ImportedInv, Typed, TxTypes, JobRequests
<1>4. QED
  BY <1>3 DEF T

\* A run that is pushing was so before, or has read the register just now.
LEMMA PushingSteps ==
  ASSUME ImportedInv, Next, NEW x \in Sessions, Waits(x, "run", "pushing")'
  PROVE  tx'[x] = tx[x] \/ CheckRegister(x) \/ Push(x)
<1>1. ~ListLeads(x)
  BY RunLists DEF Waits
<1>2. \A j \in Jobs : ~StartRun(x, j)
  BY RunStarts DEF Waits
<1>3. QED
  BY <1>1, <1>2, RunSteps DEF Waits

\* What pushing leaves to push was there before; what passed the register is not in it.
LEMMA LeftToPush ==
  ASSUME ImportedInv, NEW x \in Sessions
  PROVE  /\ Push(x) => Waits(x, "run", "pushing") /\ tx'[x].todo \subseteq tx[x].todo
         /\ CheckRegister(x) => \A t \in tx'[x].todo : t[2] \notin Suppressed
<1> USE DEF ImportedInv
<1>1. ASSUME Push(x)
      PROVE  Waits(x, "run", "pushing") /\ tx'[x].todo \subseteq tx[x].todo
  <2>1. tx[x] \in JobRequests /\ Waits(x, "run", "pushing")
    BY <1>1, RequestKinds DEF Push, Waits, OnJob, Typed
  <2>2. PICK t \in tx[x].todo :
          LET rest == tx[x].todo \ {t} IN
          \/ \E G : tx' = [tx EXCEPT ![x].todo = rest, ![x].got = G]
          \/ tx' = [tx EXCEPT ![x].todo = rest]
          \/ tx' = [tx EXCEPT ![x].phase = "broken"]
    BY <1>1 DEF Push
  <2>3. QED
    BY <2>1, <2>2 DEF Typed, TxTypes, JobRequests
<1>2. ASSUME CheckRegister(x), NEW t \in tx'[x].todo
      PROVE  t[2] \notin Suppressed
  <2> DEFINE caught == tx[x].blocked
                   \cup {l \in Leads : \E p \in Guarded : <<l, p>> \in tx[x].todo}
             T == {u \in tx[x].todo : u[1] \notin caught}
  <2>1. tx[x] \in JobRequests
    BY <1>2, RequestKinds DEF CheckRegister, Waits, OnJob, Typed
  <2>2. tx' = [tx EXCEPT ![x].phase = "pushing", ![x].blocked = caught, ![x].todo = T]
    BY <1>2 DEF CheckRegister
  <2> HIDE DEF caught, T
  <2>3. tx'[x].todo = T
    BY <2>1, <2>2 DEF Typed, TxTypes, JobRequests
  <2>4. t \in tx[x].todo /\ t[1] \notin caught
    BY <1>2, <2>3 DEF T
  <2>5. t = <<t[1], t[2]>> /\ t[1] \in Leads
    BY <2>1, <2>4 DEF JobRequests
  <2>6. QED
    BY <2>4, <2>5 DEF caught, Guarded
<1>3. QED
  BY <1>1, <1>2

LEMMA SafeStep ==
  ASSUME ImportedInv, Safe, SettledTrue, Next, RememberSettled
  PROVE  Safe' /\ SettledTrue'
<1>1. \A x \in Sessions : settled'[x] = Suppressed' \cap
        (IF tx'[x].op # "run" THEN {} ELSE IF Idle(x) THEN Phones ELSE settled[x])
  BY DEF RememberSettled
<1>2. SettledTrue'
  BY <1>1 DEF SettledTrue
<1>3. ASSUME NEW x \in Sessions, Waits(x, "run", "pushing")', NEW t \in tx'[x].todo
      PROVE  t[2] \notin settled'[x]
  <2>1. tx'[x] = tx[x] \/ CheckRegister(x) \/ Push(x)
    BY <1>3, PushingSteps
  <2>2. ~Idle(x)
    BY <1>3, <2>1 DEF Waits, CheckRegister, Push, Idle
  <2>3. settled'[x] \subseteq settled[x]
    BY <1>1, <2>2
  <2>4. CASE tx'[x] = tx[x]
    BY <1>3, <2>3, <2>4 DEF Safe, Waits
  <2>5. CASE CheckRegister(x)
    BY <1>3, <2>3, <2>5, LeftToPush DEF SettledTrue
  <2>6. CASE Push(x)
    BY <1>3, <2>3, <2>6, LeftToPush DEF Safe
  <2>7. QED
    BY <2>1, <2>4, <2>5, <2>6
<1>4. QED
  BY <1>2, <1>3 DEF Safe

LEMMA OnlyPushDials ==
  ASSUME Next, hopper' # hopper
  PROVE  \E x \in Sessions : Push(x)
<1>1. JobNext
  BY DEF Next
<1>2. ASSUME NEW x \in Sessions, NEW j \in Jobs,
             \/ Upload(x, j) \/ SaveMapping(x, j) \/ CommitImport(x, j)
             \/ StartRun(x, j) \/ StopRun(x, j) \/ DeleteLeads(x, j)
      PROVE  FALSE
  BY <1>2 DEF Upload, SaveMapping, CommitImport, StartRun, StopRun, DeleteLeads
<1>3. ASSUME NEW x \in Sessions,
             \/ MapKnown(x) \/ MapClassify(x) \/ ImportSend(x) \/ ImportFinish(x)
             \/ ListLeads(x) \/ NothingToPush(x) \/ CheckRegister(x)
             \/ FinishRun(x) \/ FinishStop(x) \/ DeleteBatch(x)
      PROVE  FALSE
  BY <1>3 DEF MapKnown, MapClassify, ImportSend, ImportFinish, ListLeads, NothingToPush,
     CheckRegister, FinishRun, FinishStop, DeleteBatch
<1>4. QED
  BY <1>1, <1>2, <1>3 DEF JobNext, AssignList, UpdateLead

\* A number whose suppression was committed before a run was requested, and was not
\* lifted since, is not pushed by this run, whatever mappings, imports and edits came
\* before and whatever requests run beside it: set_vicidial_run reads the register
\* after the leads it goes by.
THEOREM SuppressedStaysOutTheorem == RaceSpec => SuppressedStaysOut
<1>1. HistoryInit => Init /\ Safe /\ SettledTrue
  BY DEF HistoryInit, Init, SuppressionInit, Safe, SettledTrue, Waits, NoRequest
<1>2. [Next /\ RememberSettled]_<<vars, history>> => [Next]_vars
  OBVIOUS
<1>3. ImportedInv /\ Safe /\ SettledTrue /\ [Next /\ RememberSettled]_<<vars, history>>
        => Safe' /\ SettledTrue'
  <2>1. CASE UNCHANGED <<vars, history>>
    BY <2>1 DEF vars, history, Safe, SettledTrue, Waits, Suppressed
  <2>2. QED
    BY <2>1, SafeStep
<1>4. ImportedInv /\ Safe /\ [Next /\ RememberSettled]_<<vars, history>>
        => [\A h \in hopper' \ hopper : h.phone \notin settled[h.by]]_<<vars, history>>
  <2> SUFFICES ASSUME ImportedInv, Safe, Next, NEW h \in hopper' \ hopper
               PROVE  h.phone \notin settled[h.by]
    OBVIOUS
  <2>1. PICK x \in Sessions : Push(x)
    BY OnlyPushDials
  <2>2. \E t \in tx[x].todo :
          h = [lead |-> t[1], phone |-> t[2], id |-> NextId, by |-> x]
    BY <2>1 DEF Push
  <2>3. h.by = x /\ \E t \in tx[x].todo : h.phone = t[2]
    BY <2>2
  <2>4. QED
    BY <2>1, <2>3, LeftToPush DEF Safe
<1>5. QED
  BY <1>1, <1>2, <1>3, <1>4, Imported, PTL DEF RaceSpec, SuppressedStaysOut, Spec

-----------------------------------------------------------------------------
(* Requests one at a time.                                                  *)

OneSession == \E x : Sessions = {x}

-----------------------------------------------------------------------------
(* The batches.  A job that is not completed has no leads, its leads come from  *)
(* one insert, and it is active while it runs; the request in flight has read    *)
(* the row as it is.                                                          *)

RowInOrder(j) ==
  /\ jobs[j].status # "completed" => Batch(j) = {}
  /\ jobs[j].active <=> jobs[j].run = "running"
  /\ \A k, n \in Used(j) : k = n

RequestInOrder(x) ==
  LET j == tx[x].job
      r == tx[x].row IN
  /\ tx[x].op = "import" => jobs[j].status = "validating"
  /\ tx[x].op = "map" => {jobs[j].status, r.status} \subseteq {"mapping", "validating"}
  /\ tx[x].op \in {"run", "stop"} => /\ r.run = jobs[j].run /\ r.active = jobs[j].active
                                     /\ Exists(j)
  /\ tx[x].op = "delete" => /\ Batch(j) \subseteq tx[x].wrote
                            /\ \A l \in tx[x].wrote : l[1] = j

OrderInv ==
  /\ \A j \in Jobs : RowInOrder(j)
  /\ \A x \in Sessions : OnJob(x) => RequestInOrder(x)

\* Steps that leave a row, and which leads it has, as they are.
SameBatch(j) ==
  /\ jobs'[j].status = jobs[j].status /\ jobs'[j].run = jobs[j].run
  /\ jobs'[j].active = jobs[j].active
  /\ \A l \in Leads : l[1] = j => (phone[l] = NoPhone <=> phone'[l] = NoPhone)

LEMMA SameBatchOrder ==
  ASSUME NEW j \in Jobs, SameBatch(j)
  PROVE  /\ Batch(j)' = Batch(j) /\ Used(j)' = Used(j) /\ Exists(j)' = Exists(j)
         /\ RowInOrder(j) => RowInOrder(j)'
<1>1. Batch(j)' = Batch(j)
  BY DEF SameBatch, Batch
<1>2. Used(j)' = Used(j)
  <2>1. \A i \in Lines, k \in Copies : <<j, i, k>> \in Leads /\ <<j, i, k>>[1] = j
    BY LeadAssumption
  <2>2. QED
    BY <2>1 DEF SameBatch, Used
<1>3. QED
  BY <1>1, <1>2 DEF SameBatch, RowInOrder, Exists

LEMMA OrderQuiet ==
  ASSUME ImportedInv, OneSession, OrderInv, NEW x \in Sessions,
         \A j \in Jobs : SameBatch(j),
         \/ ~OnJob(x)'
         \/ tx'[x] = tx[x]
         \/ SameRequest(x) /\ tx[x].op # "delete"
         \/ RequestInOrder(x)'
  PROVE  OrderInv'
<1>1. \A j \in Jobs : RowInOrder(j)'
  BY SameBatchOrder DEF OrderInv
<1>2. ASSUME OnJob(x)'
      PROVE  RequestInOrder(x)'
  <2>1. CASE tx'[x] = tx[x] \/ (SameRequest(x) /\ tx[x].op # "delete")
    <3>1. OnJob(x) /\ RequestInOrder(x) /\ tx[x].job \in Jobs
      BY <1>2, <2>1, RequestKinds DEF OnJob, SameRequest, OrderInv, ImportedInv, Typed, JobRequests
    <3>2. SameBatch(tx[x].job)
      BY <3>1
    <3>3. QED
      BY <2>1, <3>1, <3>2, SameBatchOrder DEF SameRequest, RequestInOrder, SameBatch
  <2>2. QED
    BY <1>2, <2>1
<1>3. QED
  BY <1>1, <1>2 DEF OrderInv, OneSession

\* A step of a request that changes the row of its job and is over.
LEMMA OrderOver ==
  ASSUME ImportedInv, OneSession, OrderInv, NEW x \in Sessions, Done(x), NEW j \in Jobs,
         \A i \in Jobs \ {j} : SameBatch(i), RowInOrder(j)'
  PROVE  OrderInv'
<1>1. \A i \in Jobs : RowInOrder(i)'
  BY SameBatchOrder DEF OrderInv
<1>2. ~OnJob(x)'
  BY DEF Done, OnJob, NoRequest, ImportedInv, Typed, TxTypes
<1>3. QED
  BY <1>1, <1>2 DEF OrderInv, OneSession

LEMMA OrderMap ==
  ASSUME ImportedInv, OneSession, OrderInv, NEW x \in Sessions, MapClassify(x)
  PROVE  OrderInv'
<1>1. OnJob(x) /\ tx[x] \in JobRequests /\ tx[x].op = "map" /\ tx[x].job \in Jobs
  BY RequestKinds DEF MapClassify, Waits, OnJob, ImportedInv, Typed, JobRequests
<1> PICK j \in Jobs : j = tx[x].job
  BY <1>1
<1>2. PICK rows, list :
        jobs' = [jobs EXCEPT
         ![j].status = Column(tx[x].row.status, "validating", jobs[j].status),
         ![j].rows   = rows, ![j].list = list]
  BY ZenonT(60) DEF MapClassify
<1>3. {jobs[j].status, tx[x].row.status} \subseteq {"mapping", "validating"}
  BY <1>1 DEF OrderInv, RequestInOrder
<1>4. Done(x) /\ UNCHANGED phone
  BY DEF MapClassify, leadVars
<1>5. /\ \A i \in Jobs \ {j} : jobs'[i] = jobs[i]
      /\ jobs'[j].status \in {"mapping", "validating"}
      /\ jobs'[j].run = jobs[j].run /\ jobs'[j].active = jobs[j].active
  <2> DEFINE new == Column(tx[x].row.status, "validating", jobs[j].status)
  <2>1. new \in {"mapping", "validating"}
    BY <1>3 DEF Column
  <2>2. jobs' = [jobs EXCEPT ![j].status = new, ![j].rows = rows, ![j].list = list]
    BY <1>2
  <2> HIDE DEF new
  <2>3. JobTypes
    BY DEF ImportedInv, Typed
  <2>4. \A i \in Jobs \ {j} : jobs'[i] = jobs[i]
    BY <2>2, <2>3 DEF JobTypes
  <2>5. jobs'[j].status = new
    BY <2>2, <2>3 DEF JobTypes, JobRows
  <2>6. jobs'[j].run = jobs[j].run /\ jobs'[j].active = jobs[j].active
    BY <2>2, <2>3 DEF JobTypes, JobRows
  <2>7. QED
    BY <2>1, <2>4, <2>5, <2>6
<1>6. RowInOrder(j)'
  <2>1. RowInOrder(j) /\ jobs[j].status # "completed" /\ jobs'[j].status # "completed"
    BY <1>1, <1>3, <1>5 DEF OrderInv
  <2>2. Batch(j)' = Batch(j) /\ Used(j)' = Used(j)
    BY <1>4 DEF Batch, Used
  <2>3. QED
    BY <1>5, <2>1, <2>2 DEF RowInOrder
<1>7. QED
  BY <1>1, <1>4, <1>5, <1>6, OrderOver DEF SameBatch

LEMMA OrderImport ==
  ASSUME ImportedInv, OneSession, OrderInv, NEW x \in Sessions, ImportFinish(x)
  PROVE  OrderInv'
<1>1. OnJob(x) /\ tx[x].op = "import" /\ tx[x].job \in Jobs
  BY RequestKinds DEF ImportFinish, Waits, OnJob, ImportedInv, Typed, JobRequests
<1> PICK j \in Jobs : j = tx[x].job
  BY <1>1
<1> DEFINE new == {i \in Lines : <<i, "insert">> \in tx[x].row.rows.kept}
<1>2. PICK k \in Copies :
        phone' = [l \in Leads |-> IF l \in {<<tx[x].job, i, k>> : i \in new}
                                      THEN FileRow(tx[x].job, l[2]) ELSE phone[l]]
  BY DEF ImportFinish
<1> DEFINE Ins == {<<tx[x].job, i, k>> : i \in new}
<1>3. Done(x) /\ jobs' = [jobs EXCEPT ![j].status = "completed"]
  BY DEF ImportFinish
<1>4. Batch(j) = {} /\ (jobs[j].active <=> jobs[j].run = "running")
  BY <1>1 DEF OrderInv, RequestInOrder, RowInOrder
<1>5. ASSUME NEW l \in Ins
      PROVE  l[1] = j /\ l[3] = k
  <2>1. PICK i \in new : l = <<tx[x].job, i, k>>
    OBVIOUS
  <2>2. QED
    BY <2>1
<1>6. \A l \in Leads \ Ins : phone'[l] = phone[l]
  BY <1>2
<1> HIDE DEF Ins
<1>7. \A i \in Jobs \ {j} : SameBatch(i)
  BY <1>1, <1>3, <1>5, <1>6 DEF SameBatch, ImportedInv, Typed, JobTypes
<1>8. Used(j)' \subseteq {k}
  <2> SUFFICES ASSUME NEW n \in Copies, NEW i \in Lines, phone'[<<j, i, n>>] # NoPhone
               PROVE  n = k
    BY DEF Used
  <2>1. <<j, i, n>> \in Leads /\ <<j, i, n>>[1] = j /\ <<j, i, n>>[3] = n
    BY <1>1, LeadAssumption
  <2>2. <<j, i, n>> \in Ins
    BY <1>4, <1>6, <2>1 DEF Batch
  <2>3. QED
    BY <1>5, <2>1, <2>2
<1>9. /\ jobs'[j].status = "completed" /\ jobs'[j].run = jobs[j].run
      /\ jobs'[j].active = jobs[j].active
  BY <1>1, <1>3 DEF ImportedInv, Typed, JobTypes, JobRows
<1>10. RowInOrder(j)'
  BY <1>4, <1>8, <1>9 DEF RowInOrder
<1>11. QED
  BY <1>1, <1>3, <1>7, <1>10, OrderOver


LEMMA OrderRun ==
  ASSUME ImportedInv, OneSession, OrderInv, NEW x \in Sessions, FinishRun(x) \/ FinishStop(x)
  PROVE  OrderInv'
<1>1. OnJob(x) /\ tx[x].op \in {"run", "stop"} /\ tx[x].job \in Jobs
  BY ZenonT(60), RequestKinds DEF FinishRun, FinishStop, Waits, OnJob, ImportedInv, Typed, JobRequests
<1> PICK j \in Jobs : j = tx[x].job
  BY <1>1
<1>2. Done(x) /\ UNCHANGED phone
  BY DEF FinishRun, FinishStop, leadVars
<1>3. tx[x].row.run = jobs[j].run /\ tx[x].row.active = jobs[j].active
  BY <1>1 DEF OrderInv, RequestInOrder
<1> DEFINE Written(list, run, active) ==
             jobs' = [jobs EXCEPT ![j].list = list, ![j].run = run, ![j].active = active]
<1> DEFINE Agreeing(list, run, active) == /\ Written(list, run, active) /\ active \in BOOLEAN
                                          /\ active <=> run = "running"
<1>4. \E a, b, c : Agreeing(a, b, c)
  <2>1. \A read, new : Column(read, new, read) = new
    BY DEF Column
  <2>2. CASE FinishRun(x)
    <3> PICK accepted \in BOOLEAN : accepted = (tx[x].got # {})
      OBVIOUS
    <3>1. PICK list : Written(list, Column(tx[x].row.run, Outcome(accepted), jobs[j].run),
                              Column(tx[x].row.active, accepted, jobs[j].active))
      BY ZenonT(60), <2>2 DEF FinishRun
    <3> HIDE DEF Written
    <3>2. Written(list, Outcome(accepted), accepted)
      BY <1>3, <2>1, <3>1
    <3>3. accepted <=> Outcome(accepted) = "running"
      BY DEF Outcome
    <3>4. Agreeing(list, Outcome(accepted), accepted)
      BY <3>2, <3>3
    <3> HIDE DEF Agreeing
    <3>5. QED
      BY <3>4
  <2>3. CASE FinishStop(x)
    <3>1. PICK list : Written(list, Column(tx[x].row.run, "interrupted", jobs[j].run),
                              Column(tx[x].row.active, FALSE, jobs[j].active))
      BY <2>3 DEF FinishStop
    <3> HIDE DEF Written
    <3>2. Written(list, "interrupted", FALSE)
      BY <1>3, <2>1, <3>1
    <3>3. Agreeing(list, "interrupted", FALSE)
      BY <3>2
    <3> HIDE DEF Agreeing
    <3>4. QED
      BY <3>3
  <2>4. QED
    BY <2>2, <2>3
<1>5. PICK list, run, active : Agreeing(list, run, active)
  BY <1>4
<1>6. Written(list, run, active) /\ active \in BOOLEAN /\ (active <=> run = "running")
  BY <1>5
<1>7. /\ \A i \in Jobs \ {j} : jobs'[i] = jobs[i]
      /\ jobs'[j].status = jobs[j].status /\ jobs'[j].run = run /\ jobs'[j].active = active
  <2>1. JobTypes /\ jobs' = [jobs EXCEPT ![j].list = list, ![j].run = run, ![j].active = active]
    BY <1>6 DEF ImportedInv, Typed
  <2>2. QED
    BY <2>1 DEF JobTypes, JobRows
<1>8. RowInOrder(j)'
  <2>1. RowInOrder(j)
    BY DEF OrderInv
  <2>2. Batch(j)' = Batch(j) /\ Used(j)' = Used(j)
    BY <1>2 DEF Batch, Used
  <2>3. QED
    BY <1>6, <1>7, <2>1, <2>2 DEF RowInOrder
<1>9. QED
  BY <1>2, <1>7, <1>8, OrderOver DEF SameBatch

LEMMA OrderDelete ==
  ASSUME ImportedInv, OneSession, OrderInv, NEW x \in Sessions, DeleteBatch(x)
  PROVE  OrderInv'
<1>1. OnJob(x) /\ tx[x].op = "delete" /\ tx[x].job \in Jobs
  BY RequestKinds DEF DeleteBatch, Waits, OnJob, ImportedInv, Typed, JobRequests
<1> PICK j \in Jobs : j = tx[x].job
  BY <1>1
<1>2. /\ Done(x) /\ jobs' = [jobs EXCEPT ![j] = [NoJobRow EXCEPT !.status = "deleted"]]
      /\ phone' = [l \in Leads |-> IF l \in tx[x].wrote THEN NoPhone ELSE phone[l]]
  BY DEF DeleteBatch
<1>3. Batch(j) \subseteq tx[x].wrote /\ \A l \in tx[x].wrote : l[1] = j
  BY <1>1 DEF OrderInv, RequestInOrder
<1>4. \A i \in Jobs \ {j} : SameBatch(i)
  BY <1>2, <1>3 DEF SameBatch, ImportedInv, Typed, JobTypes
<1>5. Batch(j)' = {}
  BY <1>2, <1>3 DEF Batch
<1>6. Used(j)' = {}
  <2> SUFFICES ASSUME NEW k \in Copies, NEW i \in Lines, phone'[<<j, i, k>>] # NoPhone
               PROVE  FALSE
    BY DEF Used
  <2>1. <<j, i, k>> \in Leads /\ <<j, i, k>>[1] = j
    BY LeadAssumption
  <2>2. QED
    BY <1>5, <2>1 DEF Batch
<1>7. jobs'[j].run = "idle" /\ jobs'[j].active = FALSE
  BY <1>2 DEF ImportedInv, Typed, JobTypes, NoJobRow
<1>8. RowInOrder(j)'
  BY <1>5, <1>6, <1>7 DEF RowInOrder
<1>9. QED
  BY <1>2, <1>4, <1>8, OrderOver

LEMMA OrderUpload ==
  ASSUME ImportedInv, OneSession, OrderInv, NEW x \in Sessions, NEW j \in Jobs, Upload(x, j)
  PROVE  OrderInv'
<1>1. /\ jobs' = [jobs EXCEPT ![j].status = "mapping"] /\ jobs[j].status = "absent"
      /\ UNCHANGED <<phone, tx>> /\ Idle(x)
  BY DEF Upload, leadVars
<1>2. /\ \A i \in Jobs \ {j} : jobs'[i] = jobs[i]
      /\ jobs'[j].run = jobs[j].run /\ jobs'[j].active = jobs[j].active
  BY <1>1 DEF ImportedInv, Typed, JobTypes, JobRows
<1>3. RowInOrder(j)'
  BY <1>1, <1>2 DEF OrderInv, RowInOrder, Batch, Used
<1>4. \A i \in Jobs : RowInOrder(i)'
  BY <1>1, <1>2, <1>3, SameBatchOrder DEF OrderInv, SameBatch
<1>5. \A y \in Sessions : ~OnJob(y)'
  BY <1>1 DEF OneSession, Idle, OnJob
<1>6. QED
  BY <1>4, <1>5 DEF OrderInv

LEMMA OrderBegin ==
  ASSUME ImportedInv, OneSession, OrderInv, NEW x \in Sessions, NEW j \in Jobs,
         SaveMapping(x, j) \/ CommitImport(x, j) \/ StartRun(x, j) \/ StopRun(x, j)
           \/ DeleteLeads(x, j)
  PROVE  OrderInv'
<1>1. UNCHANGED <<phone, jobs>>
  BY DEF SaveMapping, CommitImport, StartRun, StopRun, DeleteLeads, leadVars
<1>2. \A op, row : /\ JobRequest(op, j, row).op = op /\ JobRequest(op, j, row).job = j
                   /\ JobRequest(op, j, row).row = row
  BY DEF JobRequest
<1>3. ASSUME NEW r, tx' = [tx EXCEPT ![x] = r]
      PROVE  tx'[x] = r
  BY <1>3 DEF ImportedInv, Typed, TxTypes
<1>4. /\ Wizard(j).status = jobs[j].status
      /\ Toggle(j).run = jobs[j].run /\ Toggle(j).active = jobs[j].active
  BY DEF Wizard, NoJobRow, Toggle, ImportedInv, Typed, JobTypes, JobRows
<1>5. RequestInOrder(x)'
  <2>1. CASE SaveMapping(x, j)
    <3>1. tx'[x] = JobRequest("map", j, Wizard(j))
      BY <1>3, <2>1 DEF SaveMapping
    <3>2. QED
      BY <1>1, <1>2, <1>4, <2>1, <3>1 DEF SaveMapping, RequestInOrder
  <2>2. CASE CommitImport(x, j)
    <3>1. tx'[x] = JobRequest("import", j, Wizard(j))
      BY <1>3, <2>2 DEF CommitImport
    <3>2. QED
      BY <1>1, <1>2, <2>2, <3>1 DEF CommitImport, Committable, MayCommit, RequestInOrder
  <2>3. CASE StartRun(x, j)
    <3>1. tx'[x] = JobRequest("run", j, Toggle(j))
      BY <1>3, <2>3 DEF StartRun
    <3>2. QED
      BY <1>1, <1>2, <1>4, <2>3, <3>1 DEF StartRun, RequestInOrder, Exists
  <2>4. CASE StopRun(x, j)
    <3>1. tx'[x] = JobRequest("stop", j, Toggle(j))
      BY <1>3, <2>4 DEF StopRun
    <3>2. QED
      BY <1>1, <1>2, <1>4, <2>4, <3>1 DEF StopRun, RequestInOrder, Exists
  <2>5. CASE DeleteLeads(x, j)
    <3> DEFINE q == JobRequest("delete", j, NoJobRow)
               r == [q EXCEPT !.phase = "sent", !.wrote = Batch(j)]
    <3>1. r.op = "delete" /\ r.job = j /\ r.wrote = Batch(j)
      BY <1>2, NewJobRequest, JobRowTypes DEF JobRequests
    <3>2. tx' = [tx EXCEPT ![x] = r]
      BY <2>5 DEF DeleteLeads
    <3> HIDE DEF r
    <3>3. tx'[x] = r
      BY <1>3, <3>2
    <3>4. QED
      BY <1>1, <3>1, <3>3 DEF RequestInOrder, Batch
  <2>6. QED
    BY <2>1, <2>2, <2>3, <2>4, <2>5
<1>6. QED
  BY <1>1, <1>5, OrderQuiet DEF SameBatch

LEMMA OrderStep ==
  ASSUME ImportedInv, OneSession, OrderInv, Next
  PROVE  OrderInv'
<1>1. PICK x \in Sessions : Sessions = {x}
  BY DEF OneSession
<1>2. CASE SuppressionNext /\ UNCHANGED <<status, dialerId, jobs, file, hopper>>
  <2>1. \A j \in Jobs : SameBatch(j)
    BY <1>2, RegisterWritesNoNumber DEF SameBatch
  <2>2. tx'[x] = tx[x] \/ ~OnJob(x)'
    BY <1>1, <1>2, DeskSteps DEF DeskMove, OnJob, ImportedInv, Typed, TxTypes
  <2>3. QED
    BY <2>1, <2>2, OrderQuiet
<1>3. ASSUME MapKnown(x) \/ ImportSend(x) \/ ListLeads(x) \/ CheckRegister(x) \/ Push(x)
      PROVE  OrderInv'
  <2>1. SameRequest(x) /\ tx[x].op # "delete"
    BY ZenonT(60), <1>3, ContinuedRequest
       DEF MapKnown, ImportSend, ListLeads, CheckRegister, Push, Waits, ImportedInv
  <2>2. UNCHANGED <<phone, jobs>>
    BY <1>3 DEF MapKnown, ImportSend, ListLeads, CheckRegister, Push, leadVars
  <2>3. QED
    BY <2>1, <2>2, OrderQuiet DEF SameBatch
<1>4. ASSUME NothingToPush(x)
      PROVE  OrderInv'
  <2>1. ~OnJob(x)' /\ UNCHANGED <<phone, jobs>>
    BY <1>4 DEF NothingToPush, leadVars, Done, OnJob, NoRequest, ImportedInv, Typed, TxTypes
  <2>2. QED
    BY <2>1, OrderQuiet DEF SameBatch
<1>5. ASSUME NEW j \in Jobs, NEW set \in BOOLEAN, AssignList(j, set)
      PROVE  OrderInv'
  <2>1. \A i \in Jobs : SameBatch(i)
    BY <1>5 DEF AssignList, leadVars, SameBatch, ImportedInv, Typed, JobTypes, JobRows
  <2>2. QED
    BY <1>5, <2>1, OrderQuiet DEF AssignList
<1>6. ASSUME NEW l \in Leads, NEW p \in Phones, NEW s \in LeadStatuses, UpdateLead(l, p, s)
      PROVE  OrderInv'
  <2>1. \A i \in Jobs : SameBatch(i)
    BY <1>6, PhoneAssumption DEF UpdateLead, SameBatch, ImportedInv, Typed, LeadTypes
  <2>2. QED
    BY <1>6, <2>1, OrderQuiet DEF UpdateLead
<1>7. QED
  BY <1>1, <1>2, <1>3, <1>4, <1>5, <1>6, OrderMap, OrderImport, OrderRun, OrderDelete, OrderUpload,
     OrderBegin DEF Next, JobNext

-----------------------------------------------------------------------------
(* The cached verdicts.  A check has read the register as it is, and the entry   *)
(* that is being inserted is not cached as clear, unless the cache was not told. *)

ClearInv ==
  \A x \in Sessions, p \in Phones :
    /\ Waits(x, "check", "read") /\ p \in tx[x].phones /\ tx[x].entry[p] = 0
         => p \notin Suppressed
    /\ Inserting(x, p) /\ p \notin untold => cache[p] # {0}

\* Steps that suppress nothing and cache nothing.
LEMMA ClearQuiet ==
  ASSUME ClearIsTrue, ClearInv, RememberLoss,
         \A p \in Phones : register'[p].active \subseteq register[p].active,
         \A p \in Phones : cache'[p] = {0} => cache[p] = {0},
         \A x \in Sessions : \/ tx'[x] = tx[x]
                             \/ ~Waits(x, "check", "read")' /\ \A p \in Phones : ~Inserting(x, p)'
  PROVE  ClearIsTrue' /\ ClearInv'
<1>1. untold \subseteq untold'
  BY DEF RememberLoss
<1>2. Suppressed' \subseteq Suppressed
  BY DEF Suppressed
<1>3. QED
  BY <1>1, <1>2 DEF ClearIsTrue, ClearInv, Waits, Inserting

LEMMA CacheWritten ==
  ASSUME Typed, NEW p \in Phones, NEW v, Cache(p, v)
  PROVE  /\ \A q \in Phones \ {p} : cache'[q] = cache[q]
         /\ cache'[p] = IF redis = "up" THEN v ELSE cache[p]
BY DEF Cache, Typed, RegisterTypes

LEMMA ClearAddWrite ==
  ASSUME ImportedInv, OneSession, ClearIsTrue, ClearInv, RememberLoss,
         NEW x \in Sessions, AddWrite(x)
  PROVE  ClearIsTrue' /\ ClearInv'
<1>1. tx[x] \in DeskRequests
  BY RequestKinds DEF AddWrite, Waits, ImportedInv, Typed
<1>2. PICK p \in tx[x].phones :
        /\ register' = [register EXCEPT ![p].used = register[p].used + 1]
        /\ Cache(p, {register[p].used + 1})
        /\ tx' = [tx EXCEPT ![x] = Request("add", "written", {p},
                                     [NoEntry EXCEPT ![p] = register[p].used + 1], Rows({p}))]
  BY DEF AddWrite, CacheAdded
<1> PICK n : n = register[p].used + 1
  OBVIOUS
<1> DEFINE e == [NoEntry EXCEPT ![p] = n]
<1>3. p \in Phones /\ n # 0 /\ \A q \in Phones \ {p} : e[q] = 0
  BY <1>1 DEF DeskRequests, NoEntry, ImportedInv, Typed, RegisterTypes, Register
<1>4. /\ register' = [register EXCEPT ![p].used = n] /\ Cache(p, {n})
      /\ tx' = [tx EXCEPT ![x] = Request("add", "written", {p}, e, Rows({p}))]
      /\ UNCHANGED redis
  BY <1>2 DEF AddWrite
<1> HIDE DEF e
<1>5. tx'[x].op = "add" /\ tx'[x].phase = "written" /\ tx'[x].phones = {p} /\ tx'[x].entry = e
  BY <1>4, RequestFields DEF ImportedInv, Typed, TxTypes
<1>6. redis = "down" => p \in untold'
  BY <1>4, <1>5 DEF RememberLoss, Waits
<1>7. redis \in {"up", "down"}
  BY RedisAssumption DEF ImportedInv, Typed, RegisterTypes
<1>8. p \notin untold' => cache'[p] # {0}
  BY <1>3, <1>4, <1>6, <1>7, CacheWritten DEF ImportedInv
<1>9. \A q \in Phones : Inserting(x, q)' => q = p
  BY <1>3, <1>5 DEF Inserting
<1>10. ClearInv'
  <2>1. \A y \in Sessions : y = x
    BY DEF OneSession
  <2>2. ~Waits(x, "check", "read")'
    BY <1>5 DEF Waits
  <2>3. QED
    BY <1>8, <1>9, <2>1, <2>2 DEF ClearInv
<1>11. \A q \in Phones : q \in Suppressed' => q \in Suppressed
  BY <1>4 DEF Suppressed, ImportedInv, Typed, RegisterTypes, Register
<1>12. untold \subseteq untold'
  BY DEF RememberLoss
<1>13. \A q \in Phones \ {p} : cache'[q] = cache[q]
  BY <1>3, <1>4, CacheWritten DEF ImportedInv
<1>14. ClearIsTrue'
  BY <1>8, <1>11, <1>12, <1>13 DEF ClearIsTrue
<1>15. QED
  BY <1>10, <1>14

LEMMA ClearImportCsv ==
  ASSUME ImportedInv, OneSession, ClearIsTrue, ClearInv, RememberLoss,
         NEW x \in Sessions, NEW P \in SUBSET Phones, ImportCsv(x, P)
  PROVE  ClearIsTrue' /\ ClearInv'
<1> DEFINE new == {p \in P : ~Conflict(p)}
           e == [p \in Phones |-> IF p \in new THEN register[p].used + 1 ELSE 0]
<1>1. tx' = [tx EXCEPT ![x] = Request("import_csv", "written", P, e, Rows(P))] /\ UNCHANGED cache
  BY DEF ImportCsv
<1>2. \A p \in Phones : register'[p].active = register[p].active
  BY DEF ImportCsv
<1>3. \A p \in Phones : e[p] # 0 => p \in P
  OBVIOUS
<1> HIDE DEF e
<1>4. /\ tx'[x].op = "import_csv" /\ tx'[x].phase = "written" /\ tx'[x].phones = P
      /\ tx'[x].entry = e
  BY <1>1, RequestFields DEF ImportedInv, Typed, TxTypes
<1>5. untold \subseteq untold' /\ P \subseteq untold'
  BY <1>4 DEF RememberLoss, Waits
<1>6. ClearInv'
  <2>1. \A y \in Sessions : y = x
    BY DEF OneSession
  <2>2. ~Waits(x, "check", "read")' /\ \A p \in Phones : Inserting(x, p)' => p \in untold'
    BY <1>3, <1>4, <1>5 DEF Waits, Inserting
  <2>3. QED
    BY <2>1, <2>2 DEF ClearInv
<1>7. ClearIsTrue'
  BY <1>1, <1>2, <1>5 DEF ClearIsTrue, Suppressed
<1>8. QED
  BY <1>6, <1>7

LEMMA ClearCommit ==
  ASSUME ImportedInv, OneSession, ClearIsTrue, ClearInv, RememberLoss,
         NEW x \in Sessions, AddCommit(x)
  PROVE  ClearIsTrue' /\ ClearInv'
<1>1. tx'[x] = NoRequest /\ UNCHANGED cache
  BY DEF AddCommit, Done, ImportedInv, Typed, TxTypes
<1>2. ClearInv'
  BY <1>1 DEF ClearInv, OneSession, Waits, Inserting, NoRequest
<1>3. \A p \in Phones :
        register'[p].active = register[p].active \cup ({tx[x].entry[p]} \ {0})
  BY DEF AddCommit
<1>4. \A p \in Phones : tx[x].entry[p] # 0 => Inserting(x, p)
  BY DEF AddCommit, Waits, Inserting
<1>5. \A p \in Suppressed' : p \in Suppressed \/ Inserting(x, p)
  BY <1>3, <1>4 DEF Suppressed
<1>6. untold \subseteq untold'
  BY DEF RememberLoss
<1>7. ClearIsTrue'
  BY <1>1, <1>5, <1>6 DEF ClearIsTrue, ClearInv
<1>8. QED
  BY <1>2, <1>7

LEMMA ClearRead ==
  ASSUME ImportedInv, OneSession, ClearIsTrue, ClearInv, RememberLoss,
         NEW x \in Sessions, CheckRead(x)
  PROVE  ClearIsTrue' /\ ClearInv'
<1> DEFINE e == [p \in Phones |-> ActiveEntry(p)]
<1>1. tx[x] \in DeskRequests /\ tx[x].op = "check"
  BY RequestKinds DEF CheckRead, Waits, ImportedInv, Typed
<1>2. tx' = [tx EXCEPT ![x].phase = "read", ![x].entry = e] /\ UNCHANGED <<register, cache>>
  BY DEF CheckRead
<1>3. \A p \in Phones : e[p] = 0 => p \notin Suppressed
  <2> SUFFICES ASSUME NEW p \in Suppressed
               PROVE  ActiveEntry(p) # 0
    BY DEF Suppressed
  <2>1. \E n \in Entries : n \in register[p].active
    BY DEF Suppressed, ImportedInv, Typed, RegisterTypes, Register
  <2>2. ActiveEntry(p) \in Entries
    BY <2>1 DEF ActiveEntry
  <2>3. QED
    BY <2>2, EntryAssumption DEF Entries
<1> HIDE DEF e
<1>4. tx'[x].op = "check" /\ tx'[x].entry = e
  BY <1>1, <1>2 DEF ImportedInv, Typed, TxTypes, DeskRequests
<1>5. ClearInv'
  <2>1. \A y \in Sessions : y = x
    BY DEF OneSession
  <2>2. \A p \in Phones : ~Inserting(x, p)'
    BY <1>4 DEF Inserting
  <2>3. QED
    BY ZenonT(60), <1>2, <1>3, <1>4, <2>1, <2>2 DEF ClearInv, Waits, Suppressed
<1>6. ClearIsTrue'
  BY <1>2 DEF ClearIsTrue, Suppressed, RememberLoss
<1>7. QED
  BY <1>5, <1>6

LEMMA ClearAnswer ==
  ASSUME ImportedInv, OneSession, ClearIsTrue, ClearInv, RememberLoss,
         NEW x \in Sessions, CheckAnswer(x)
  PROVE  ClearIsTrue' /\ ClearInv'
<1>1. tx[x] \in DeskRequests
  BY RequestKinds DEF CheckAnswer, Waits, ImportedInv, Typed
<1>2. PICK p \in tx[x].phones : Cache(p, {tx[x].entry[p]})
  BY DEF CheckAnswer
<1>3. p \in Phones /\ Waits(x, "check", "read") /\ UNCHANGED register
  BY <1>1 DEF CheckAnswer, DeskRequests
<1>4. tx'[x] = NoRequest
  BY DEF CheckAnswer, Done, ImportedInv, Typed, TxTypes
<1>5. ClearInv'
  BY <1>4 DEF ClearInv, OneSession, Waits, Inserting, NoRequest
<1>6. \A q \in Phones : cache'[q] = {0} => cache[q] = {0} \/ q \notin Suppressed
  <2>1. \A q \in Phones \ {p} : cache'[q] = cache[q]
    BY <1>2, <1>3, CacheWritten DEF ImportedInv
  <2>2. cache'[p] = cache[p] \/ cache'[p] = {tx[x].entry[p]}
    BY <1>2, <1>3, CacheWritten DEF ImportedInv
  <2>3. cache'[p] = {tx[x].entry[p]} /\ cache'[p] = {0} => p \notin Suppressed
    BY <1>3 DEF ClearInv
  <2>4. QED
    BY <2>1, <2>2, <2>3
<1>7. ClearIsTrue'
  BY <1>3, <1>6 DEF ClearIsTrue, Suppressed, RememberLoss
<1>8. QED
  BY <1>5, <1>7

\* The other requests, and the jobs.
LEMMA ClearStep ==
  ASSUME ImportedInv, OneSession, ClearIsTrue, ClearInv, Next, RememberLoss
  PROVE  ClearIsTrue' /\ ClearInv'
<1>1. PICK x \in Sessions : Sessions = {x}
  BY DEF OneSession
<1>2. ASSUME NEW r, tx' = [tx EXCEPT ![x] = r],
             r.op \notin {"check", "add", "import_csv"} \/ r.phase \notin {"read", "written"}
               \/ (r.op = "add" /\ r.phase = "read"),
             \A p \in Phones : register'[p].active \subseteq register[p].active,
             \A p \in Phones : cache'[p] = {0} => cache[p] = {0}
      PROVE  ClearIsTrue' /\ ClearInv'
  <2>1. ~Waits(x, "check", "read")' /\ \A p \in Phones : ~Inserting(x, p)'
    BY <1>2 DEF Waits, Inserting, ImportedInv, Typed, TxTypes
  <2>2. QED
    BY <1>1, <1>2, <2>1, ClearQuiet
<1>3. CASE JobNext
  <2>1. UNCHANGED <<register, cache>>
    BY <1>3, JobsLeaveRegister
  <2>2. tx'[x] = tx[x] \/ OnJob(x)' \/ Idle(x)'
    BY <1>1, <1>3, JobSteps DEF ImportedInv
  <2>3. QED
    BY <1>1, <2>1, <2>2, ClearQuiet DEF OnJob, Idle, Waits, Inserting
<1>4. CASE RedisChanges
  BY <1>4, ClearQuiet DEF RedisChanges
<1>5. ASSUME NEW p \in Phones, Expire(p)
      PROVE  ClearIsTrue' /\ ClearInv'
  <2>1. \A q \in Phones : cache'[q] = {0} => cache[q] = {0}
    BY <1>5 DEF Expire, ImportedInv, Typed, RegisterTypes
  <2>2. QED
    BY <1>5, <2>1, ClearQuiet DEF Expire
<1>6. ASSUME Done(x),
             \A p \in Phones : register'[p].active \subseteq register[p].active,
             UNCHANGED cache
      PROVE  ClearIsTrue' /\ ClearInv'
  <2>1. NoRequest.op = "none"
    BY DEF NoRequest
  <2>2. QED
    BY <1>2, <1>6, <2>1 DEF Done
<1>7. ASSUME AddRefused(x) \/ RemoveCommit(x) \/ Abandon(x)
      PROVE  ClearIsTrue' /\ ClearInv'
  BY <1>6, <1>7 DEF AddRefused, RemoveCommit, Abandon
<1>8. ASSUME NEW op, NEW ph, NEW P, NEW e, NEW L,
             tx' = [tx EXCEPT ![x] = Request(op, ph, P, e, L)],
             op = "remove" \/ ph = "missed" \/ (op = "add" /\ ph = "read"),
             UNCHANGED register,
             \A p \in Phones : cache'[p] = {0} => cache[p] = {0}
      PROVE  ClearIsTrue' /\ ClearInv'
  <2> DEFINE r == Request(op, ph, P, e, L)
  <2>1. r.op = op /\ r.phase = ph
    BY RequestFields
  <2>2. tx' = [tx EXCEPT ![x] = r]
    BY <1>8
  <2> HIDE DEF r
  <2>3. QED
    BY <1>2, <1>8, <2>1, <2>2
<1>9. ASSUME NEW p, CheckMiss(x, p)
      PROVE  ClearIsTrue' /\ ClearInv'
  BY <1>8, <1>9 DEF CheckMiss
<1>10. ASSUME NEW p, Add(x, p)
       PROVE  ClearIsTrue' /\ ClearInv'
  BY <1>8, <1>10 DEF Add
<1>11. ASSUME NEW p, Remove(x, p)
       PROVE  ClearIsTrue' /\ ClearInv'
  BY <1>8, <1>11 DEF Remove
<1>12. ASSUME RemoveWrite(x)
       PROVE  ClearIsTrue' /\ ClearInv'
  <2>1. tx[x] \in DeskRequests
    BY <1>12, RequestKinds DEF RemoveWrite, Waits, ImportedInv, Typed
  <2>2. PICK p \in tx[x].phones : \E L : Cache(p, {}) /\
          tx' = [tx EXCEPT ![x] = Request("remove", "written", {p}, tx[x].entry, L)]
    BY <1>12 DEF RemoveWrite
  <2>3. \A q \in Phones : cache'[q] = {0} => cache[q] = {0}
    BY <2>1, <2>2, CacheWritten DEF ImportedInv, DeskRequests
  <2>4. UNCHANGED register
    BY <1>12 DEF RemoveWrite
  <2>5. QED
    BY <1>8, <2>2, <2>3, <2>4
<1>13. QED
  BY <1>1, <1>3, <1>4, <1>5, <1>7, <1>9, <1>10, <1>11, <1>12, ClearAddWrite, ClearImportCsv,
     ClearCommit, ClearRead, ClearAnswer DEF Next, SuppressionNext

-----------------------------------------------------------------------------
(* The runs.  What a run has still to push and what the dialer has answered are   *)
(* leads of its job, each once.                                                *)

RunInv ==
  \A x \in Sessions : tx[x].op = "run" =>
    /\ \A t, u \in tx[x].todo : t[1] = u[1] => t = u
    /\ \A t \in tx[x].todo \cup tx[x].got : t[1] \in Batch(tx[x].job)
    /\ \A g \in tx[x].got : g[2] # 0
    /\ tx[x].phase \in {"read", "listed"} => tx[x].got = {}

Pushed(l) == \E h \in hopper : h.lead = l

Answered(l) == \E x \in Sessions : tx[x].op = "run" /\ \E n \in Ids : <<l, n>> \in tx[x].got

\* Unless an id was lost, a lead the dialer has accepted has its id, or the run in
\* flight has it, or its batch is gone; and what is left to push was not pushed.
OnceInv ==
  /\ \A h \in hopper : jobs[h.lead[1]].status # "absent"
  /\ ~lost =>
       /\ \A h \in hopper : \/ dialerId[h.lead] # 0
                            \/ ~Exists(h.lead[1])
                            \/ Answered(h.lead)
       /\ \A x \in Sessions : tx[x].op = "run" => \A t \in tx[x].todo : ~Pushed(t[1])

\* A lead keeps its number until a deletion.
LEMMA NumberStays ==
  ASSUME ImportedInv, Next, NEW l \in Leads, phone[l] # NoPhone
  PROVE  \/ phone'[l] # NoPhone
         \/ \E y \in Sessions : DeleteBatch(y)
<1>1. CASE SuppressionNext
  BY <1>1, RegisterWritesNoNumber
<1>2. ASSUME NEW x \in Sessions,
             \/ \E j \in Jobs : \/ Upload(x, j) \/ SaveMapping(x, j) \/ CommitImport(x, j)
                                \/ StartRun(x, j) \/ StopRun(x, j) \/ DeleteLeads(x, j)
             \/ MapKnown(x) \/ MapClassify(x) \/ ImportSend(x)
             \/ ListLeads(x) \/ NothingToPush(x) \/ CheckRegister(x) \/ Push(x)
             \/ FinishRun(x) \/ FinishStop(x)
      PROVE  UNCHANGED phone
  BY <1>2 DEF Upload, SaveMapping, CommitImport, StartRun, StopRun, DeleteLeads, MapKnown,
     MapClassify, ImportSend, ListLeads, NothingToPush, CheckRegister, Push, FinishRun, FinishStop,
     leadVars
<1>3. ASSUME NEW x \in Sessions, ImportFinish(x)
      PROVE  phone'[l] # NoPhone
  <2> DEFINE new == {i \in Lines : <<i, "insert">> \in tx[x].row.rows.kept}
  <2>1. OnJob(x) /\ tx[x].job \in Jobs
    BY <1>3, RequestKinds DEF ImportFinish, Waits, OnJob, ImportedInv, Typed, JobRequests
  <2>2. \A i \in new : FileRow(tx[x].job, i) \in Phones
    BY <2>1 DEF ImportedInv, ImportInv, RequestKept, KeptFor
  <2>3. PICK k \in Copies :
          phone' = [m \in Leads |-> IF m \in {<<tx[x].job, i, k>> : i \in new}
                                      THEN FileRow(tx[x].job, m[2]) ELSE phone[m]]
    BY <1>3 DEF ImportFinish
  <2>4. CASE l \in {<<tx[x].job, i, k>> : i \in new}
    <3>1. PICK i \in new : l = <<tx[x].job, i, k>>
      BY <2>4
    <3>2. l[2] = i
      BY <3>1
    <3>3. phone'[l] = FileRow(tx[x].job, l[2])
      BY <2>3, <2>4
    <3>4. QED
      BY <2>2, <3>2, <3>3, PhoneAssumption
  <2>5. QED
    BY <2>3, <2>4
<1>4. ASSUME NEW m \in Leads, NEW p \in Phones, NEW s \in LeadStatuses, UpdateLead(m, p, s)
      PROVE  phone'[l] # NoPhone
  BY <1>4, PhoneAssumption DEF UpdateLead, ImportedInv, Typed, LeadTypes
<1>5. QED
  BY <1>1, <1>2, <1>3, <1>4 DEF Next, JobNext, AssignList, leadVars

\* What a push does to the run.
LEMMA PushCases ==
  ASSUME ImportedInv, NEW x \in Sessions, Push(x)
  PROVE  \E t \in tx[x].todo :
           /\ t \in Leads \X Phones
           /\ \/ UNCHANGED hopper /\ tx'[x].got = tx[x].got
              \/ /\ hopper' = hopper \cup {[lead |-> t[1], phone |-> t[2], id |-> NextId, by |-> x]}
                 /\ \/ /\ tx'[x].got = tx[x].got \cup {<<t[1], NextId>>}
                       /\ NextId \in Ids \ {0} /\ tx'[x].todo = tx[x].todo \ {t}
                    \/ tx'[x].got = tx[x].got
           /\ tx'[x].phase \in {"pushing", "broken"}
           /\ tx'[x].job = tx[x].job /\ tx'[x].op = "run"
           /\ tx'[x].todo \subseteq tx[x].todo
<1> USE DEF ImportedInv
<1>1. tx[x] \in JobRequests /\ Waits(x, "run", "pushing")
  BY RequestKinds DEF Push, Waits, OnJob, Typed
<1>2. PICK t \in tx[x].todo :
        LET entry == [lead |-> t[1], phone |-> t[2], id |-> NextId, by |-> x]
            rest  == tx[x].todo \ {t} IN
        \/ /\ NextId <= MaxPushes
           /\ hopper' = hopper \cup {entry}
           /\ \/ tx' = [tx EXCEPT ![x].todo = rest,
                          ![x].got = tx[x].got \cup {<<t[1], NextId>>}]
              \/ tx' = [tx EXCEPT ![x].todo = rest]
              \/ tx' = [tx EXCEPT ![x].phase = "broken"]
        \/ /\ tx' = [tx EXCEPT ![x].todo = rest]
           /\ UNCHANGED hopper
        \/ /\ tx' = [tx EXCEPT ![x].phase = "broken"]
           /\ UNCHANGED hopper
  BY DEF Push
<1>3. t \in Leads \X Phones
  BY <1>1 DEF JobRequests
<1>4. NextId \in Nat \ {0}
  BY FS_CardinalityType DEF NextId, Typed, HopperTypes
<1>5. NextId <= MaxPushes => NextId \in Ids \ {0}
  BY <1>4, BoundAssumption DEF Ids
<1>6. \A T, G : tx' = [tx EXCEPT ![x].todo = T, ![x].got = G] =>
        /\ tx'[x].todo = T /\ tx'[x].got = G /\ tx'[x].phase = "pushing"
        /\ tx'[x].job = tx[x].job /\ tx'[x].op = "run"
  BY <1>1 DEF Typed, TxTypes, JobRequests, Waits
<1>7. \A T : tx' = [tx EXCEPT ![x].todo = T] =>
        /\ tx'[x].todo = T /\ tx'[x].got = tx[x].got /\ tx'[x].phase = "pushing"
        /\ tx'[x].job = tx[x].job /\ tx'[x].op = "run"
  BY <1>1 DEF Typed, TxTypes, JobRequests, Waits
<1>8. tx' = [tx EXCEPT ![x].phase = "broken"] =>
        /\ tx'[x].todo = tx[x].todo /\ tx'[x].got = tx[x].got /\ tx'[x].phase = "broken"
        /\ tx'[x].job = tx[x].job /\ tx'[x].op = "run"
  BY <1>1 DEF Typed, TxTypes, JobRequests, Waits
<1>9. QED
  BY <1>2, <1>3, <1>5, <1>6, <1>7, <1>8

LEMMA CheckCases ==
  ASSUME ImportedInv, NEW x \in Sessions, CheckRegister(x)
  PROVE  /\ tx'[x].todo \subseteq tx[x].todo /\ tx'[x].got = tx[x].got
         /\ tx'[x].job = tx[x].job /\ tx[x].op = "run" /\ tx'[x].op = "run"
         /\ tx[x].phase = "listed" /\ tx'[x].phase = "pushing"
<1>1. tx[x] \in JobRequests
  BY RequestKinds DEF CheckRegister, Waits, OnJob, ImportedInv, Typed
<1>2. PICK T \in SUBSET tx[x].todo : \E B :
        tx' = [tx EXCEPT ![x].phase = "pushing", ![x].blocked = B, ![x].todo = T]
  BY DEF CheckRegister
<1>3. QED
  BY <1>1, <1>2 DEF CheckRegister, Waits, ImportedInv, Typed, TxTypes, JobRequests

LEMMA RunInvStep ==
  ASSUME ImportedInv, OneSession, RunInv, Next
  PROVE  RunInv'
<1> SUFFICES ASSUME NEW x \in Sessions, tx'[x].op = "run"
             PROVE  /\ \A t, u \in tx'[x].todo : t[1] = u[1] => t = u
                    /\ \A t \in tx'[x].todo \cup tx'[x].got : t[1] \in Batch(tx[x].job)'
                    /\ \A g \in tx'[x].got : g[2] # 0
                    /\ tx'[x].phase \in {"read", "listed"} => tx'[x].got = {}
  BY DEF RunInv
<1>1. \A y \in Sessions : y = x
  BY DEF OneSession
<1>2. ~DeleteBatch(x)
  BY DEF DeleteBatch, Done, NoRequest, ImportedInv, Typed, TxTypes
<1>3. \A l \in Leads : phone[l] # NoPhone => phone'[l] # NoPhone
  BY <1>1, <1>2, NumberStays
<1>4. \A j \in Jobs : Batch(j) \subseteq Batch(j)'
  BY <1>3 DEF Batch
<1>5. CASE tx'[x] = tx[x]
  <2>1. OnJob(x) /\ tx[x].job \in Jobs
    BY <1>5, RequestKinds DEF OnJob, ImportedInv, Typed, JobRequests
  <2>2. QED
    BY <1>4, <1>5, <2>1 DEF RunInv, Batch
<1>6. CASE ListLeads(x)
  <2>1. tx[x].op = "run" /\ tx[x].phase = "read" /\ OnJob(x) /\ tx[x].job \in Jobs
    BY <1>6, RequestKinds DEF ListLeads, Waits, OnJob, ImportedInv, Typed, JobRequests
  <2>2. tx'[x].got = {} /\ tx'[x].job = tx[x].job
        /\ tx'[x].todo = {<<l, phone[l]>> : l \in ToPush(tx[x].job)}
    BY <1>6, <2>1, RunLists, ContinuedRequest DEF RunInv, SameRequest, ImportedInv
  <2>3. ASSUME NEW t \in tx'[x].todo
        PROVE  t[1] \in Batch(tx[x].job) /\ t = <<t[1], phone[t[1]]>>
    <3>1. PICK l \in ToPush(tx[x].job) : t = <<l, phone[l]>>
      BY <2>2
    <3>2. QED
      BY <3>1 DEF ToPush, Pending
  <2>4. \A t \in tx'[x].todo : t[1] \in Batch(tx[x].job)'
    BY <1>4, <2>1, <2>2, <2>3 DEF Batch
  <2>5. \A t, u \in tx'[x].todo : t[1] = u[1] => t = u
    BY <2>3
  <2>6. QED
    BY <2>2, <2>4, <2>5
<1>7. CASE CheckRegister(x)
  <2>1. tx[x].job \in Jobs
    BY <1>7, RequestKinds DEF CheckRegister, Waits, OnJob, ImportedInv, Typed, JobRequests
  <2>2. QED
    BY <1>4, <1>7, <2>1, CheckCases DEF RunInv, Batch
<1>8. CASE Push(x)
  <2>1. tx[x].job \in Jobs /\ tx[x].op = "run"
    BY <1>8, RequestKinds DEF Push, Waits, OnJob, ImportedInv, Typed, JobRequests
  <2>2. PICK t \in tx[x].todo :
           /\ t \in Leads \X Phones
           /\ \/ tx'[x].got = tx[x].got
              \/ tx'[x].got = tx[x].got \cup {<<t[1], NextId>>} /\ NextId \in Ids \ {0}
           /\ tx'[x].phase \in {"pushing", "broken"}
           /\ tx'[x].job = tx[x].job
           /\ tx'[x].todo \subseteq tx[x].todo
    BY <1>8, PushCases
  <2>3. \A g \in tx'[x].got : g \in tx[x].got \/ (g[1] = t[1] /\ g[2] # 0)
    BY <2>2
  <2>4. \A u \in tx'[x].todo \cup tx'[x].got : u[1] \in Batch(tx[x].job)
    BY <2>1, <2>2, <2>3 DEF RunInv
  <2>5. \A u \in tx'[x].todo \cup tx'[x].got : u[1] \in Batch(tx[x].job)'
    BY <1>4, <2>1, <2>2, <2>4 DEF Batch
  <2>6. QED
    BY <2>1, <2>2, <2>3, <2>5 DEF RunInv
<1>9. ASSUME NEW j \in Jobs, StartRun(x, j)
      PROVE  tx'[x].todo = {} /\ tx'[x].got = {}
  BY <1>9, RunStarts
<1>10. QED
  BY <1>5, <1>6, <1>7, <1>8, <1>9, RunSteps

\* What a run can come to.
LEMMA RunMoves ==
  ASSUME ImportedInv, OneSession, Next, NEW x \in Sessions, tx[x].op = "run"
  PROVE  \/ tx'[x] = tx[x]
         \/ ListLeads(x) \/ CheckRegister(x) \/ Push(x)
         \/ Done(x)
<1>1. Sessions = {x} /\ ~Idle(x)
  BY DEF OneSession, Idle
<1>2. CASE SuppressionNext
  BY ZenonT(60), <1>1, <1>2 DEF SuppressionNext, RedisChanges, Expire, CheckMiss, Add, Remove, ImportCsv,
     CheckRead, CheckAnswer, AddWrite, AddRefused, AddCommit, RemoveWrite, RemoveCommit, Abandon,
     Waits
<1>3. ASSUME NEW j \in Jobs, \/ Upload(x, j) \/ SaveMapping(x, j) \/ CommitImport(x, j)
                             \/ StartRun(x, j) \/ StopRun(x, j) \/ DeleteLeads(x, j)
      PROVE  FALSE
  BY <1>1, <1>3 DEF Upload, SaveMapping, CommitImport, StartRun, StopRun, DeleteLeads
<1>4. CASE \/ MapKnown(x) \/ MapClassify(x) \/ ImportSend(x) \/ ImportFinish(x) \/ FinishStop(x)
           \/ DeleteBatch(x)
  BY <1>4 DEF MapKnown, MapClassify, ImportSend, ImportFinish, FinishStop, DeleteBatch, Waits
<1>5. CASE NothingToPush(x) \/ FinishRun(x)
  BY <1>5 DEF NothingToPush, FinishRun
<1>6. QED
  BY <1>1, <1>2, <1>3, <1>4, <1>5 DEF Next, JobNext, AssignList, UpdateLead

\* A job that is gone does not come back; an upload takes one that was never there.
LEMMA JobsStayGone ==
  ASSUME ImportedInv, OneSession, OrderInv, Next, NEW j \in Jobs
  PROVE  /\ jobs[j].status # "absent" => jobs'[j].status # "absent"
         /\ Exists(j)' => Exists(j) \/ jobs[j].status = "absent"
<1>1. PICK x \in Sessions : Sessions = {x}
  BY DEF OneSession
<1>2. ASSUME SameRows(j)
      PROVE  /\ jobs[j].status # "absent" => jobs'[j].status # "absent"
             /\ Exists(j)' => Exists(j) \/ jobs[j].status = "absent"
  BY <1>2 DEF SameRows, Exists
<1>3. CASE \/ SuppressionNext /\ UNCHANGED <<status, dialerId, jobs, file, hopper>>
           \/ \E i \in Jobs : \/ SaveMapping(x, i) \/ CommitImport(x, i) \/ StartRun(x, i)
                              \/ StopRun(x, i) \/ DeleteLeads(x, i)
           \/ \E l \in Leads, p \in Phones, s \in LeadStatuses : UpdateLead(l, p, s)
  BY <1>2, <1>3 DEF SaveMapping, CommitImport, StartRun, StopRun, DeleteLeads, UpdateLead, SameRows
<1>4. CASE \/ MapKnown(x) \/ ImportSend(x) \/ ListLeads(x) \/ CheckRegister(x) \/ Push(x)
           \/ NothingToPush(x) \/ FinishRun(x) \/ FinishStop(x)
  BY <1>2, <1>4, QuietRows DEF ImportedInv
<1>5. CASE \E i \in Jobs, set \in BOOLEAN : AssignList(i, set)
  BY <1>2, <1>5 DEF AssignList, SameRows, ImportedInv, Typed, JobTypes, JobRows
<1>6. ASSUME NEW i \in Jobs, NEW s, jobs'[j] = jobs[j] \/ i = j,
             jobs'[i].status = s, s # "absent", Exists(i) \/ jobs[i].status = "absent" \/ s = "deleted"
      PROVE  /\ jobs[j].status # "absent" => jobs'[j].status # "absent"
             /\ Exists(j)' => Exists(j) \/ jobs[j].status = "absent"
  BY <1>6 DEF Exists
<1>7. ASSUME NEW i \in Jobs, Upload(x, i)
      PROVE  /\ jobs[j].status # "absent" => jobs'[j].status # "absent"
             /\ Exists(j)' => Exists(j) \/ jobs[j].status = "absent"
  <2>1. jobs'[i].status = "mapping" /\ (jobs'[j] = jobs[j] \/ i = j) /\ jobs[i].status = "absent"
    BY <1>7 DEF Upload, ImportedInv, Typed, JobTypes, JobRows
  <2>2. QED
    BY <1>6, <2>1
<1>8. ASSUME MapClassify(x) \/ ImportFinish(x) \/ DeleteBatch(x)
      PROVE  /\ jobs[j].status # "absent" => jobs'[j].status # "absent"
             /\ Exists(j)' => Exists(j) \/ jobs[j].status = "absent"
  <2>1. OnJob(x) /\ tx[x].job \in Jobs
    BY <1>8, RequestKinds
       DEF MapClassify, ImportFinish, DeleteBatch, Waits, OnJob, ImportedInv, Typed, JobRequests
  <2> PICK i \in Jobs : i = tx[x].job
    BY <2>1
  <2>2. CASE MapClassify(x)
    <3>1. {jobs[i].status, tx[x].row.status} \subseteq {"mapping", "validating"}
      BY <2>1, <2>2 DEF OrderInv, RequestInOrder, MapClassify, Waits
    <3>2. PICK rows, list :
        jobs' = [jobs EXCEPT ![i].status = Column(tx[x].row.status, "validating", jobs[i].status),
                             ![i].rows   = rows, ![i].list = list]
      BY ZenonT(60), <2>2 DEF MapClassify
    <3>3. /\ jobs'[i].status = Column(tx[x].row.status, "validating", jobs[i].status)
          /\ jobs'[j] = jobs[j] \/ i = j
      <4> DEFINE new == Column(tx[x].row.status, "validating", jobs[i].status)
      <4>1. JobTypes
            /\ jobs' = [jobs EXCEPT ![i].status = new, ![i].rows = rows, ![i].list = list]
        BY <3>2 DEF ImportedInv, Typed
      <4> HIDE DEF new
      <4>2. \A k \in Jobs \ {i} : jobs'[k] = jobs[k]
        BY <4>1 DEF JobTypes, JobRows
      <4>3. jobs'[i].status = new
        BY <4>1 DEF JobTypes, JobRows
      <4>4. QED
        BY <4>2, <4>3 DEF new
    <3>4. jobs'[i].status \in {"mapping", "validating"} /\ Exists(i)
      BY <3>1, <3>3 DEF Column, Exists
    <3>5. QED
      BY <1>6, <3>3, <3>4
  <2>3. CASE ImportFinish(x)
    <3>1. jobs[i].status = "validating"
      BY <2>1, <2>3 DEF OrderInv, RequestInOrder, ImportFinish, Waits
    <3>2. jobs'[i].status = "completed" /\ (jobs'[j] = jobs[j] \/ i = j)
      BY <2>3 DEF ImportFinish, ImportedInv, Typed, JobTypes, JobRows
    <3>3. QED
      BY <1>6, <3>1, <3>2 DEF Exists
  <2>4. CASE DeleteBatch(x)
    <3>1. jobs'[i].status = "deleted" /\ (jobs'[j] = jobs[j] \/ i = j)
      BY <2>4 DEF DeleteBatch, ImportedInv, Typed, JobTypes, NoJobRow
    <3>2. QED
      BY <1>6, <3>1
  <2>5. QED
    BY <1>8, <2>2, <2>3, <2>4
<1>9. QED
  BY <1>1, <1>3, <1>4, <1>5, <1>7, <1>8 DEF Next, JobNext

\* Ids are written by a run that ends, and go with their batch.
LEMMA IdsWritten ==
  ASSUME Next, dialerId' # dialerId
  PROVE  \E x \in Sessions : FinishRun(x) \/ DeleteBatch(x)
<1>1. ASSUME NEW x \in Sessions, NEW j \in Jobs,
             \/ Upload(x, j) \/ SaveMapping(x, j) \/ CommitImport(x, j)
             \/ StartRun(x, j) \/ StopRun(x, j) \/ DeleteLeads(x, j)
      PROVE  FALSE
  BY <1>1 DEF Upload, SaveMapping, CommitImport, StartRun, StopRun, DeleteLeads, leadVars
<1>2. ASSUME NEW x \in Sessions,
             \/ MapKnown(x) \/ MapClassify(x) \/ ImportSend(x) \/ ImportFinish(x)
             \/ ListLeads(x) \/ NothingToPush(x) \/ CheckRegister(x) \/ Push(x) \/ FinishStop(x)
      PROVE  FALSE
  BY <1>2 DEF MapKnown, MapClassify, ImportSend, ImportFinish, ListLeads, NothingToPush,
     CheckRegister, Push, FinishStop, leadVars
<1>3. QED
  BY <1>1, <1>2 DEF Next, JobNext, AssignList, UpdateLead, leadVars

-----------------------------------------------------------------------------
(* A lead is pushed once.                                                    *)

SerialInv == /\ ImportedInv /\ OneSession /\ OrderInv /\ RunInv /\ OnceInv /\ PushedOnce
             /\ ClearInv /\ ClearIsTrue

LEMMA OnceKept ==
  ASSUME SerialInv, Next, RememberLoss, UNCHANGED <<hopper, dialerId>>, NEW x \in Sessions,
         \/ tx'[x].op # "run" /\ (tx[x].op = "run" => tx'[x].op = "none")
         \/ /\ tx'[x].op = "run"
            /\ \A t \in tx'[x].todo : tx[x].op = "run" /\ t \in tx[x].todo
            /\ tx[x].op = "run" => tx'[x].got = tx[x].got
  PROVE  OnceInv' /\ PushedOnce'
<1> USE DEF SerialInv
<1>1. \A y \in Sessions : y = x
  BY DEF OneSession
<1>2. lost => lost'
  BY DEF RememberLoss
<1>3. \A h \in hopper : h.lead[1] \in Jobs
  BY LeadParts DEF ImportedInv, Typed, HopperTypes
<1>4. \A h \in hopper : /\ jobs'[h.lead[1]].status # "absent"
                        /\ ~Exists(h.lead[1]) => ~Exists(h.lead[1])'
  BY <1>3, JobsStayGone DEF OnceInv
<1>5. ASSUME ~lost', NEW l, Answered(l)
      PROVE  Answered(l)'
  <2>1. tx[x].op = "run" /\ \E n \in Ids : <<l, n>> \in tx[x].got
    BY <1>1, <1>5 DEF Answered
  <2>2. tx'[x].op # "none"
    BY <1>5, <2>1 DEF RememberLoss
  <2>3. QED
    BY <2>1, <2>2 DEF Answered
<1>6. \A l : Pushed(l)' <=> Pushed(l)
  BY DEF Pushed
<1>7. ASSUME ~lost'
      PROVE  \A y \in Sessions : tx'[y].op = "run" => \A t \in tx'[y].todo : ~Pushed(t[1])'
  BY <1>1, <1>2, <1>6, <1>7 DEF OnceInv
<1>8. ASSUME ~lost', NEW h \in hopper
      PROVE  dialerId'[h.lead] # 0 \/ ~Exists(h.lead[1])' \/ Answered(h.lead)'
  BY <1>2, <1>4, <1>5, <1>8 DEF OnceInv
<1>9. QED
  BY <1>2, <1>4, <1>7, <1>8 DEF OnceInv, PushedOnce

LEMMA OnceList ==
  ASSUME SerialInv, Next, RememberLoss, NEW x \in Sessions, ListLeads(x)
  PROVE  OnceInv' /\ PushedOnce'
<1> USE DEF SerialInv
<1>1. UNCHANGED <<hopper, dialerId, jobs>> /\ (lost => lost')
  BY DEF ListLeads, leadVars, RememberLoss
<1>2. /\ tx[x].op = "run" /\ tx[x].phase = "read" /\ OnJob(x) /\ tx[x].job \in Jobs
      /\ \A y \in Sessions : y = x
  BY RequestKinds DEF ListLeads, Waits, OnJob, ImportedInv, Typed, JobRequests, OneSession
<1>3. tx'[x].got = {} /\ tx[x].got = {}
      /\ tx'[x].todo = {<<l, phone[l]>> : l \in ToPush(tx[x].job)}
  BY <1>2, RunLists DEF RunInv
<1>4. Exists(tx[x].job)
  BY <1>2 DEF OrderInv, RequestInOrder
<1>5. ASSUME ~lost', NEW t \in tx'[x].todo, NEW h \in hopper, h.lead = t[1]
      PROVE  FALSE
  <2>1. PICK l \in ToPush(tx[x].job) : t = <<l, phone[l]>>
    BY <1>3, <1>5
  <2>2. h.lead = l /\ dialerId[l] = 0 /\ l[1] = tx[x].job
    BY <1>5, <2>1 DEF ToPush, Pending, Batch
  <2>3. ~Answered(h.lead)
    BY <1>2, <1>3 DEF Answered
  <2>4. QED
    BY <1>1, <1>4, <1>5, <2>2, <2>3 DEF OnceInv
<1>6. \A l : ~Answered(l)
  BY <1>2, <1>3 DEF Answered
<1>7. QED
  BY <1>1, <1>2, <1>5, <1>6 DEF OnceInv, PushedOnce, Pushed, Exists

LEMMA OncePush ==
  ASSUME SerialInv, Next, RememberLoss, NEW x \in Sessions, Push(x)
  PROVE  OnceInv' /\ PushedOnce'
<1> USE DEF SerialInv
<1>1. UNCHANGED <<dialerId, jobs, phone>> /\ (lost => lost')
  BY DEF Push, leadVars, RememberLoss
<1>2. /\ tx[x].op = "run" /\ OnJob(x) /\ tx[x].job \in Jobs /\ \A y \in Sessions : y = x
  BY RequestKinds DEF Push, Waits, OnJob, ImportedInv, Typed, JobRequests, OneSession
<1>3. PICK t \in tx[x].todo :
           /\ t \in Leads \X Phones
           /\ \/ UNCHANGED hopper /\ tx'[x].got = tx[x].got
              \/ /\ hopper' = hopper \cup {[lead |-> t[1], phone |-> t[2], id |-> NextId, by |-> x]}
                 /\ \/ /\ tx'[x].got = tx[x].got \cup {<<t[1], NextId>>}
                       /\ NextId \in Ids \ {0} /\ tx'[x].todo = tx[x].todo \ {t}
                    \/ tx'[x].got = tx[x].got
           /\ tx'[x].phase \in {"pushing", "broken"}
           /\ tx'[x].job = tx[x].job /\ tx'[x].op = "run"
           /\ tx'[x].todo \subseteq tx[x].todo
  BY PushCases
<1>4. CASE UNCHANGED hopper /\ tx'[x].got = tx[x].got
  BY <1>1, <1>2, <1>3, <1>4, OnceKept
<1> DEFINE entry == [lead |-> t[1], phone |-> t[2], id |-> NextId, by |-> x]
<1>5. CASE hopper' = hopper \cup {entry}
  <2>1. entry.lead = t[1]
    OBVIOUS
  <2> HIDE DEF entry
  <2>2. jobs[t[1][1]].status # "absent"
    <3>1. t[1] \in Leads /\ t[1] \in Batch(tx[x].job)
      BY <1>2, <1>3 DEF RunInv
    <3>2. t[1][1] \in Jobs /\ phone[t[1]] # NoPhone
      BY <3>1, LeadParts DEF Batch
    <3>3. QED
      BY <3>1, <3>2 DEF ImportedInv, ImportInv, Untouched
  <2>3. \A h \in hopper' : jobs'[h.lead[1]].status # "absent"
    BY <1>1, <1>5, <2>1, <2>2 DEF OnceInv
  <2>4. ASSUME ~lost'
        PROVE  /\ ~lost /\ \A h \in hopper : h.lead # t[1]
               /\ tx'[x].got = tx[x].got \cup {<<t[1], NextId>>} /\ NextId \in Ids
               /\ tx'[x].todo = tx[x].todo \ {t}
    <3>1. ~lost /\ \A h \in hopper : h.lead # t[1]
      BY <1>1, <1>2, <2>4 DEF OnceInv, Pushed
    <3>2. hopper' # hopper
      BY <1>5, <2>1, <3>1
    <3>3. tx'[x].got # tx[x].got
      BY <1>2, <2>4, <3>2 DEF RememberLoss
    <3>4. QED
      BY <1>3, <3>1, <3>2, <3>3
  <2>5. PushedOnce'
    BY <1>5, <2>1, <2>4 DEF PushedOnce
  <2>6. ASSUME ~lost', NEW u \in tx'[x].todo, NEW h \in hopper', h.lead = u[1]
        PROVE  FALSE
    <3>1. u \in tx[x].todo /\ u # t
      BY <2>4, <2>6
    <3>2. u[1] # t[1]
      BY <1>2, <3>1 DEF RunInv
    <3>3. h \in hopper
      BY <1>5, <2>1, <2>6, <3>2
    <3>4. QED
      BY <1>2, <2>4, <2>6, <3>1, <3>3 DEF OnceInv, Pushed
  <2>7. ASSUME ~lost', NEW h \in hopper'
        PROVE  dialerId'[h.lead] # 0 \/ ~Exists(h.lead[1])' \/ Answered(h.lead)'
    <3>1. \A l : Answered(l) => Answered(l)'
      BY <1>2, <1>3, <2>4, <2>7 DEF Answered
    <3>2. CASE h \in hopper
      BY <1>1, <2>4, <2>7, <3>1, <3>2 DEF OnceInv, Exists
    <3>3. CASE h = entry
      <4>1. <<h.lead, NextId>> \in tx'[x].got /\ NextId \in Ids
        BY <2>1, <2>4, <2>7, <3>3
      <4>2. QED
        BY <1>3, <4>1 DEF Answered
    <3>4. QED
      BY <1>5, <2>7, <3>2, <3>3
  <2>8. QED
    BY <1>2, <2>3, <2>5, <2>6, <2>7 DEF OnceInv, Pushed
<1>6. QED
  BY <1>3, <1>4, <1>5

LEMMA OnceFinish ==
  ASSUME SerialInv, Next, RememberLoss, NEW x \in Sessions, FinishRun(x)
  PROVE  OnceInv' /\ PushedOnce'
<1> USE DEF SerialInv
<1>1. /\ tx[x].op = "run" /\ OnJob(x) /\ tx[x] \in JobRequests /\ \A y \in Sessions : y = x
  BY ZenonT(60), RequestKinds DEF FinishRun, OnJob, ImportedInv, Typed, OneSession
<1>2. UNCHANGED hopper /\ (lost => lost') /\ tx'[x].op = "none"
  BY DEF FinishRun, RememberLoss, Done, NoRequest, ImportedInv, Typed, TxTypes
<1>3. \A j \in Jobs : SameRows(j)
  BY QuietRows DEF ImportedInv
<1>4. \A h \in hopper : h.lead \in Leads /\ h.lead[1] \in Jobs
  BY LeadParts DEF ImportedInv, Typed, HopperTypes
<1>5. \A h \in hopper : jobs'[h.lead[1]].status # "absent" /\ (Exists(h.lead[1])' => Exists(h.lead[1]))
  BY <1>3, <1>4 DEF OnceInv, SameRows, Exists
<1>6. dialerId' = [l \in Leads |-> IF l \in Batch(tx[x].job) THEN Stored(x, l) ELSE dialerId[l]]
  BY DEF FinishRun
<1>7. ASSUME NEW l \in Leads, dialerId[l] # 0 \/ Answered(l)
      PROVE  dialerId'[l] # 0
  <2>1. CASE \E n \in Ids : <<l, n>> \in tx[x].got
    <3> DEFINE c == CHOOSE n \in Ids : <<l, n>> \in tx[x].got
    <3>1. c \in Ids /\ <<l, c>> \in tx[x].got
      BY <2>1
    <3> HIDE DEF c
    <3>2. c # 0 /\ l \in Batch(tx[x].job)
      BY <1>1, <3>1 DEF RunInv
    <3>3. Stored(x, l) = c
      BY <2>1 DEF Stored, c
    <3>4. QED
      BY <1>6, <3>2, <3>3
  <2>2. CASE ~\E n \in Ids : <<l, n>> \in tx[x].got
    BY <1>1, <1>6, <1>7, <2>2 DEF Stored, Answered
  <2>3. QED
    BY <2>1, <2>2
<1>8. QED
  BY <1>1, <1>2, <1>4, <1>5, <1>7 DEF OnceInv, PushedOnce

LEMMA OnceDelete ==
  ASSUME SerialInv, Next, RememberLoss, NEW x \in Sessions, DeleteBatch(x)
  PROVE  OnceInv' /\ PushedOnce'
<1> USE DEF SerialInv
<1>1. /\ tx[x].op = "delete" /\ OnJob(x) /\ tx[x].job \in Jobs /\ \A y \in Sessions : y = x
  BY RequestKinds DEF DeleteBatch, Waits, OnJob, ImportedInv, Typed, JobRequests, OneSession
<1> PICK j \in Jobs : j = tx[x].job
  BY <1>1
<1>2. UNCHANGED hopper /\ (lost => lost') /\ tx'[x].op = "none"
  BY DEF DeleteBatch, RememberLoss, Done, NoRequest, ImportedInv, Typed, TxTypes
<1>3. \A h \in hopper : h.lead \in Leads /\ h.lead[1] \in Jobs
  BY LeadParts DEF ImportedInv, Typed, HopperTypes
<1>4. \A h \in hopper : jobs'[h.lead[1]].status # "absent" /\ (~Exists(h.lead[1]) => ~Exists(h.lead[1])')
  BY <1>3, JobsStayGone DEF OnceInv
<1>5. jobs'[j].status = "deleted"
  BY DEF DeleteBatch, ImportedInv, Typed, JobTypes, NoJobRow
<1>6. \A l \in Leads : dialerId'[l] = dialerId[l] \/ l[1] = j
  BY <1>1 DEF DeleteBatch, OrderInv, RequestInOrder
<1>7. \A l : ~Answered(l)
  BY <1>1 DEF Answered
<1>8. ASSUME ~lost', NEW h \in hopper
      PROVE  dialerId'[h.lead] # 0 \/ ~Exists(h.lead[1])'
  <2>1. CASE h.lead[1] = j
    BY <1>5, <2>1 DEF Exists
  <2>2. CASE h.lead[1] # j
    BY <1>2, <1>3, <1>4, <1>6, <1>7, <1>8, <2>2 DEF OnceInv
  <2>3. QED
    BY <2>1, <2>2
<1>9. QED
  BY <1>1, <1>2, <1>4, <1>8 DEF OnceInv, PushedOnce

LEMMA OnceStep ==
  ASSUME SerialInv, Next, RememberLoss
  PROVE  OnceInv' /\ PushedOnce'
<1> USE DEF SerialInv
<1>1. PICK x \in Sessions : Sessions = {x}
  BY DEF OneSession
<1>2. CASE Push(x) \/ ListLeads(x) \/ FinishRun(x) \/ DeleteBatch(x)
  BY <1>2, OncePush, OnceList, OnceFinish, OnceDelete
<1>3. CASE ~(Push(x) \/ ListLeads(x) \/ FinishRun(x) \/ DeleteBatch(x))
  <2>1. UNCHANGED <<hopper, dialerId>>
    BY <1>1, <1>3, OnlyPushDials, IdsWritten
  <2>2. CASE tx'[x].op # "run"
    <3>1. tx[x].op = "run" => tx'[x].op = "none"
      <4>1. NoRequest.op = "none"
        BY DEF NoRequest
      <4>2. CASE tx[x].op = "run"
        <5>1. ~CheckRegister(x)
          BY <2>2, CheckCases
        <5>2. Done(x)
          BY <1>3, <2>2, <4>2, <5>1, RunMoves
        <5>3. QED
          BY <4>1, <5>2 DEF Done, ImportedInv, Typed, TxTypes
      <4>3. QED
        BY <4>2
    <3>2. QED
      BY <2>1, <2>2, <3>1, OnceKept
  <2>3. CASE tx'[x].op = "run"
    <3>1. tx'[x] = tx[x] \/ CheckRegister(x) \/ \E j \in Jobs : StartRun(x, j)
      BY <1>3, <2>3, RunSteps
    <3>2. ASSUME NEW j \in Jobs, StartRun(x, j)
          PROVE  tx[x].op # "run" /\ tx'[x].todo = {}
      BY <3>2, RunStarts DEF StartRun, Idle
    <3>3. /\ \A t \in tx'[x].todo : tx[x].op = "run" /\ t \in tx[x].todo
          /\ tx[x].op = "run" => tx'[x].got = tx[x].got
      BY <2>3, <3>1, <3>2, CheckCases
    <3>4. QED
      BY <2>1, <2>3, <3>3, OnceKept
  <2>4. QED
    BY <2>2, <2>3
<1>4. QED
  BY <1>2, <1>3

-----------------------------------------------------------------------------
LEMMA Serial == OneSession /\ SerialSpec => []SerialInv
<1>1. OneSession /\ HistoryInit => OneSession /\ OrderInv /\ RunInv /\ OnceInv /\ PushedOnce
                                   /\ ClearInv /\ ClearIsTrue
  <2> SUFFICES ASSUME OneSession, HistoryInit
               PROVE  /\ OrderInv /\ RunInv /\ OnceInv /\ PushedOnce
                      /\ ClearInv /\ ClearIsTrue
    OBVIOUS
  <2>1. /\ jobs = [j \in Jobs |-> NoJobRow] /\ hopper = {}
        /\ phone = [l \in Leads |-> NoPhone] /\ cache = [p \in Phones |-> {}]
        /\ \A x \in Sessions : tx[x] = NoRequest
    BY DEF HistoryInit, Init, SuppressionInit, JobInit
  <2>2. \A x \in Sessions : tx[x].op = "none"
    BY <2>1 DEF NoRequest
  <2>3. \A j \in Jobs : Batch(j) = {} /\ Used(j) = {}
    <3> TAKE j \in Jobs
    <3>1. \A i \in Lines, k \in Copies : <<j, i, k>> \in Leads
      BY LeadAssumption
    <3>2. QED
      BY <2>1, <3>1 DEF Batch, Used
  <2>4. \A j \in Jobs : jobs[j].active = FALSE /\ jobs[j].run = "idle"
    BY <2>1 DEF NoJobRow
  <2>5. OrderInv
    BY <2>2, <2>3, <2>4 DEF OrderInv, RowInOrder, OnJob
  <2>6. RunInv /\ OnceInv /\ PushedOnce
    BY <2>1, <2>2 DEF RunInv, OnceInv, PushedOnce
  <2>7. ClearInv /\ ClearIsTrue
    BY <2>1, <2>2 DEF ClearInv, ClearIsTrue, Waits, Inserting
  <2>8. QED
    BY <2>5, <2>6, <2>7
<1>2. [Next /\ RememberLoss]_<<vars, history>> => [Next]_vars
  OBVIOUS
<1>3. SerialInv /\ ImportedInv' /\ [Next /\ RememberLoss]_<<vars, history>> => SerialInv'
  <2>1. CASE UNCHANGED <<vars, history>>
    <3>1. UNCHANGED <<register, cache, redis, phone, flagged, status, dialerId, tx, jobs, file,
                      hopper, lost, untold>>
      BY <2>1 DEF vars, leadVars, history
    <3>2. OrderInv => OrderInv'
      BY <3>1 DEF OrderInv, RowInOrder, RequestInOrder, OnJob, Batch, Used, Exists
    <3>3. RunInv => RunInv'
      BY <3>1 DEF RunInv, Batch
    <3>4. OnceInv /\ PushedOnce => OnceInv' /\ PushedOnce'
      BY <3>1 DEF OnceInv, Answered, Pushed, PushedOnce, Exists
    <3>5. ClearInv /\ ClearIsTrue => ClearInv' /\ ClearIsTrue'
      BY <3>1 DEF ClearInv, ClearIsTrue, Waits, Inserting, Suppressed
    <3>6. QED
      BY <3>2, <3>3, <3>4, <3>5 DEF SerialInv, OneSession
  <2>2. CASE Next /\ RememberLoss
    BY <2>2, OrderStep, RunInvStep, OnceStep, ClearStep DEF SerialInv, OneSession
  <2>3. QED
    BY <2>1, <2>2
<1>4. QED
  BY <1>1, <1>2, <1>3, Imported, PTL DEF SerialSpec, HistoryInit, Spec, SerialInv

\* Requests that come one at a time import a job once, leave no lead of a deleted
\* batch, and show a list active just while its run is on; and every column keeps
\* its type (commit_import, delete_batch and set_vicidial_run together).
THEOREM BatchesTheorem == OneSession /\ SerialSpec => []Consistent
<1>1. ASSUME OrderInv, NEW j \in Jobs
      PROVE  Cardinality(Used(j)) <= 1
  <2>1. \A k, n \in Used(j) : k = n
    BY <1>1 DEF OrderInv, RowInOrder
  <2>2. CASE Used(j) = {}
    BY <2>2, FS_EmptySet
  <2>3. ASSUME NEW k \in Used(j)
        PROVE  Cardinality(Used(j)) = 1
    <3>1. Used(j) = {k}
      BY <2>1
    <3>2. QED
      BY <3>1, FS_Singleton
  <2>4. QED
    BY <2>2, <2>3
<1>2. OrderInv => BatchesInOrder
  BY <1>1 DEF OrderInv, RowInOrder, BatchesInOrder, Exists
<1>3. SerialInv => Consistent
  BY <1>2, TypedIsTypeOK DEF SerialInv, ImportedInv, Consistent
<1>4. QED
  BY <1>3, Serial, PTL

\* A cached "clear" is true of every number, unless it was added by a CSV import or
\* while Redis was down, however additions, removals and checks of one session
\* follow on one another and fail half-way.
THEOREM ClearIsTrueTheorem == OneSession /\ SerialSpec => []ClearIsTrue
BY Serial, PTL DEF SerialInv

\* As long as no run failed between the dialer's answer and its commit, and no answer
\* lacked its id, runs that come one at a time push a lead once: a restarted run
\* takes the leads without an id only.
THEOREM PushedOnceTheorem == OneSession /\ SerialSpec => []PushedOnce
BY Serial, PTL DEF SerialInv
=============================================================================
