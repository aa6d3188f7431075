---------------------------- MODULE LeadPipeline ----------------------------
(***************************************************************************)
(* The way of a lead from an uploaded file into the dialer                   *)
(* (src/apps/backend/app/modules/leads/service.py): the import wizard        *)
(* (upload, column mapping, commit), and the run that pushes the leads of a   *)
(* batch into VICIdial's hopper, over the do-not-call register.              *)
(*                                                                         *)
(* A request reads its rows without a lock and works on what it read.  It     *)
(* holds the lock of the job row from the moment SQLAlchemy sends its first   *)
(* UPDATE of the job.  Calls of the dialer cannot be rolled back.  When the   *)
(* job was deleted in the meantime the UPDATE matches no row and the request  *)
(* fails: it can only be abandoned.                                          *)
(***************************************************************************)
EXTENDS Suppression, Sequences

CONSTANTS
  Jobs,       \* import jobs
  Files,      \* what may be uploaded: [rows: sequence of numbers, header]
  LeadStatuses, \* the lead statuses considered
  MaxLines,   \* bound: rows of a file
  MaxCopies,  \* bound: times the rows of one job are inserted
  MaxPushes   \* bound: leads the dialer accepts

Lines  == 1..MaxLines
Copies == 1..MaxCopies

\* The batch, the row of the file and the insert a lead comes from.
ASSUME LeadAssumption == Leads = Jobs \X Lines \X Copies
\* header: the name of the column that is mapped to the number.
ASSUME FileAssumption ==
  \A f \in Files : /\ f.rows \in Seq(Phones \cup {NoPhone})
                   /\ Len(f.rows) <= MaxLines
                   /\ f.header \in {"phone", "other"}
ASSUME BoundAssumption == MaxLines \in Nat /\ MaxCopies \in Nat
                          /\ MaxPushes \in Nat
\* "new" stands for every status that a run does not look at.
ASSUME StatusAssumption ==
  {"new"} \subseteq LeadStatuses /\ LeadStatuses \subseteq {"new", "suppressed"}

VARIABLES
  jobs,     \* lead_import_jobs
  file,     \* per job, the file that was uploaded
  status,   \* leads.status
  dialerId, \* leads.vicidial_lead_id, 0 for null
  hopper    \* what the dialer has accepted: [lead, phone, id, by]

leadVars == <<phone, flagged, status, dialerId>>
vars == <<register, cache, redis, leadVars, tx, jobs, file, hopper>>

\* job.rows: the parsed rows of the file, or what save_mapping has kept of them.
Kinds == {"insert", "update"}
Raw   == [raw |-> TRUE, kept |-> {}]
RowSets == [raw: BOOLEAN, kept: SUBSET (Lines \X Kinds)]

\* list: vicidial_list_id is set.  active: is_active_for_vicidial.
JobRows ==
  [status: {"absent", "mapping", "validating", "completed", "deleted"},
   rows: RowSets, list: BOOLEAN,
   run: {"idle", "running", "interrupted"}, active: BOOLEAN]

NoJobRow == [status |-> "absent", rows |-> Raw, list |-> FALSE,
             run |-> "idle", active |-> FALSE]

Ids == 0..MaxPushes

\* locked: the request has sent an UPDATE of its job.  known: numbers found in
\* the leads table.  todo, blocked: the leads a run has still to push, and those
\* its guard has caught.  got: the ids the dialer has answered.
JobRequests ==
  [op: {"map", "import", "run", "stop", "delete"},
   phase: {"read", "sent", "listed", "pushing", "broken"},
   job: Jobs, row: JobRows, locked: BOOLEAN, known: SUBSET Phones,
   todo: SUBSET (Leads \X Phones), blocked: SUBSET Leads,
   got: SUBSET (Leads \X Ids), wrote: SUBSET Leads]

\* Of the row a request remembers the columns it goes by.
Wizard(j) == [NoJobRow EXCEPT !.status = jobs[j].status, !.rows = jobs[j].rows]
Toggle(j) == [jobs[j] EXCEPT !.status = "absent", !.rows = Raw]

JobRequest(op, j, row) ==
  [op |-> op, phase |-> "read", job |-> j, row |-> row, locked |-> FALSE,
   known |-> {}, todo |-> {}, blocked |-> {}, got |-> {}, wrote |-> {}]

Exists(j) == jobs[j].status \notin {"absent", "deleted"}

OnJob(y) == tx[y].op \in {"map", "import", "run", "stop", "delete"}

JobFree(x, j) ==
  \A y \in Sessions \ {x} : ~(OnJob(y) /\ tx[y].job = j /\ tx[y].locked)

\* An UPDATE has the columns whose new value differs from the one read.
Column(read, new, current) == IF new = read THEN current ELSE new

Batch(j) == {l \in Leads : l[1] = j /\ phone[l] # NoPhone}

-----------------------------------------------------------------------------
(* The import wizard                                                        *)

\* upload_import
Upload(x, j) ==
  /\ Idle(x)
  /\ jobs[j].status = "absent"
  /\ \E f \in Files : file' = [file EXCEPT ![j] = f]
  /\ jobs' = [jobs EXCEPT ![j].status = "mapping"]
  /\ UNCHANGED <<register, cache, redis, leadVars, tx, hopper>>

\* save_mapping: the job is loaded, in a state that can be mapped.
SaveMapping(x, j) ==
  /\ Idle(x)
  /\ jobs[j].status \in {"mapping", "validating"}
  /\ tx' = [tx EXCEPT ![x] = JobRequest("map", j, Wizard(j))]
  /\ UNCHANGED <<register, cache, redis, leadVars, jobs, file, hopper>>

FileRow(j, i) == file[j].rows[i]
FileLines(j)  == 1..Len(file[j].rows)

\* _phone_from_row looks the number up under the column named "phone".  The
\* rows that save_mapping has prepared have no such column any more.
Looked(x) ==
  LET j == tx[x].job IN
  IF tx[x].row.rows.raw /\ file[j].header = "phone"
    THEN {FileRow(j, i) : i \in FileLines(j)} \ {NoPhone} ELSE {}

\* The first SELECT after the changes sends them, and takes the row lock.
MapKnown(x) ==
  /\ Waits(x, "map", "read")
  /\ JobFree(x, tx[x].job)
  /\ Exists(tx[x].job)
  /\ tx' = [tx EXCEPT ![x].phase = "sent", ![x].locked = TRUE,
               ![x].known = Looked(x) \cap {phone[l] : l \in Leads}]
  /\ UNCHANGED <<register, cache, redis, leadVars, jobs, file, hopper>>

\* classify_row, in its order: a number in the register is skipped, a number
\* kept before in this file is skipped, one known to the system is skipped or,
\* with update_existing, kept as an update.
Clear(x, i) == FileRow(tx[x].job, i) \notin Looked(x) \cap Suppressed

NewNumber(x, i) == /\ FileRow(tx[x].job, i) # NoPhone
                   /\ Clear(x, i)
                   /\ FileRow(tx[x].job, i) \notin tx[x].known

FirstInFile(x, i) ==
  \A k \in 1..(i - 1) : FileRow(tx[x].job, k) # FileRow(tx[x].job, i)

\* Variant: numbers are compared with the system only.
AnywhereInFile(x, i) == TRUE

SkipsRepeated(x, i) == FirstInFile(x, i)

Kept(x, updateExisting) ==
  IF ~tx[x].row.rows.raw THEN {}
  ELSE {<<i, "insert">> : i \in {n \in FileLines(tx[x].job) :
                                   NewNumber(x, n) /\ SkipsRepeated(x, n)}}
       \cup
       {<<i, "update">> : i \in {n \in FileLines(tx[x].job) :
                                   /\ updateExisting
                                   /\ FileRow(tx[x].job, n) \in tx[x].known
                                   /\ Clear(x, n)}}

\* The register is read, the rows are classified, and the job is committed, with
\* a list id if the mapping gives one.
MapClassify(x) ==
  /\ Waits(x, "map", "sent")
  /\ \E updateExisting, list \in BOOLEAN :
       LET j == tx[x].job
           r == tx[x].row
           rows == [raw |-> FALSE, kept |-> Kept(x, updateExisting)] IN
       jobs' = [jobs EXCEPT
         ![j].status = Column(r.status, "validating", jobs[j].status),
         ![j].rows   = Column(r.rows, rows, jobs[j].rows),
         ![j].list   = jobs[j].list \/ list]
  /\ Done(x)
  /\ UNCHANGED <<register, cache, redis, leadVars, file, hopper>>

\* commit_import: a completed job is answered as it is, any other that is not
\* validating is refused.
MayCommit(j) == jobs[j].status = "validating"

\* Variant: a retried commit is not recognised.
MayCommitAgain(j) == jobs[j].status \in {"validating", "completed"}

Committable(j) == MayCommit(j)

CommitImport(x, j) ==
  /\ Idle(x)
  /\ Committable(j)
  /\ tx' = [tx EXCEPT ![x] = JobRequest("import", j, Wizard(j))]
  /\ UNCHANGED <<register, cache, redis, leadVars, jobs, file, hopper>>

Used(j) == {k \in Copies : \E i \in Lines : phone[<<j, i, k>>] # NoPhone}

\* The status "importing" is sent, nobody else sees it; the rows are inserted.
ImportSend(x) ==
  /\ Waits(x, "import", "read")
  /\ JobFree(x, tx[x].job)
  /\ Exists(tx[x].job)
  /\ tx' = [tx EXCEPT ![x].phase = "sent", ![x].locked = TRUE]
  /\ UNCHANGED <<register, cache, redis, leadVars, jobs, file, hopper>>

\* The leads get the initial status of the mapping.  Updates of existing leads
\* write names and addresses only, and are left out.
ImportFinish(x) ==
  /\ Waits(x, "import", "sent")
  /\ LET j   == tx[x].job
         new == {i \in Lines : <<i, "insert">> \in tx[x].row.rows.kept} IN
     \E k \in Copies \ Used(j) :
       /\ \A n \in 1..(k - 1) : n \in Used(j)
       /\ phone' = [l \in Leads |-> IF l \in {<<j, i, k>> : i \in new}
                                      THEN FileRow(j, l[2]) ELSE phone[l]]
       /\ \E s \in LeadStatuses :
            status' = [l \in Leads |-> IF l \in {<<j, i, k>> : i \in new}
                                        THEN s ELSE status[l]]
       /\ jobs' = [jobs EXCEPT ![j].status = "completed"]
  /\ Done(x)
  /\ UNCHANGED <<register, cache, redis, flagged, dialerId, file, hopper>>

-----------------------------------------------------------------------------
(* set_vicidial_run                                                         *)

StartRun(x, j) ==
  /\ Idle(x)
  /\ Exists(j)
  /\ tx' = [tx EXCEPT ![x] = JobRequest("run", j, Toggle(j))]
  /\ UNCHANGED <<register, cache, redis, leadVars, jobs, file, hopper>>

\* Leads the dialer has never accepted.
Pending(j) == {l \in Batch(j) : dialerId[l] = 0}

\* Variant: every lead of the batch.
PendingAll(j) == Batch(j)

ToPush(j) == Pending(j)

\* What the guard sees on the lead itself: the flag, and the one status of the
\* enumeration that its list has ("do_not_call" is not in it).
Barred(l) == l \in flagged \/ status[l] = "suppressed"

\* The pending leads are read (up to 500, a limit not reached here).  Before
\* that, a list id or campaign the request has set or changed is sent, with the
\* row lock.
ListLeads(x) ==
  /\ Waits(x, "run", "read")
  /\ LET j == tx[x].job
         L == ToPush(j) IN
     /\ L # {}
     /\ \E changes \in BOOLEAN :
          /\ ~tx[x].row.list => changes
          /\ changes => JobFree(x, j) /\ Exists(j)
          /\ tx' = [tx EXCEPT ![x].phase = "listed", ![x].locked = changes,
                      ![x].todo = {<<l, phone[l]>> : l \in L},
                      ![x].blocked = {l \in L : Barred(l)}]
  /\ UNCHANGED <<register, cache, redis, leadVars, jobs, file, hopper>>

\* Nothing is pending: the request is refused.
NothingToPush(x) ==
  /\ Waits(x, "run", "read")
  /\ ToPush(tx[x].job) = {}
  /\ Done(x)
  /\ UNCHANGED <<register, cache, redis, leadVars, jobs, file, hopper>>

\* Variant: the guard trusts the flag of the lead.
GuardedByFlag == {}

Guarded == Suppressed

\* The register is read once, for every lead of the run.
CheckRegister(x) ==
  /\ Waits(x, "run", "listed")
  /\ LET caught == tx[x].blocked
                   \cup {l \in Leads : \E p \in Guarded : <<l, p>> \in tx[x].todo} IN
     tx' = [tx EXCEPT ![x].phase = "pushing", ![x].blocked = caught,
               ![x].todo = {t \in tx[x].todo : t[1] \notin caught}]
  /\ UNCHANGED <<register, cache, redis, leadVars, jobs, file, hopper>>

NextId == Cardinality(hopper) + 1

\* add_lead.  The dialer accepts the lead, and its answer has the id or does
\* not; or it rejects the lead; or the connection fails, before the lead was
\* accepted or after, and the loop is left.
Push(x) ==
  /\ Waits(x, "run", "pushing")
  /\ \E t \in tx[x].todo :
       LET entry == [lead |-> t[1], phone |-> t[2], id |-> NextId, by |-> x]
           rest  == tx[x].todo \ {t} IN
       \/ /\ NextId <= MaxPushes
          /\ hopper' = hopper \cup {entry}
          /\ \/ tx' = [tx EXCEPT ![x].todo = rest,
                         ![x].got = tx[x].got \cup {<<t[1], NextId>>}]
             \/ tx' = [tx EXCEPT ![x].todo = rest]
             \/ tx' = [tx EXCEPT ![x].phase = "broken"]
       \/ /\ tx' = [tx EXCEPT ![x].todo = rest]
          /\ UNCHANGED hopper
       \/ /\ tx' = [tx EXCEPT ![x].phase = "broken"]
          /\ UNCHANGED hopper
  /\ UNCHANGED <<register, cache, redis, leadVars, jobs, file>>

\* The ids the run stores on its leads.
Stored(x, l) == IF \E n \in Ids : <<l, n>> \in tx[x].got
                  THEN CHOOSE n \in Ids : <<l, n>> \in tx[x].got
                  ELSE dialerId[l]

\* Variant: a status of its own for a failed run.
OutcomeFailed(accepted) == IF accepted THEN "running" ELSE "failed"

Outcome(accepted) == IF accepted THEN "running" ELSE "idle"

\* The loop is over.  The guard's flags are written for all leads it caught, or,
\* after a failure, for those it had come to.  With no id the job is set idle
\* and the request fails; otherwise the ids are stored and the run counts.
FinishRun(x) ==
  /\ OnJob(x) /\ tx[x].op = "run"
  /\ \/ tx[x].phase = "pushing" /\ tx[x].todo = {}
     \/ tx[x].phase = "broken"
  /\ LET j == tx[x].job
         r == tx[x].row
         accepted == tx[x].got # {} IN
     /\ JobFree(x, j)
     /\ Exists(j)
     /\ \E caught \in SUBSET tx[x].blocked :
          /\ tx[x].phase = "pushing" => caught = tx[x].blocked
          /\ LeadsFree(x, caught \cup {t[1] : t \in tx[x].got})
          /\ flagged' = flagged \cup (caught \cap Batch(j))
     /\ dialerId' = [l \in Leads |-> IF l \in Batch(j) THEN Stored(x, l)
                                                      ELSE dialerId[l]]
     /\ \E list \in {~r.list, tx[x].locked} :
          jobs' = [jobs EXCEPT
            ![j].list   = jobs[j].list \/ list,
            ![j].run    = Column(r.run, Outcome(accepted), jobs[j].run),
            ![j].active = Column(r.active, accepted, jobs[j].active)]
  /\ Done(x)
  /\ UNCHANGED <<register, cache, redis, phone, status, file, hopper>>

StopRun(x, j) ==
  /\ Idle(x)
  /\ Exists(j)
  /\ tx' = [tx EXCEPT ![x] = JobRequest("stop", j, Toggle(j))]
  /\ UNCHANGED <<register, cache, redis, leadVars, jobs, file, hopper>>

FinishStop(x) ==
  /\ Waits(x, "stop", "read")
  /\ LET j == tx[x].job
         r == tx[x].row IN
     /\ JobFree(x, j)
     /\ Exists(j)
     /\ \E list \in BOOLEAN :
          jobs' = [jobs EXCEPT
            ![j].list   = jobs[j].list \/ list,
            ![j].run    = Column(r.run, "interrupted", jobs[j].run),
            ![j].active = Column(r.active, FALSE, jobs[j].active)]
  /\ Done(x)
  /\ UNCHANGED <<register, cache, redis, leadVars, file, hopper>>

-----------------------------------------------------------------------------
(* The batch registry                                                       *)

\* update_batch_vicidial_list
AssignList(j, set) ==
  /\ Exists(j)
  /\ \A y \in Sessions : ~(OnJob(y) /\ tx[y].job = j /\ tx[y].locked)
  /\ jobs' = [jobs EXCEPT ![j].list = set]
  /\ UNCHANGED <<register, cache, redis, leadVars, tx, file, hopper>>

\* delete_batch: the job is looked up and the leads that are visible are deleted.
DeleteLeads(x, j) ==
  /\ Idle(x)
  /\ jobs[j].status # "absent"
  /\ LeadsFree(x, Batch(j))
  /\ tx' = [tx EXCEPT ![x] = [JobRequest("delete", j, NoJobRow) EXCEPT
                                !.phase = "sent", !.wrote = Batch(j)]]
  /\ UNCHANGED <<register, cache, redis, leadVars, jobs, file, hopper>>

\* Then the job row, if it is still there, and the commit.
DeleteBatch(x) ==
  /\ Waits(x, "delete", "sent")
  /\ JobFree(x, tx[x].job)
  /\ jobs' = [jobs EXCEPT ![tx[x].job] = [NoJobRow EXCEPT !.status = "deleted"]]
  /\ LET gone == tx[x].wrote IN
     /\ phone' = [l \in Leads |-> IF l \in gone THEN NoPhone ELSE phone[l]]
     /\ flagged' = flagged \ gone
     /\ status' = [l \in Leads |-> IF l \in gone THEN "new" ELSE status[l]]
     /\ dialerId' = [l \in Leads |-> IF l \in gone THEN 0 ELSE dialerId[l]]
  /\ Done(x)
  /\ UNCHANGED <<register, cache, redis, file, hopper>>

\* update_lead: the columns of one lead, in one UPDATE.
UpdateLead(l, p, s) ==
  /\ phone[l] # NoPhone
  /\ \A y \in Sessions : l \notin tx[y].wrote
  /\ phone' = [phone EXCEPT ![l] = p]
  /\ status' = [status EXCEPT ![l] = s]
  /\ UNCHANGED <<register, cache, redis, flagged, dialerId, tx, jobs, file, hopper>>

-----------------------------------------------------------------------------
JobInit ==
  /\ jobs = [j \in Jobs |-> NoJobRow]
  /\ file \in [Jobs -> {[rows |-> <<>>, header |-> "phone"]}]
  /\ status = [l \in Leads |-> "new"]
  /\ dialerId = [l \in Leads |-> 0]
  /\ hopper = {}

Init == SuppressionInit /\ JobInit

JobNext ==
  \/ \E x \in Sessions :
       \/ \E j \in Jobs : \/ Upload(x, j) \/ SaveMapping(x, j) \/ CommitImport(x, j)
                          \/ StartRun(x, j) \/ StopRun(x, j) \/ DeleteLeads(x, j)
       \/ MapKnown(x) \/ MapClassify(x) \/ ImportSend(x) \/ ImportFinish(x)
       \/ ListLeads(x) \/ NothingToPush(x) \/ CheckRegister(x) \/ Push(x)
       \/ FinishRun(x) \/ FinishStop(x) \/ DeleteBatch(x)
  \/ \E j \in Jobs, set \in BOOLEAN : AssignList(j, set)
  \/ \E l \in Leads, p \in Phones, s \in LeadStatuses : UpdateLead(l, p, s)

Next ==
  \/ JobNext
  \/ SuppressionNext /\ UNCHANGED <<status, dialerId, jobs, file, hopper>>

Spec == Init /\ [][Next]_vars

-----------------------------------------------------------------------------
TypeOK ==
  /\ SuppressionTypeOK
  /\ tx \in [Sessions -> DeskRequests \cup JobRequests \cup {NoRequest}]
  /\ jobs \in [Jobs -> JobRows]
  /\ status \in [Leads -> LeadStatuses]
  /\ dialerId \in [Leads -> Ids]
  /\ hopper \subseteq [lead: Leads, phone: Phones, id: Ids \ {0}, by: Sessions]

\* Whatever mappings and commits race, one insert of a file has each of its
\* numbers at most once.
NumberOncePerInsert ==
  \A l, m \in Leads :
    /\ phone[l] # NoPhone /\ phone[m] # NoPhone
    /\ l[1] = m[1] /\ l[3] = m[3]
    /\ FileRow(l[1], l[2]) = FileRow(m[1], m[2])
    => l = m
=============================================================================
