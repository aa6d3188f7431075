--------------------------- MODULE MCLeadPipeline ---------------------------
(* Instances of LeadPipeline for TLC, with what the properties remember of    *)
(* the past.                                                                 *)
EXTENDS LeadPipeline, TLC

VARIABLES
  lost,    \* a run has not stored an id of a lead that the dialer accepted
  untold,  \* numbers added to the register while the cache was not told
  settled  \* per session, the numbers in the register since its request began

history == <<lost, untold, settled>>

HistoryInit ==
  /\ Init
  /\ lost = FALSE /\ untold = {}
  /\ settled = [x \in Sessions |-> {}]

\* For requests one at a time.
RememberLoss ==
  /\ lost' = (lost \/ \E x \in Sessions :
       /\ tx[x].op = "run"
       /\ \/ hopper' # hopper /\ tx'[x].got = tx[x].got
          \/ tx'[x].op = "none" /\ tx[x].got # {} /\ UNCHANGED dialerId)
  /\ untold' = untold \cup UNION {tx'[x].phones : x \in {y \in Sessions :
                 \/ Waits(y, "import_csv", "written")'
                 \/ Waits(y, "add", "written")' /\ redis = "down"}}
  /\ UNCHANGED settled

\* For requests in parallel.
RememberSettled ==
  /\ settled' = [x \in Sessions |->
       Suppressed' \cap (IF tx'[x].op # "run" THEN {}
                         ELSE IF Idle(x) THEN Phones ELSE settled[x])]
  /\ UNCHANGED <<lost, untold>>

SerialSpec == HistoryInit /\ [][Next /\ RememberLoss]_<<vars, history>>
RaceSpec   == HistoryInit /\ [][Next /\ RememberSettled]_<<vars, history>>

Symmetric == Permutations(Sessions)

AllLeads == Jobs \X Lines \X Copies

CONSTANT p1

\* One number twice.
OneFile == {[rows |-> <<p1, p1>>, header |-> "phone"]}

\* A row that is no number; a column that is not called "phone".
TwoFiles == {[rows |-> <<p1, NoPhone>>, header |-> "phone"],
             [rows |-> <<p1>>, header |-> "other"]}

-----------------------------------------------------------------------------
\* A number whose suppression was committed before a run was requested, and was
\* not lifted since, is not pushed by this run, whatever mappings, imports and
\* edits came before and whatever requests run beside it.
SuppressedStaysOut ==
  [][\A h \in hopper' \ hopper : h.phone \notin settled[h.by]]_<<vars, history>>

\* A cached "clear" is true of every number, unless it was added by a CSV import
\* or while Redis was down, however additions, removals and checks follow on one
\* another and fail half-way.  (Stated for one session.)
ClearIsTrue ==
  \A p \in Phones \ untold : cache[p] = {0} => p \notin Suppressed

\* As long as no run failed between the dialer's answer and its commit, and no
\* answer lacked its id, a lead is pushed once.  (Stated for one session.)
PushedOnce ==
  ~lost => \A h, i \in hopper : h.lead = i.lead => h = i

\* Requests that come one at a time import a job once, leave no lead of a
\* deleted batch, and show a list active just while its run is on.
\* (Stated for one session.)
BatchesInOrder ==
  \A j \in Jobs :
    /\ Cardinality(Used(j)) <= 1
    /\ ~Exists(j) => Batch(j) = {}
    /\ jobs[j].active <=> jobs[j].run = "running"

\* Every column of a request, a lead, a job and a register entry keeps its
\* type, and the batches keep their order (BatchesInOrder).
Consistent == TypeOK /\ BatchesInOrder
=============================================================================
