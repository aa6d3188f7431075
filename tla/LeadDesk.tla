------------------------------ MODULE LeadDesk ------------------------------
(***************************************************************************)
(* The lead desk of the dashboard, useLeadsState and the views it drives:  *)
(* the registry of imported lists, the wizard that adds one, the rows of a *)
(* list page by page, and the browser's own suppression list.              *)
(*                                                                         *)
(* A handler is cut where it awaits the server: the click, the server's    *)
(* work and the arrival of the answer are separate steps, calls that are   *)
(* under way together finish in any order, and each answer is applied with *)
(* what its closure captured.  The server counts its accepted writes, so   *)
(* that what the table shows can be compared with what there is.           *)
(***************************************************************************)
EXTENDS Naturals, FiniteSets, Sequences

CONSTANTS
    Lists,      \* import jobs, which are the lists once committed
    None,       \* null
    MaxCalls,   \* bound: calls under way at once
    Files,      \* CSV files, each the sequence of the classes of its headers
    EditTo,     \* bound: the targets a column is mapped to by hand
    DncOn,      \* list -> suppression keys that its leads carry
    FileKeys,   \* suppression keys of the file a person may import
    Register,   \* suppression keys of the server's own register
    Visits,     \* bound: the parts of the desk one visit is about, and its clicks
    Old,        \* the list that is there already
    MaxLost     \* bound: calls that fail on the way

ASSUME OldAssumption == Old \in Lists /\ None \notin Lists
ASSUME BoundsAssumption == {MaxLost, MaxCalls} \subseteq Nat
ASSUME VisitsAssumption ==
    Visits \subseteq [parts : SUBSET {"table", "wizard", "rows", "dnc"}, left : Nat]

VARIABLES
    jobs,      \* server: list -> its LeadImportJob
    version,   \* server: accepted writes to the registry, plus one
    view,      \* viewMode: the wizard or another
    batches,   \* list -> the row the table shows, None without one
    selected,  \* selectedBatch
    busyRun,   \* vicidialBusyBatchId
    query,     \* page, and whether a status or a search narrows the rows
    rows,      \* the lists whose rows "leads" holds
    wizard,    \* the import wizard
    dnc,       \* suppressionList: entries [key, by]
    kept,      \* localStorage: the same
    folder,    \* is the imported file in suppressionBatches
    net,       \* slot -> the call it carries
    synced,    \* history: the version the table shows, 0 when it shows an edit
    crossed,   \* history: did a call outlive the wizard it was made from
    meddled,   \* history: was a mapping edited while it was being validated
    imported,  \* history: keys the browser took in from a file
    person,    \* the parts of the desk this visit is about, and clicks left
    lost

vars == <<jobs, version, view, batches, selected, busyRun, query, rows, wizard,
          dnc, kept, folder, net, synced, crossed, meddled, imported, person, lost>>
Slots == 1..MaxCalls

server == <<jobs, version>>
table == <<batches, synced>>
import == <<wizard, crossed, meddled>>
suppression == <<dnc, kept, folder, imported>>

Targets == {"phone", "alt_phone", "email", "custom", "skip"}
ASSUME TargetsAssumption == EditTo \subseteq Targets

NoMap == <<>>
NoJob == [at |-> "none", dial |-> FALSE, run |-> FALSE, map |-> NoMap]
NoWizard == [step |-> 1, busy |-> None, job |-> None, map |-> NoMap,
             checked |-> None, result |-> None, error |-> FALSE]
Idle == [kind |-> "idle", phase |-> "idle", list |-> None, arg |-> None,
         ok |-> FALSE, seen |-> 0, got |-> None, dead |-> FALSE]
Row == [dial : BOOLEAN, run : BOOLEAN]
Mappings == {NoMap} \cup UNION {[1..Len(f) -> Targets] : f \in Files}
Keys == (UNION {DncOn[l] : l \in Lists}) \cup FileKeys \cup Register
Entries == [key : Keys, by : {"file", "auto", "other"}]

TypeOK ==
    /\ jobs \in [Lists -> [at : {"none", "mapping", "ready", "done", "gone"},
                           dial : BOOLEAN, run : BOOLEAN, map : Mappings]]
    /\ version \in Nat /\ synced \in 0..version
    /\ view \in {"desk", "import"}
    /\ batches \in [Lists -> Row \cup {None}]
    /\ {selected, busyRun} \subseteq Lists \cup {None}
    /\ rows \subseteq Lists
    /\ query \in [page : 1..2, narrow : BOOLEAN]
    /\ wizard \in [step : 1..3, busy : {None, "upload", "mapping", "commit"},
                   job : Lists \cup {None}, map : Mappings,
                   checked : {None} \cup [job : Lists, map : Mappings],
                   result : Lists \cup {None}, error : BOOLEAN]
    /\ dnc \subseteq Entries /\ kept \subseteq Entries /\ imported \subseteq Keys
    /\ {folder, crossed, meddled} \subseteq BOOLEAN
    /\ DOMAIN net = Slots /\ \A s \in Slots : DOMAIN net[s] = DOMAIN Idle
    /\ person \in [parts : {v.parts : v \in Visits}, left : Nat] /\ lost \in 0..MaxLost

-----------------------------------------------------------------------------
(* Pure parts of the hook.                                                 *)

\* Mapping the columns of a file before anyone touches it: the first primary
\* phone header is the phone, or the first phone-like one without it; further
\* phone columns are alternates; a guess is claimed once, the rest is custom.
GuessColumnMapping(f) ==
    LET phoneLike == {i \in 1..Len(f) : f[i] \in {"Phone", "Home Phone"}}
        best == IF \E i \in phoneLike : f[i] = "Phone"
                THEN {i \in phoneLike : f[i] = "Phone"} ELSE phoneLike
        first(S) == {i \in S : \A j \in S : i <= j}
    IN [i \in 1..Len(f) |->
            IF i \in first(best) THEN "phone"
            ELSE IF i \in phoneLike THEN "alt_phone"
            ELSE IF i \in first({j \in 1..Len(f) : f[j] = "Email"}) THEN "email"
            ELSE "custom"]

PhoneMapped(map) == \E i \in DOMAIN map : map[i] = "phone"

\* The registry as GET /leads/batches answers it, a row per job.
Registry ==
    [l \in Lists |-> IF jobs[l].at \in {"none", "gone"} THEN None
                     ELSE [dial |-> jobs[l].dial, run |-> jobs[l].run]]

\* The suppression keys among the rows the desk holds.
Suppressed(r) == UNION {DncOn[l] : l \in r}

KeysOf(es) == {e.key : e \in es}

\* (mutant) The effect rebuilds the list from the rows alone.
ExtractAnew(r) ==
    LET found == {[key |-> k, by |-> "auto"] : k \in Suppressed(r)}
    IN dnc' = found /\ kept' = found

\* The effect on [batches, leads]: entries of an imported file stay, those the
\* rows carry are extracted anew, everything else goes; storage follows.
Extract(r) ==
    LET files == {e \in dnc : e.by = "file"}
        found == {[key |-> k, by |-> "auto"] : k \in Suppressed(r) \ KeysOf(files)}
    IN dnc' = files \cup found /\ kept' = files \cup found

-----------------------------------------------------------------------------
(* Calls.                                                                  *)

Call(kind, l, a) == [Idle EXCEPT !.kind = kind, !.phase = "sent", !.list = l, !.arg = a]
Free == {s \in Slots : net[s].kind = "idle"}
Start(c) == \E s \in Free : (\A r \in Free : s <= r) /\ net' = [net EXCEPT ![s] = c]

\* A click that sends something, on a part of the desk.
Click(part) ==
    /\ part \in person.parts /\ person.left > 0
    /\ person' = [person EXCEPT !.left = @ - 1]

\* loadData: the rows of a query, of the selected list or of all.
LoadRows(l, q) == Start(Call("leads", l, q))

\* A setBatches: the table changes and the extraction runs.
Retable(b) == batches' = b /\ Extract(rows)

WizardCalls == {"upload", "mapping", "commit"}
Underway == {s \in Slots : net[s].kind \in WizardCalls /\ ~net[s].dead}

\* The answer to a call: what its handler will still read of the call, and the
\* server's word.  Nobody is there for the answer of a call that is dead.
Answer(c, ok, got, v) ==
    IF c.dead THEN Idle
    ELSE [Idle EXCEPT !.kind = c.kind, !.phase = "served", !.ok = ok,
                      !.got = got, !.seen = v,
                      !.list = IF ok \/ c.kind \in {"leads", "registry"} THEN c.list ELSE None,
                      !.arg = IF ok /\ c.kind \in {"upload", "mapping", "run", "delete"}
                              THEN c.arg ELSE None]

\* The server's part of a call that writes: what it makes of it when it takes
\* it, or its refusal.
Serve(s) ==
    LET c == net[s]
        l == c.list
        answer(ok, got, v) == net' = [net EXCEPT ![s] = Answer(c, ok, got, v)]
        write(job) ==
            /\ jobs' = [jobs EXCEPT ![l] = job]
            /\ version' = version + 1
            /\ answer(TRUE, [dial |-> job.dial, run |-> job.run], version + 1)
    IN
    /\ c.phase = "sent"
    /\ \/ /\ c.kind = "leads"         \* rows past the last page are none
          /\ answer(TRUE, {k \in Lists : /\ l \in {None, k} /\ jobs[k].at = "done"
                                         /\ (c.arg.page = 1 \/ ~c.arg.narrow)}, 0)
          /\ UNCHANGED server
       \/ c.kind = "registry" /\ answer(TRUE, Registry, version) /\ UNCHANGED server
       \/ c.kind = "add" /\ answer(TRUE, None, 0) /\ UNCHANGED server
       \/ /\ c.kind = "upload"
          /\ \E k \in Lists :
                /\ jobs[k].at = "none"
                /\ jobs' = [jobs EXCEPT ![k].at = "mapping"]
                /\ version' = version + 1
                /\ answer(TRUE, k, version + 1)
       \/ /\ c.kind = "mapping" /\ jobs[l].at \in {"mapping", "ready"}
          /\ PhoneMapped(c.arg)
          /\ write([jobs[l] EXCEPT !.at = "ready", !.map = c.arg])
       \/ c.kind = "commit" /\ jobs[l].at = "ready" /\ write([jobs[l] EXCEPT !.at = "done"])
       \/ /\ c.kind = "commit" /\ jobs[l].at = "done"
          /\ answer(TRUE, None, version) /\ UNCHANGED server
       \/ c.kind = "edit" /\ jobs[l].at # "gone" /\ write([jobs[l] EXCEPT !.dial = c.arg])
       \/ c.kind = "run" /\ ~c.arg.on /\ jobs[l].at # "gone" /\ write([jobs[l] EXCEPT !.run = FALSE])
       \/ /\ c.kind = "run" /\ c.arg.on /\ jobs[l].at = "done"
          /\ write([jobs[l] EXCEPT !.run = TRUE, !.dial = TRUE])
       \/ /\ c.kind = "run" /\ c.arg.on /\ jobs[l].at = "done"  \* the dialer took none
          /\ jobs' = [jobs EXCEPT ![l].run = FALSE, ![l].dial = TRUE]
          /\ version' = version + 1
          /\ answer(FALSE, None, 0)
       \/ c.kind = "delete" /\ write([jobs[l] EXCEPT !.at = "gone", !.run = FALSE])
       \/ c.kind \notin {"leads", "registry"} /\ answer(FALSE, None, 0) /\ UNCHANGED server
    /\ UNCHANGED <<view, table, selected, busyRun, query, rows, import, suppression, person, lost>>

\* The network loses a call, or its answer; apiFetch hands over a response
\* that is not ok.
Lose(s) ==
    /\ (net[s].phase = "sent" \/ (net[s].phase = "served" /\ net[s].ok)) /\ lost < MaxLost
    /\ lost' = lost + 1
    /\ net' = [net EXCEPT ![s] = Answer(@, FALSE, None, 0)]
    /\ UNCHANGED <<server, view, table, selected, busyRun, query, rows, import,
                   suppression, person>>

Arrives(s, kinds) == net[s].phase = "served" /\ net[s].kind \in kinds
Done(s) == net' = [net EXCEPT ![s] = Idle]

-----------------------------------------------------------------------------
(* The registry of lists.                                                  *)

\* loadBatches: the answer replaces the table, a failure leaves it alone.
\* After a commit the list it created is selected and the wizard is free.
RegistryAnswered(s) ==
    LET c == net[s]
        created == c.list # None /\ c.ok /\ c.got[c.list] # None
    IN
    /\ Arrives(s, {"registry"})
    /\ IF c.ok
       THEN Retable(c.got) /\ synced' = c.seen
       ELSE UNCHANGED <<table, dnc, kept>>
    /\ selected' = IF created THEN c.list ELSE selected
    /\ net' = [net EXCEPT ![s] = IF created THEN Call("leads", c.list, query) ELSE Idle]
    /\ wizard' = IF c.list = None THEN wizard ELSE [wizard EXCEPT !.busy = None]
    /\ UNCHANGED <<server, view, busyRun, query, rows, crossed, meddled, folder,
                   imported, person, lost>>

\* The rows of the table, and the campaign and dialer-list inputs of a row.
RowOffered(l) == view = "desk" /\ batches[l] # None
EditOffered(l, value) == RowOffered(l) /\ batches[l].dial # value

\* handleAssignCampaign and handleUpdateVicidialList, which differ only in the
\* column they write: the row changes at once.
EditRow(l, value) ==
    /\ EditOffered(l, value) /\ Click("table")
    /\ Start(Call("edit", l, value))
    /\ Retable([batches EXCEPT ![l].dial = value]) /\ synced' = 0
    /\ UNCHANGED <<server, view, selected, busyRun, query, rows, import, folder,
                   imported, lost>>

\* (mutant) A refused edit leaves without the re-read.
EditAnsweredEarly(s) ==
    /\ Arrives(s, {"edit"})
    /\ net' = [net EXCEPT ![s] = IF @.ok THEN Call("registry", None, None) ELSE Idle]
    /\ UNCHANGED <<server, view, table, selected, busyRun, query, rows, import,
                   suppression, person, lost>>

\* ... and is read again whatever the answer.
EditAnswered(s) ==
    /\ Arrives(s, {"edit"})
    /\ net' = [net EXCEPT ![s] = Call("registry", None, None)]
    /\ UNCHANGED <<server, view, table, selected, busyRun, query, rows, import,
                   suppression, person, lost>>

\* The run switch of a row: off while its own call is under way, and ignored
\* while any row's is.
ToggleOffered(l) == RowOffered(l) /\ busyRun # l

\* (mutant) The switch flips at once.
ToggleRunOptimistic(l) ==
    /\ ToggleOffered(l) /\ busyRun = None
    /\ Click("table")
    /\ busyRun' = l
    /\ Start(Call("run", l, [on |-> ~batches[l].run, chosen |-> selected = l]))
    /\ Retable([batches EXCEPT ![l].run = ~@]) /\ UNCHANGED synced
    /\ UNCHANGED <<server, view, selected, query, rows, import, folder, imported, lost>>

\* handleToggleVicidialRun, up to the call.
ToggleRun(l) ==
    /\ ToggleOffered(l) /\ busyRun = None
    /\ Click("table")
    /\ busyRun' = l
    /\ Start(Call("run", l, [on |-> ~batches[l].run, chosen |-> selected = l]))
    /\ UNCHANGED <<server, view, table, selected, query, rows, import, suppression, lost>>

\* ... and its answer.  The dialer list the server names is shown.  Its run
\* state is merged under the snake_case names, which normalizeBatch reads only
\* where the row has no camelCase one: the switch stays as it was until the
\* next re-read.  A selected list is a new object, whose rows are read again.
RunAnswered(s) ==
    LET c == net[s] IN
    /\ Arrives(s, {"run"})
    /\ busyRun' = None
    /\ IF c.ok
       THEN /\ Retable(IF batches[c.list] = None THEN batches
                       ELSE [batches EXCEPT ![c.list].dial = @ \/ c.got.dial])
            /\ synced' = IF c.seen < synced THEN c.seen ELSE synced
       ELSE UNCHANGED <<table, dnc, kept>>
    /\ net' = [net EXCEPT ![s] = IF c.ok /\ c.arg.chosen /\ selected # None
                                 THEN Call("leads", selected, query) ELSE Idle]
    /\ UNCHANGED <<server, view, selected, query, rows, import, folder, imported, person, lost>>

\* The bin of a row.  The call remembers whether its list was the selected one.
DeleteList(l) ==
    /\ RowOffered(l) /\ Click("table")
    /\ Start(Call("delete", l, selected = l))
    /\ UNCHANGED <<server, view, table, selected, busyRun, query, rows, import,
                   suppression, lost>>

\* handleDeleteBatch: the row goes once the server has let go of it.
DeleteAnswered(s) ==
    LET c == net[s]
        clear == c.ok /\ c.arg
    IN
    /\ Arrives(s, {"delete"})
    /\ IF c.ok
       THEN /\ batches' = [batches EXCEPT ![c.list] = None]
            /\ Extract(IF clear THEN {} ELSE rows)
            /\ synced' = IF synced + 1 = c.seen THEN c.seen ELSE synced
       ELSE UNCHANGED <<table, dnc, kept>>
    /\ selected' = IF clear THEN None ELSE selected
    /\ rows' = IF clear THEN {} ELSE rows
    /\ net' = [net EXCEPT ![s] = IF clear /\ selected # None
                                 THEN Call("leads", None, query) ELSE Idle]
    /\ UNCHANGED <<server, view, busyRun, query, import, folder, imported, person, lost>>

-----------------------------------------------------------------------------
(* The rows.                                                               *)

\* A row of the table, or "View List": its records, from the first page.  The
\* row selected before is nothing new, unless the table was read again since.
SelectList(l) ==
    /\ RowOffered(l)
    /\ selected' = l
    /\ query' = [query EXCEPT !.page = 1]
    /\ \/ selected = l /\ query.page = 1 /\ UNCHANGED <<net, person>>
       \/ Click("rows") /\ LoadRows(l, query')
    /\ UNCHANGED <<server, view, table, busyRun, rows, import, suppression, lost>>

\* Back to the lists.
ClearSelected ==
    /\ view = "desk"
    /\ selected' = None /\ rows' = {}
    /\ Extract({})
    /\ IF selected = None THEN UNCHANGED <<net, person>> ELSE Click("rows") /\ LoadRows(None, query)
    /\ UNCHANGED <<server, view, table, busyRun, query, import, folder, imported, lost>>

\* The inputs about the records: the pages, of which there is a second one
\* where there are rows, the search, the status and the page size.
NarrowOffered(q) ==
    /\ view = "desk"
    /\ q.page = 2 => rows # {} /\ q # query

\* Their handlers: all but the pages start from the first page again.
Narrow ==
    /\ Click("rows")
    /\ query' \in {[query EXCEPT !.page = 3 - @], [page |-> 1, narrow |-> ~query.narrow]}
    /\ NarrowOffered(query')
    /\ LoadRows(selected, query')
    /\ UNCHANGED <<server, view, table, selected, busyRun, rows, import, suppression, lost>>

\* Rows arrive, for whichever query asked: they replace what is there, an empty
\* answer only where no list was selected.  Then the register is read.
RowsAnswered(s) ==
    LET c == net[s]
        passed == ~c.ok \/ (c.got = {} /\ c.list # None)
    IN
    /\ Arrives(s, {"leads"})
    /\ IF passed THEN UNCHANGED <<rows, dnc, kept>> ELSE rows' = c.got /\ Extract(c.got)
    /\ net' = [net EXCEPT ![s] = [Call("register", None, None) EXCEPT !.phase = "served",
                                                                      !.ok = TRUE]]
    /\ UNCHANGED <<server, view, table, selected, busyRun, query, import, folder,
                   imported, person, lost>>

\* The server's register joins the list under the keys it lacks, until the
\* next extraction.
RegisterAnswered(s) ==
    /\ Arrives(s, {"register"})
    /\ dnc' = IF net[s].ok
              THEN dnc \cup {[key |-> k, by |-> "other"] : k \in Register \ KeysOf(dnc)}
              ELSE dnc
    /\ Done(s)
    /\ UNCHANGED <<server, view, table, selected, busyRun, query, rows, import, kept,
                   folder, imported, person, lost>>

\* The add-lead form, which stays open and live while its call is under way.
AddLead ==
    /\ Click("rows")
    /\ Start(Call("add", None, None))
    /\ UNCHANGED <<server, view, table, selected, busyRun, query, rows, import,
                   suppression, lost>>

\* The new lead heads the rows.
LeadAdded(s) ==
    /\ Arrives(s, {"add"})
    /\ IF net[s].ok THEN Extract(rows) ELSE UNCHANGED <<dnc, kept>>
    /\ Done(s)
    /\ UNCHANGED <<server, view, table, selected, busyRun, query, rows, import, folder,
                   imported, person, lost>>

-----------------------------------------------------------------------------
(* The import wizard.                                                      *)

\* The header's "Import Leads", the subtab and "Import Another File": a new
\* wizard, whatever the old one has under way; only its busy flag stays.
OpenWizard ==
    /\ view' = "import"
    /\ wizard' = [NoWizard EXCEPT !.busy = wizard.busy]
    /\ crossed' = (crossed \/ Underway # {} \/ \E s \in Slots : net[s].kind = "registry" /\
                                                               net[s].list # None)
    /\ UNCHANGED <<server, table, selected, busyRun, query, rows, suppression, net,
                   meddled, person, lost>>

\* What step 1 offers: the file input, off while a file is on its way.
UploadOffered == view = "import" /\ wizard.step = 1 /\ wizard.busy # "upload"

\* handleFileUpload, up to the call.
UploadFile(f) ==
    /\ UploadOffered /\ Click("wizard")
    /\ Start(Call("upload", None, f))
    /\ wizard' = [wizard EXCEPT !.error = FALSE, !.checked = None, !.result = None,
                                !.busy = "upload"]
    /\ UNCHANGED <<server, view, table, selected, busyRun, query, rows, suppression,
                   crossed, meddled, lost>>

UploadAnswered(s) ==
    LET c == net[s] IN
    /\ Arrives(s, {"upload"})
    /\ wizard' = IF c.ok
                 THEN [wizard EXCEPT !.job = c.got, !.map = GuessColumnMapping(c.arg),
                                     !.step = 2, !.busy = None]
                 ELSE [wizard EXCEPT !.error = TRUE, !.busy = None]
    /\ Done(s)
    /\ UNCHANGED <<server, view, table, selected, busyRun, query, rows, suppression,
                   crossed, meddled, person, lost>>

\* The mapping table of step 2, which is never off.
MappingOffered(i, target) ==
    view = "import" /\ wizard.step = 2 /\ i \in DOMAIN wizard.map /\ wizard.map[i] # target

\* (mutant) A new mapping keeps the counts of the old one.
EditMappingKeeping(i, target) ==
    /\ MappingOffered(i, target)
    /\ wizard' = [wizard EXCEPT !.map[i] = target]
    /\ meddled' = (meddled \/ \E s \in Slots : net[s].kind = "mapping" /\ ~net[s].dead)
    /\ UNCHANGED <<server, view, table, selected, busyRun, query, rows, suppression,
                   net, crossed, person, lost>>

\* handleColumnMappingChange: a column gets a target and the counts of the last
\* validation go.
EditMapping(i, target) ==
    /\ MappingOffered(i, target)
    /\ wizard' = [wizard EXCEPT !.map[i] = target, !.checked = None]
    /\ meddled' = (meddled \/ \E s \in Slots : net[s].kind = "mapping" /\ ~net[s].dead)
    /\ UNCHANGED <<server, view, table, selected, busyRun, query, rows, suppression,
                   net, crossed, person, lost>>

\* Step 2's two buttons, one at a time: validating until there are counts,
\* importing from then on.
ValidateOffered == /\ view = "import" /\ wizard.step = 2 /\ wizard.checked = None
                   /\ PhoneMapped(wizard.map) /\ wizard.busy # "mapping"
ImportOffered == /\ view = "import" /\ wizard.step = 2 /\ wizard.checked # None
                 /\ wizard.busy \notin {"mapping", "commit"}

\* handleValidateMapping, up to the call.
ValidateMapping ==
    /\ ValidateOffered /\ wizard.job # None /\ wizard.busy = None
    /\ Click("wizard")
    /\ Start(Call("mapping", wizard.job, wizard.map))
    /\ wizard' = [wizard EXCEPT !.error = FALSE, !.busy = "mapping"]
    /\ UNCHANGED <<server, view, table, selected, busyRun, query, rows, suppression,
                   crossed, meddled, lost>>

MappingAnswered(s) ==
    LET c == net[s] IN
    /\ Arrives(s, {"mapping"})
    /\ wizard' = IF c.ok
                 THEN [wizard EXCEPT !.checked = [job |-> c.list, map |-> c.arg], !.busy = None]
                 ELSE [wizard EXCEPT !.error = TRUE, !.busy = None]
    /\ Done(s)
    /\ UNCHANGED <<server, view, table, selected, busyRun, query, rows, suppression,
                   crossed, meddled, person, lost>>

\* handleStartImport, up to the call.
StartImport ==
    /\ ImportOffered /\ wizard.job # None /\ wizard.busy = None
    /\ Click("wizard")
    /\ Start(Call("commit", wizard.job, None))
    /\ wizard' = [wizard EXCEPT !.error = FALSE, !.step = 3, !.busy = "commit"]
    /\ UNCHANGED <<server, view, table, selected, busyRun, query, rows, suppression,
                   crossed, meddled, lost>>

\* The commit's answer; a good one is followed by the registry.
CommitAnswered(s) ==
    LET c == net[s] IN
    /\ Arrives(s, {"commit"})
    /\ wizard' = IF c.ok THEN [wizard EXCEPT !.result = c.list]
                 ELSE [wizard EXCEPT !.error = TRUE, !.busy = None]
    /\ net' = [net EXCEPT ![s] = IF c.ok THEN Call("registry", c.list, None) ELSE Idle]
    /\ UNCHANGED <<server, view, table, selected, busyRun, query, rows, suppression,
                   crossed, meddled, person, lost>>

\* Step 3's panel: a spinner, or the error, or the result.
FailureShown == wizard.step = 3 /\ wizard.busy # "commit" /\ wizard.error
ResultShown == wizard.step = 3 /\ wizard.busy # "commit" /\ ~wizard.error /\ wizard.result # None

\* "Back" of step 2 and "Back to Mapping" of a failed step 3.
BackOffered == view = "import" /\ (FailureShown \/ (wizard.step = 2 /\ wizard.busy # "mapping"))

StepBack ==
    /\ BackOffered
    /\ wizard' = [wizard EXCEPT !.step = @ - 1]
    /\ UNCHANGED <<server, view, table, selected, busyRun, query, rows, suppression,
                   net, crossed, meddled, person, lost>>

\* The subtabs, the wizard's arrow, and "View Lead List" leave the wizard; the
\* way back is a new one.
LeaveWizard ==
    /\ view = "import" /\ view' = "desk"
    /\ UNCHANGED <<server, table, selected, busyRun, query, rows, import, suppression,
                   net, person, lost>>

-----------------------------------------------------------------------------
(* The suppression view.                                                   *)

\* The upload form of the suppression view.
FileOffered == view = "desk"

\* handleImportSuppressionFileSubmit with a file: keys the list lacks come in
\* and are stored, the file gets a folder.  The server's copy of the upload is
\* best effort and its answer is not read.
ImportFile ==
    LET new == FileKeys \ KeysOf(dnc) IN
    /\ FileOffered /\ Click("dnc")
    /\ dnc' = dnc \cup {[key |-> k, by |-> "file"] : k \in new}
    /\ kept' = dnc' /\ folder' = TRUE
    /\ imported' = imported \cup new
    /\ UNCHANGED <<server, view, table, selected, busyRun, query, rows, import, net, lost>>

\* The same form without a file makes up one entry, which is not stored.
ImportDemo ==
    /\ FileOffered /\ Click("dnc")
    /\ \E k \in FileKeys : dnc' = dnc \cup {[key |-> k, by |-> "other"]}
    /\ folder' = TRUE
    /\ UNCHANGED <<server, view, table, selected, busyRun, query, rows, import, net,
                   kept, imported, lost>>

\* The folders of the suppression view, with their bins.
FolderOffered == view = "desk" /\ folder

\* handleDeleteSuppressionBatch: deleting the folder leaves its entries.
DeleteFolder ==
    /\ FolderOffered
    /\ folder' = FALSE
    /\ UNCHANGED <<server, view, table, selected, busyRun, query, rows, import, dnc,
                   kept, imported, net, person, lost>>

-----------------------------------------------------------------------------
\* The desk is left and opened again, or the page is reloaded: only storage
\* survives, calls that are out stay out, and the mount's effects run.
Remount ==
    LET files == {e \in kept : e.by = "file"}
        gone == [s \in Slots |-> CASE net[s].phase = "sent" -> [net[s] EXCEPT !.dead = TRUE]
                                   [] OTHER -> Idle]
    IN
    /\ \E part \in person.parts : Click(part)
    /\ \E a, b \in Slots :
        /\ a < b /\ gone[a] = Idle /\ gone[b] = Idle
        /\ \A s \in Slots : s < b /\ s # a => gone[s] # Idle
        /\ net' = [gone EXCEPT ![a] = Call("registry", None, None),
                               ![b] = Call("leads", None, [page |-> 1, narrow |-> FALSE])]
    /\ view' = "desk" /\ batches' = [l \in Lists |-> None] /\ synced' = 0
    /\ selected' = None /\ busyRun' = None /\ rows' = {}
    /\ query' = [page |-> 1, narrow |-> FALSE]
    /\ wizard' = NoWizard /\ meddled' = FALSE
    /\ crossed' = FALSE
    /\ dnc' = files /\ kept' = files
    /\ UNCHANGED <<server, folder, imported, lost>>

\* A desk whose mount has been answered: one list is there, its rows and the
\* register are read, nothing is imported.
Init ==
    /\ jobs = [l \in Lists |-> IF l = Old THEN [NoJob EXCEPT !.at = "done"] ELSE NoJob]
    /\ version = 1 /\ synced = 1
    /\ view = "desk" /\ batches = Registry
    /\ selected = None /\ busyRun = None /\ rows = {Old}
    /\ query = [page |-> 1, narrow |-> FALSE]
    /\ wizard = NoWizard /\ crossed = FALSE /\ meddled = FALSE
    /\ kept = {[key |-> k, by |-> "auto"] : k \in Suppressed(rows)}
    /\ dnc = kept \cup {[key |-> k, by |-> "other"] : k \in Register \ KeysOf(kept)}
    /\ folder = FALSE /\ imported = {}
    /\ net = [s \in Slots |-> Idle]
    /\ person \in Visits /\ lost = 0

Answered(s) ==
    \/ RegistryAnswered(s) \/ EditAnswered(s) \/ RunAnswered(s)
    \/ DeleteAnswered(s) \/ RowsAnswered(s) \/ RegisterAnswered(s) \/ LeadAdded(s)
    \/ UploadAnswered(s) \/ MappingAnswered(s) \/ CommitAnswered(s)

Next ==
    \/ \E s \in Slots : Serve(s) \/ Lose(s) \/ Answered(s)
    \/ \E l \in Lists :
        \/ ToggleRun(l) \/ DeleteList(l) \/ SelectList(l)
        \/ \E value \in BOOLEAN : EditRow(l, value)
    \/ ClearSelected \/ Narrow \/ AddLead
    \/ OpenWizard \/ ValidateMapping \/ StartImport \/ StepBack \/ LeaveWizard
    \/ \E f \in Files : UploadFile(f)
    \/ \E f \in Files : \E i \in 1..Len(f) : \E t \in EditTo : EditMapping(i, t)
    \/ ImportFile \/ ImportDemo \/ DeleteFolder
    \/ Remount

\* The server answers what reaches it, and the browser hands answers over.
Fairness == \A s \in Slots : WF_vars(Serve(s)) /\ WF_vars(Answered(s))

Spec == Init /\ [][Next]_vars /\ Fairness

-----------------------------------------------------------------------------
\* A table that has seen every write the server accepted, through a re-read or
\* through the answer to a deletion, shows what the server has: the only writes
\* it makes of its own are the edits, until they are read again.  This is what
\* "the toggle stays disabled until the server confirms" and "the row is only
\* removed once the request succeeds" are for.
ShownIsRegistry == synced = version => batches = Registry

\* An edit that is shown before the server has it is read again in the end,
\* whatever the answer: on success to confirm it, on failure to roll it back.
EditsSettle == synced = 0 ~> (synced # 0 \/ lost > 0)

\* A suppression key that came in from a file is still on the list and in
\* storage, whatever rows, lists, register answers and reloads followed.
ImportedKept ==
    \A k \in imported : /\ [key |-> k, by |-> "file"] \in dnc
                        /\ [key |-> k, by |-> "file"] \in kept

\* Counts on screen are those of the job and of the mapping on screen, as long
\* as no call outlived its wizard and no mapping was edited under validation;
\* and the result on screen is that of the job on screen, which is imported.
CountsAreCurrent ==
    /\ wizard.checked # None /\ ~crossed /\ ~meddled
           => wizard.checked = [job |-> wizard.job, map |-> wizard.map]
    /\ ResultShown /\ ~crossed
           => wizard.result = wizard.job /\ jobs[wizard.job].at \in {"done", "gone"}

\* The desk is well formed and what the wizard shows is current.
Consistent == TypeOK /\ CountsAreCurrent
=============================================================================
