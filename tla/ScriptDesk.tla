----------------------------- MODULE ScriptDesk -----------------------------
(***************************************************************************)
(* The script desk of the dashboard, ScriptsView: a library of call        *)
(* scripts on the screen and in localStorage, with the versions the desk *)
(* itself keeps of each, an editor, and a simulator of the conversation.   *)
(*                                                                         *)
(* What reaches the server is little: a creation, and the submission and   *)
(* the approval of version 1.  The edit of a script carries fields the     *)
(* server forbids, an activation lacks the body it requires, and there is  *)
(* no deletion: all three are refused, and no refusal is read.  Deleted    *)
(* scripts are kept off the screen by a list of tombstones in storage.     *)
(*                                                                         *)
(* Names that ScriptGovernance, the server's part, has as well are said    *)
(* here of the desk: DeskInit, DeskNext, DeskSpec, DeskTypeOK, deskVars.   *)
(***************************************************************************)
EXTENDS Naturals, FiniteSets, Sequences

CONSTANTS
    Known,       \* sequence: the server's rows at first, with one version each
    New,         \* ids the server gives to the scripts it creates
    Temps,       \* ids "script-" and four digits of the clock, which come round again
    None,        \* null
    Wordings,    \* wordings
    Blank,       \* the wording of an emptied field of the editor
    MaxVersion,  \* bound: versions of one script on the desk
    Visits,      \* bound: the parts of the desk one visit is about, and its clicks
    MaxCalls,    \* bound: calls under way at once
    MaxLost      \* bound: calls that fail on the way

Ids == {Known[k].id : k \in DOMAIN Known} \cup New \cup Temps
Statuses == {"draft", "approved", "active"}
EntryStatuses == Statuses \cup {"pending_approval"}
Outcomes == {"qualified", "disqualified"}

Worded == Wordings \ {Blank}
ServerScript == [id : Ids \ Temps, status : Statuses, first : EntryStatuses, text : Worded]
Version == [n : 1..MaxVersion, status : EntryStatuses, text : Wordings \cup {None}]
Row == [id : Ids, status : Statuses, text : Wordings, n : 1..MaxVersion, history : Seq(Version)]

ASSUME BoundsAssumption == MaxVersion \in Nat \ {0} /\ {MaxCalls, MaxLost} \subseteq Nat
ASSUME IdsAssumption == New \cap Temps = {} /\ None \notin Ids \cup Outcomes \cup Wordings
ASSUME KnownAssumption == Known \in Seq(ServerScript)
ASSUME VisitsAssumption == Visits \subseteq [parts : {v.parts : v \in Visits}, left : Nat]

VARIABLES
    server,    \* sequence of the server's scripts: [id, status, first, text]
    shown,     \* the sequence of rows on the screen
    stored,    \* localStorage "talkflow_call_scripts"
    deleted,   \* localStorage "talkflow_deleted_scripts"
    route,     \* routeInfo: the mode and the script
    typed,     \* the editor's wording
    sim,       \* the simulator: step, whose greeting it spoke, outcome
    net,       \* slot -> the call it carries
    person,    \* the parts of this visit and clicks left
    lost

deskVars == <<server, shown, stored, deleted, route, typed, sim, net, person, lost>>

Slots == 1..MaxCalls
Modes == {"library", "new", "overview", "edit", "preview"}
Kinds == {"idle", "fetch", "create", "review", "delete", "save", "saveActivate"}

CallType ==
    [kind : Kinds, phase : {"idle", "sent", "served"}, ok : BOOLEAN, script : Ids \cup {None},
     temp : Temps \cup {None}, step : 0..2, local : Seq(Row), gone : SUBSET Ids,
     got : Seq(Row), desk : {"here", "left", "gone"}]

Idle == [kind |-> "idle", phase |-> "idle", ok |-> FALSE, script |-> None, temp |-> None, step |-> 0,
         local |-> <<>>, gone |-> {}, got |-> <<>>, desk |-> "here"]
NoSim == [step |-> 0, of |-> None, outcome |-> None]

RowIds(rows) == {rows[k].id : k \in DOMAIN rows}

DeskTypeOK ==
    /\ server \in Seq(ServerScript)
    /\ shown \in Seq(Row) /\ stored \in Seq(Row)
    /\ deleted \subseteq Ids
    /\ route \in [mode : Modes, script : Ids \cup {None}]
    /\ typed \in Wordings \cup {None}
    /\ sim \in [step : 0..2, of : Ids \cup {None}, outcome : Outcomes \cup {None}]
    /\ (sim.outcome = "qualified" => sim.step = 2) /\ (sim.step = 0) = (sim.of = None)
    /\ net \in [Slots -> CallType]
    /\ person \in [parts : {v.parts : v \in Visits}, left : Nat] /\ lost \in 0..MaxLost

-----------------------------------------------------------------------------
(* Rows and versions.                                                      *)

\* A row made from the server's answer.  The answer's field names are in camel
\* case and the desk reads snake case, so every row is at version 1; what it
\* tells of its version has no wording.
ServerRow(s) == [id |-> s.id, status |-> s.status, text |-> s.text, n |-> 1,
                 history |-> <<[n |-> 1, status |-> s.first, text |-> None]>>]

\* The rows at some positions of a list, in their order.
Among(rows, at) ==
    [k \in 1..Cardinality(at) |-> rows[CHOOSE i \in at : Cardinality({j \in at : j <= i}) = k]]

\* The rows whose ids are not among the deleted ones.
Undeleted(rows, gone) == Among(rows, {k \in DOMAIN rows : rows[k].id \notin gone})

\* The local rows under ids the server's list has not, the first of each id.
LocalOnly(got, local) ==
    Among(local, {k \in DOMAIN local : /\ local[k].id \notin RowIds(got)
                                       /\ \A j \in 1..(k - 1) : local[j].id # local[k].id})

\* (mutant) The tombstones are held against the local rows only.
MergeAll(got, local, gone) == got \o LocalOnly(got, local)

\* The merge of fetchScripts: the server's rows that are not deleted, then the
\* local ones.
Merge(got, local, gone) == Undeleted(got, gone) \o LocalOnly(Undeleted(got, gone), local)

\* The script a page is about: the route's, or else the first.
ActiveScript(rows, r) ==
    LET match == {k \in DOMAIN rows : rows[k].id = r.script}
    IN rows[IF match = {} THEN 1 ELSE CHOOSE k \in match : \A j \in match : k <= j]

\* (mutant) A live script's older versions take the edit as well.
SavedEverywhere(row, text, status) ==
    [row EXCEPT
        !.text = text, !.status = status,
        !.n = IF row.status \in {"active", "approved"} THEN @ + 1 ELSE @,
        !.history = (IF row.status \in {"active", "approved"}
                     THEN <<[n |-> row.n + 1, status |-> status, text |-> text]>> ELSE <<>>)
                    \o [v \in DOMAIN @ |-> [@[v] EXCEPT !.text = text]]]

\* What saving an edit makes of a row, under the status of the page's script: a
\* script that is live starts its next version, a draft is edited in place, as
\* its newest entry and as the entry of its version; an empty history starts
\* with the edit.
Saved(row, text, status) ==
    IF row.status \in {"active", "approved"}
    THEN [row EXCEPT !.n = @ + 1, !.text = text, !.status = status,
                     !.history = <<[n |-> row.n + 1, status |-> status, text |-> text]>> \o @]
    ELSE [row EXCEPT !.text = text, !.status = status,
                     !.history = [v \in DOMAIN @ |->
                         IF v = 1 \/ @[v].n = row.n
                         THEN [@[v] EXCEPT !.text = text, !.status = status] ELSE @[v]]]

\* The snapshot of a version, None if the desk wrote none.
WrittenHere(row, n) ==
    {v \in DOMAIN row.history : row.history[v].n = n /\ row.history[v].text # None}
Snapshot(row, n) ==
    LET at == WrittenHere(row, n)
    IN IF at = {} THEN None ELSE row.history[CHOOSE v \in at : \A u \in at : v <= u].text

\* The read-only view of a version: its snapshot, or the script's wording of
\* today when there is none or it is blank.
VersionView(row, n) ==
    IF Snapshot(row, n) \in {None, Blank} THEN row.text ELSE Snapshot(row, n)

\* The rows with a script's status set, and with its wording saved.
SetStatus(rows, i, status) ==
    [k \in DOMAIN rows |-> IF rows[k].id = i THEN [rows[k] EXCEPT !.status = status] ELSE rows[k]]
Edited(rows, i, text, status) ==
    [k \in DOMAIN rows |-> IF rows[k].id = i THEN Saved(rows[k], text, status) ELSE rows[k]]

\* The rows or the page change: the editor follows the script of the page,
\* whatever has been typed, when that is another object than before: ShowAnew
\* where the code makes it anew, Show where it keeps the rows it leaves alone.
ShowAnew(rows, r) ==
    /\ shown' = rows /\ route' = r
    /\ typed' = IF rows = <<>> THEN typed ELSE ActiveScript(rows, r).text
Show(rows, r) ==
    IF rows # <<>> /\ shown # <<>> /\ ActiveScript(rows, r) = ActiveScript(shown, route)
    THEN shown' = rows /\ route' = r /\ typed' = typed
    ELSE ShowAnew(rows, r)

\* The library's filter, any of which a person may set.
Filters == {"all", "active", "draft"}
FilteredScripts(filter) == {k \in DOMAIN shown : filter \in {"all", shown[k].status}}
Listed == UNION {{shown[k].id : k \in FilteredScripts(filter)} : filter \in Filters}

-----------------------------------------------------------------------------
(* Clicks and calls.                                                       *)

Click(part) ==
    /\ part \in person.parts /\ person.left > 0
    /\ person' = [person EXCEPT !.left = @ - 1]

Free == {s \in Slots : net[s].kind = "idle"}
Call(kind, i) == [Idle EXCEPT !.kind = kind, !.phase = "sent", !.script = i]
Start(c) == \E s \in Free : (\A r \in Free : s <= r) /\ net' = [net EXCEPT ![s] = c]

\* fetchScripts, up to the call: storage is read first, with its tombstones.
Fetch(next) ==
    [Call("fetch", next) EXCEPT
        !.local = Undeleted(stored, deleted), !.gone = deleted]

\* The server's part: version 1 goes from draft to submitted to approved, and
\* the script with it; everything else is refused.
Serve(s) ==
    LET c == net[s]
        answer(ok, got, i) ==
            net' = [net EXCEPT ![s] = IF c.desk = "gone" THEN Idle
                                      ELSE [c EXCEPT !.phase = "served", !.ok = ok,
                                                     !.got = got, !.script = i]]
        review(from, to) ==
            \E k \in DOMAIN server :
                /\ server[k].id = c.script /\ server[k].first = from
                /\ server' = [server EXCEPT ![k].first = to,
                                  ![k].status = IF to = "approved" /\ @ = "draft" THEN to ELSE @]
    IN
    /\ c.phase = "sent"
    /\ \/ /\ c.kind = "fetch"
          /\ answer(TRUE, [k \in DOMAIN server |-> ServerRow(server[k])], c.script)
          /\ UNCHANGED server
       \/ /\ c.kind = "create"
          /\ \E i \in New \ RowIds(server), t \in Worded :
                /\ server' = <<[id |-> i, status |-> "draft", first |-> "draft", text |-> t]>> \o server
                /\ answer(TRUE, <<>>, i)
       \/ c.kind = "review" /\ c.step = 1 /\ review("draft", "pending_approval")
                            /\ answer(TRUE, <<>>, c.script)
       \/ c.kind = "review" /\ c.step = 2 /\ review("pending_approval", "approved")
                            /\ answer(TRUE, <<>>, c.script)
       \/ c.kind # "fetch" /\ answer(FALSE, <<>>, c.script) /\ UNCHANGED server
    /\ UNCHANGED <<shown, stored, deleted, route, typed, sim, person, lost>>

\* The network loses a call or its answer.
Lose(s) ==
    /\ net[s].phase = "sent" \/ net[s].ok
    /\ net[s].desk # "gone" /\ lost < MaxLost
    /\ lost' = lost + 1
    /\ net' = [net EXCEPT ![s].phase = "served", ![s].ok = FALSE, ![s].got = <<>>]
    /\ UNCHANGED <<server, shown, stored, deleted, route, typed, sim, person>>

Arrives(s, kind) == net[s].phase = "served" /\ net[s].kind = kind
Overview(i) == [mode |-> "overview", script |-> i]

\* fetchScripts, the answer: the merge is shown and stored; a failure shows
\* the local rows the fetch began with.  After a creation it ends on its page.
\* A desk that was left is shown nothing, and stores all the same.
FetchAnswered(s) ==
    LET c == net[s]
        merged == Merge(c.got, c.local, c.gone)
        then == IF c.script = None THEN route ELSE Overview(c.script)
    IN
    /\ Arrives(s, "fetch")
    /\ IF c.desk = "here" /\ (c.ok \/ c.local # <<>>)
       THEN ShowAnew(IF c.ok THEN merged ELSE c.local, then)
       ELSE Show(shown, then)
    /\ stored' = IF c.ok THEN merged ELSE stored
    /\ net' = [net EXCEPT ![s] = Idle]
    /\ UNCHANGED <<server, deleted, sim, person, lost>>

-----------------------------------------------------------------------------
(* The library, the new script and the overview.                           *)

\* The links of the library, of the overview and of the back arrows.
Navigate(r) ==
    /\ r # route
    /\ r.mode \in {"library", "new"} => r.script = None
    /\ r.mode = "new" => route.mode = "library" /\ "new" \in person.parts
    /\ r.mode \in {"edit", "preview"} => r.mode \in person.parts
    /\ r.mode \in {"overview", "edit", "preview"} =>
          /\ shown # <<>>
          /\ r.script \in (IF route.mode = "library" THEN Listed
                           ELSE {ActiveScript(shown, route).id})
          /\ route.mode # "new"
    /\ Show(shown, r)
    /\ UNCHANGED <<server, stored, deleted, sim, net, person, lost>>

\* The form of the new script: its button is off while a creation is under way.
Submitting == \E s \in Slots : \/ net[s].kind = "create"
                               \/ net[s].kind = "fetch" /\ net[s].script # None
CreateOffered == route.mode = "new" /\ ~Submitting

\* handleCreateScript, up to the call: a draft under a made-up id.
HandleCreateScript(t) ==
    /\ CreateOffered /\ Click("new")
    /\ \E text \in Worded :
        Show(<<[id |-> t, status |-> "draft", text |-> text, n |-> 1,
                history |-> <<[n |-> 1, status |-> "draft", text |-> text]>>]>> \o shown, route)
    /\ stored' = shown'
    /\ Start([Call("create", t) EXCEPT !.temp = t])
    /\ UNCHANGED <<server, deleted, sim, lost>>

\* ... and its answer.
CreateAnswered(s) ==
    LET c == net[s] IN
    /\ Arrives(s, "create")
    /\ IF c.ok
       THEN /\ net' = [net EXCEPT ![s] = [Fetch(c.script) EXCEPT !.desk = c.desk]]
            /\ UNCHANGED <<shown, route, typed>>
       ELSE net' = [net EXCEPT ![s] = Idle] /\ Show(shown, Overview(c.temp))
    /\ UNCHANGED <<server, stored, deleted, sim, person, lost>>

\* The buttons of the library's row or of the overview's head.
ButtonsOf(i) ==
    \/ route.mode = "library" /\ i \in Listed
    \/ route.mode = "overview" /\ shown # <<>> /\ i = ActiveScript(shown, route).id

\* "Activate", up to the first call: the row is live at once.
Activate(i) ==
    /\ ButtonsOf(i) /\ Click("overview")
    /\ \E k \in DOMAIN shown : shown[k].id = i /\ shown[k].status # "active"
    /\ Show(SetStatus(shown, i, "active"), route) /\ stored' = shown'
    /\ Start([Call("review", i) EXCEPT !.step = 1])
    /\ UNCHANGED <<server, deleted, sim, lost>>

\* ... submission, approval and activation of version 1, one after the other
\* whatever becomes of each; the last is refused and not followed here.
ReviewAnswered(s) ==
    /\ Arrives(s, "review")
    /\ net' = [net EXCEPT ![s] = IF @.step = 1
                                 THEN [Call("review", @.script) EXCEPT !.step = 2, !.desk = net[s].desk]
                                 ELSE Idle]
    /\ UNCHANGED <<server, shown, stored, deleted, route, typed, sim, person, lost>>

\* "Set to Draft".
Deactivate(i) ==
    /\ ButtonsOf(i) /\ Click("overview")
    /\ \E k \in DOMAIN shown : shown[k].id = i /\ shown[k].status = "active"
    /\ Show(SetStatus(shown, i, "draft"), route) /\ stored' = shown'
    /\ UNCHANGED <<server, deleted, sim, net, lost>>

\* handleDeleteScript, up to the call: a tombstone, then the row.
DeleteScript(i) ==
    /\ ButtonsOf(i) /\ Click("overview")
    /\ deleted' = deleted \cup {i}
    /\ Show(Undeleted(shown, {i}), route) /\ stored' = shown'
    /\ Start(Call("delete", i))
    /\ UNCHANGED <<server, sim, lost>>

\* ... which is refused, and the desk goes to the library.
DeleteAnswered(s) ==
    /\ Arrives(s, "delete")
    /\ net' = [net EXCEPT ![s] = Idle]
    /\ Show(shown, [mode |-> "library", script |-> None])
    /\ UNCHANGED <<server, stored, deleted, sim, person, lost>>

-----------------------------------------------------------------------------
(* The editor and the simulator.                                           *)

EditorOffered == route.mode = "edit" /\ shown # <<>>

Type(text) ==
    /\ EditorOffered /\ typed # text /\ typed' = text
    /\ UNCHANGED <<server, shown, stored, deleted, route, sim, net, person, lost>>

\* handleSaveDraftEdits, up to the call; "Save & Activate" goes on after it.
SaveEdits(activate) ==
    LET i == ActiveScript(shown, route).id
        status == ActiveScript(shown, route).status
    IN
    /\ EditorOffered /\ Click("edit")
    /\ \A k \in DOMAIN shown :
          shown[k].id = i => Saved(shown[k], typed, status).n <= MaxVersion
    /\ Show(Edited(shown, i, typed, status), route)
    /\ stored' = shown'
    /\ Start(Call(IF activate THEN "saveActivate" ELSE "save", i))
    /\ UNCHANGED <<server, deleted, sim, lost>>

\* ... whose refusal sends the desk to the script's overview, from wherever it
\* is, and activates the script that was saved, wherever that is.  On a desk
\* that was left the updater stores the rows of then, or does not run.
SaveAnswered(s) ==
    LET c == net[s]
        i == c.script
        on == c.kind = "saveActivate"
        here == c.desk = "here"
    IN
    /\ Arrives(s, "save") \/ Arrives(s, "saveActivate")
    /\ IF on /\ here THEN ShowAnew(SetStatus(shown, i, "active"), Overview(i))
                     ELSE Show(shown, Overview(i))
    /\ stored' \in CASE on /\ here -> {shown'}
                     [] on /\ ~here -> {stored, SetStatus(c.local, i, "active")}
                     [] OTHER -> {stored}
    /\ net' = [net EXCEPT ![s] =
                 IF on THEN [Call("review", i) EXCEPT !.step = 1, !.desk = c.desk] ELSE Idle]
    /\ UNCHANGED <<server, deleted, sim, person, lost>>

\* startSimulator: the first line is the greeting of the page's script.
StartSimulator ==
    /\ route.mode = "preview" /\ shown # <<>> /\ Click("preview")
    /\ sim' = [step |-> 1, of |-> ActiveScript(shown, route).id, outcome |-> None]
    /\ UNCHANGED <<server, shown, stored, deleted, route, typed, net, lost>>

\* (mutant) Any button answers any step.
SimulatorAsksAnything(step) ==
    route.mode = "preview" /\ shown # <<>> /\ sim.outcome = None /\ sim.step > 0

\* handleSimUserResponse: consent first, then the question; each is asked once.
SimulatorAsks(step) ==
    route.mode = "preview" /\ shown # <<>> /\ sim.outcome = None /\ sim.step = step

Respond ==
    /\ \/ SimulatorAsks(1) /\ sim' = [sim EXCEPT !.step = 2]
       \/ SimulatorAsks(1) /\ sim' = [sim EXCEPT !.outcome = "disqualified"]
       \/ SimulatorAsks(2) /\ sim' = [sim EXCEPT !.outcome = "qualified"]
       \/ SimulatorAsks(2) /\ sim' = [sim EXCEPT !.outcome = "disqualified"]
    /\ UNCHANGED <<server, shown, stored, deleted, route, typed, net, person, lost>>

-----------------------------------------------------------------------------
\* The desk is opened: what storage has, less the tombstones, and a fetch.
Open(carried) ==
    /\ \E r \in [mode : {"library", "overview"}, script : Ids \cup {None}] :
        /\ (r.mode = "library") = (r.script = None)
        /\ route' = r
        /\ shown' = Undeleted(stored, deleted)
        /\ typed' = IF shown' = <<>> THEN None ELSE ActiveScript(shown', r).text
    /\ sim' = NoSim
    /\ \E s \in Slots :
        /\ carried[s] = Idle /\ \A q \in Slots : carried[q] = Idle => s <= q
        /\ net' = [carried EXCEPT ![s] = Fetch(None)]
    /\ UNCHANGED <<server, stored, deleted, lost>>

\* Another tab of the shell and back: what is out stays out, and is nobody's.
LeaveAndReturn ==
    /\ \E part \in person.parts : Click(part)
    /\ Open([s \in Slots |->
            CASE net[s].desk = "here" /\ net[s].kind = "saveActivate" ->
                    [net[s] EXCEPT !.desk = "left", !.local = shown]
              [] net[s].desk = "here" /\ net[s].kind \notin {"idle", "saveActivate"} ->
                    [net[s] EXCEPT !.desk = "left"]
              [] OTHER -> net[s]])

\* The page is loaded anew: a write that has been sent may still be served.
Reload ==
    /\ \E part \in person.parts : Click(part)
    /\ Open([s \in Slots |-> IF net[s].phase = "sent" /\ net[s].kind \in {"create", "review"}
                             THEN [net[s] EXCEPT !.desk = "gone"] ELSE Idle])

\* A desk opened on what an earlier visit stored.
DeskInit ==
    /\ server = Known
    /\ stored \in {[k \in DOMAIN Known |-> ServerRow(Known[k])], <<>>} /\ shown = stored
    /\ deleted = {}
    /\ route = [mode |-> "library", script |-> None]
    /\ typed = IF shown = <<>> THEN None ELSE Head(shown).text
    /\ sim = NoSim
    /\ net = [s \in Slots |-> IF s = 1 THEN Fetch(None) ELSE Idle]
    /\ person \in Visits /\ lost = 0

DeskNext ==
    \/ \E s \in Slots : \/ Serve(s) \/ Lose(s) \/ FetchAnswered(s) \/ CreateAnswered(s)
                        \/ ReviewAnswered(s) \/ DeleteAnswered(s) \/ SaveAnswered(s)
    \/ \E r \in [mode : Modes, script : Ids \cup {None}] : Navigate(r)
    \/ \E t \in Temps : HandleCreateScript(t)
    \/ \E i \in Ids : Activate(i) \/ Deactivate(i) \/ DeleteScript(i)
    \/ \E text \in Wordings : Type(text)
    \/ \E activate \in BOOLEAN : SaveEdits(activate)
    \/ StartSimulator \/ Respond \/ LeaveAndReturn \/ Reload

DeskSpec == DeskInit /\ [][DeskNext]_deskVars

-----------------------------------------------------------------------------
\* A deleted script, which the server goes on listing and other answers may
\* carry, comes back only with a fetch that began before the deletion, or
\* under an id the clock makes up a second time.
TombstonesHold ==
    [][\A i \in (deleted \cap RowIds(shown')) \ RowIds(shown) :
          \/ HandleCreateScript(i)
          \/ \E s \in Slots : FetchAnswered(s) /\ i \notin net[s].gone]_deskVars

\* A row carries on an earlier one of the same script: its version number has not
\* gone back, and every version the earlier row had left behind and that was
\* written on the desk has the snapshot it had, a blank one too.  Where it has a
\* wording, the read-only view still shows it.
CarriesOn(row, old) ==
    /\ row.id = old.id /\ row.n >= old.n
    /\ \A n \in 1..(old.n - 1) : Snapshot(old, n) # None =>
          /\ Snapshot(row, n) = Snapshot(old, n)
          /\ Snapshot(old, n) # Blank => VersionView(row, n) = VersionView(old, n)

\* The snapshot of a version that was written on the desk and that its script has
\* left behind never changes, and neither does what the read-only view shows of
\* one that is not blank, through edits, activations, withdrawals and further
\* versions, and though the clock makes up one id for two scripts: whatever row
\* is on the screen carries on one that was there, but for the first row of a
\* creation.  Only a fetch replaces scripts and versions by the server's, and a
\* desk opened again shows what was stored.
SnapshotsFrozen ==
    [][\/ \E s \in Slots : FetchAnswered(s)
       \/ LeaveAndReturn \/ Reload
       \/ \A m \in DOMAIN shown' :
             \/ m = 1 /\ \E t \in Temps : HandleCreateScript(t)
             \/ \E k \in DOMAIN shown : CarriesOn(shown'[m], shown[k])]_deskVars
=============================================================================
