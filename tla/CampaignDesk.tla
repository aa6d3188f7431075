---------------------------- MODULE CampaignDesk ----------------------------
(***************************************************************************)
(* The campaign desk of the dashboard: useCampaignState, which keeps one   *)
(* list of campaigns on the screen and a copy of it in localStorage, and   *)
(* the panels that edit it.                                                *)
(*                                                                         *)
(* Every edit is made on the screen and in storage at once.  The server    *)
(* has no PATCH and no DELETE on a campaign, it refuses both and the desk  *)
(* does not look: only a creation and the binding of a server's script get *)
(* through.  Each fetch merges the server's list with the copy that was in *)
(* storage when the fetch began.                                           *)
(***************************************************************************)
EXTENDS Naturals, FiniteSets, Sequences, Functions

CONSTANTS
    Known,     \* sequence: the campaigns the server has at first
    New,       \* ids the server gives to the campaigns it creates
    Temps,     \* ids "camp-" and four digits of the clock, which come round again
    None,      \* null
    Uploaded,  \* a script the server knows
    Builtin,   \* a script of the browser's own storage
    Default,   \* the script of a row that says nothing of it, and the default item
    Visits,    \* bound: the panels one visit is about, and its clicks
    MaxCalls,  \* bound: calls under way at once
    MaxLost    \* bound: calls that fail on the way

ASSUME IdsAssumption ==
    /\ Range(Known) \cap (New \cup Temps) = {} /\ New \cap Temps = {}
    /\ None \notin Range(Known) \cup New \cup Temps
\* The server's list has each of its campaigns once.
ASSUME KnownAssumption == Known \in Seq(Range(Known)) /\ IsInjective(Known)
ASSUME BoundsAssumption == {MaxCalls, MaxLost} \subseteq Nat
ASSUME VisitsAssumption == Visits \subseteq [parts : {v.parts : v \in Visits}, left : Nat]

VARIABLES
    server,    \* sequence of the server's rows, newest first
    shown,     \* campaigns: the sequence of rows on the screen
    saved,     \* localStorage "talkflow_campaigns"
    rosters,   \* teamAssignments, and its copy in storage: campaign name -> roster
    page,      \* what the route's segments ask for
    form,      \* the open panel's own state: its items, as it read them when it was
               \* mounted, or the slot of the binding it waits for
    net,       \* slot -> the call it carries
    clashed,   \* history: did an edit, a fetch or a departure cross a fetch, or a
               \* binding find a second row of its campaign's name
    strayed,   \* history: did another campaign take over an open form's page
    person,    \* the panels of this visit and clicks left
    lost

vars == <<server, shown, saved, rosters, page, form, net, clashed, strayed, person, lost>>

Ids == Range(Known) \cup New \cup Temps
Slots == 1..MaxCalls
Scripts == {Uploaded, Builtin, Default}
Stateful == {"script", "transfer", "routing"}
Items == Ids \cup {Default}      \* a pool or a route, named by the page it was added on
Panels == {"overview", "script", "transfer", "routing"}
Subtabs == {"all", "team", "new"}

Row == [id : Ids, name : Ids, status : {"draft", "active", "paused"}, script : Scripts,
        transfer : SUBSET Items, routing : SUBSET Items]
Page == [at : Subtabs, camp : {None}] \cup [at : Panels, camp : Ids]
Idle == [kind |-> "idle", phase |-> "idle", ok |-> FALSE, camp |-> None, what |-> None,
         local |-> <<>>, got |-> <<>>, desk |-> "here"]

RowIds(rows) == {rows[i].id : i \in DOMAIN rows}

TypeOK ==
    /\ {server, shown, saved} \subseteq Seq(Row)
    /\ RowIds(server) \cap Temps = {}
    /\ \A j, k \in DOMAIN server : server[j].id = server[k].id => j = k
    /\ rosters \in [Ids -> {None, "own", "edited"}]
    /\ page \in Page
    /\ page.at \notin Stateful \/ shown = <<>> => form = None
    /\ page.at = "script" /\ shown # <<>> => form \subseteq Slots
    /\ page.at \in {"transfer", "routing"} /\ shown # <<>> => form \subseteq Items
    /\ {clashed, strayed} \subseteq BOOLEAN
    /\ DOMAIN net = Slots /\ \A s \in Slots : DOMAIN net[s] = DOMAIN Idle
    /\ person \in [parts : {v.parts : v \in Visits}, left : Nat] /\ lost \in 0..MaxLost

-----------------------------------------------------------------------------
(* Rows.                                                                   *)

\* The rows at the positions in at, in their order: the k-th is the one that
\* has k of them up to it.
Among(rows, at) ==
    [k \in 1..Cardinality(at) |-> rows[CHOOSE i \in at : Cardinality({j \in at : j <= i}) = k]]

\* A row made from what the server says of a campaign: it has no say in pools
\* and routes, and the script's name is the default one.
NewRow(i, name) == [id |-> i, name |-> name, status |-> "draft", script |-> Default, transfer |-> {}, routing |-> {}]

\* (mutant) The server's list alone.
MergeServerOnly(got, local) == got

\* The merge of fetchCampaigns: the server's rows as they are, then the local
\* rows under ids the server does not have, the first of each id.
Merge(got, local) ==
    got \o Among(local, {k \in DOMAIN local : /\ local[k].id \notin RowIds(got)
                                            /\ \A j \in 1..(k - 1) : local[j].id # local[k].id})

\* The buttons above the list.
Filters == {"all", "active", "inactive"}

\* The positions they let through: a campaign that is completed or stopped, or
\* any other, is under "all".
FilteredCampaigns(filter) ==
    {k \in DOMAIN shown : \/ filter = "all"
                          \/ filter = "active" /\ shown[k].status = "active"
                          \/ filter = "inactive" /\ shown[k].status \in {"draft", "paused"}}

\* The campaign a detail page is about: the route's, or else the first.
SelectedCampaign(rows, p) ==
    LET match == {k \in DOMAIN rows : rows[k].id = p.camp}
    IN rows[IF match = {} THEN 1 ELSE CHOOSE k \in match : \A j \in match : k <= j]

\* Which panel is mounted.
Mounted(rows, p, panel) == p.at = panel /\ (panel \in Subtabs \/ rows # <<>>)

\* What CampaignTransferRules or CampaignRoutingForm starts from: the items of
\* its campaign, or the default ones.
InitialItems(row, panel) == IF row[panel] = {} THEN {Default} ELSE row[panel]

\* The state of a panel that is mounted.
Mounting(rows, p) ==
    IF ~Mounted(rows, p, p.at) \/ p.at \notin Stateful THEN None
    ELSE IF p.at = "script" THEN {} ELSE InitialItems(SelectedCampaign(rows, p), p.at)

\* A new list, or a new route: an open panel keeps the state it was mounted
\* with, whichever campaign its page is about from now on.
Render(rows, p) ==
    LET stays == page.at = p.at /\ form # None /\ Mounting(rows, p) # None IN
    /\ shown' = rows /\ page' = p
    /\ form' = IF stays THEN form ELSE Mounting(rows, p)
    /\ strayed' = \/ strayed
                  \/ /\ stays /\ p.at # "script"
                     /\ SelectedCampaign(rows, p).id # SelectedCampaign(shown, page).id

-----------------------------------------------------------------------------
(* Clicks and calls.                                                       *)

Click(part) ==
    /\ part \in person.parts /\ person.left > 0
    /\ person' = [person EXCEPT !.left = @ - 1]

Free == {s \in Slots : net[s].kind = "idle"}
Start(c) == \E s \in Free : (\A r \in Free : s <= r) /\ net' = [net EXCEPT ![s] = c]
Fetching == \E s \in Slots : net[s].kind = "fetch"
Crosses == clashed' = (clashed \/ Fetching)

\* fetchCampaigns, up to the call: the copy in storage is read first.
Fetch(local, next) ==
    [Idle EXCEPT !.kind = "fetch", !.phase = "sent", !.local = local, !.camp = next]

\* The updaters of handleBindScriptToCampaign and of the two panels' handlers:
\* every row of that id is edited.
Edited(rows, i, field, value) ==
    [k \in DOMAIN rows |-> IF rows[k].id = i THEN [rows[k] EXCEPT ![field] = value] ELSE rows[k]]

\* The one of handleToggleCampaignStatus.
Toggled(rows, i) ==
    [k \in DOMAIN rows |->
        IF rows[k].id = i
        THEN [rows[k] EXCEPT !.status = IF @ = "active" THEN "paused" ELSE "active"]
        ELSE rows[k]]

\* (mutant) The edit is not saved.
EditUnsaved(rows) ==
    /\ Render(rows, page) /\ UNCHANGED saved
    /\ Crosses

\* An edit, on the screen and in storage.  The PATCH behind it is refused and
\* the refusal is not read.
Edit(rows) ==
    /\ Render(rows, page) /\ saved' = shown'
    /\ Crosses

\* The server's part of a call.
Serve(s) ==
    LET c == net[s]
        answer(ok, got, i) ==
            net' = [net EXCEPT ![s] =
                IF c.desk = "gone" THEN Idle
                ELSE [c EXCEPT !.phase = "served", !.ok = ok, !.got = got,
                               !.camp = IF c.kind = "create" /\ ok THEN i ELSE @]]
    IN
    /\ c.phase = "sent"
    /\ \/ c.kind = "fetch" /\ answer(TRUE, server, None) /\ UNCHANGED server
       \/ /\ c.kind = "create"
          /\ \E i \in New \ RowIds(server) :
                server' = <<NewRow(i, c.what)>> \o server /\ answer(TRUE, <<>>, i)
       \/ /\ c.kind = "bind" /\ c.camp \in RowIds(server)
          /\ server' = Edited(server, c.camp, "script", Uploaded)
          /\ answer(TRUE, <<>>, None)
       \/ c.kind # "fetch" /\ answer(FALSE, <<>>, None) /\ UNCHANGED server
    /\ UNCHANGED <<shown, saved, rosters, page, form, clashed, strayed, person, lost>>

\* The network loses a call or its answer.
Lose(s) ==
    /\ \/ net[s].phase = "sent" /\ net[s].desk # "gone"
       \/ net[s].phase = "served" /\ net[s].ok
    /\ lost < MaxLost /\ lost' = lost + 1
    /\ net' = [net EXCEPT ![s].phase = "served", ![s].ok = FALSE, ![s].got = <<>>,
                          ![s].camp = IF net[s].kind = "create" THEN None ELSE @]
    /\ UNCHANGED <<server, shown, saved, rosters, page, form, clashed, strayed, person>>

Arrives(s, kind) == net[s].phase = "served" /\ net[s].kind = kind

\* The detail page of a campaign.
DetailOf(i) == [at |-> "overview", camp |-> i]

\* fetchCampaigns, the answer: the merge is shown and stored; a failure shows
\* the copy the fetch began with.  A desk that was left is shown nothing, and
\* stores all the same.  A fetch that follows a creation ends on its page.
FetchAnswered(s) ==
    LET c == net[s]
        merged == Merge(c.got, c.local)
        rows == CASE c.desk = "left" -> shown
                  [] c.desk = "here" /\ c.ok -> merged
                  [] OTHER -> IF c.local = <<>> THEN shown ELSE c.local
    IN
    /\ Arrives(s, "fetch")
    /\ Render(rows, IF c.camp = None THEN page ELSE DetailOf(c.camp))
    /\ saved' = IF c.ok THEN merged ELSE saved
    /\ net' = [net EXCEPT ![s] = Idle]
    /\ UNCHANGED <<server, rosters, clashed, person, lost>>

-----------------------------------------------------------------------------
(* The list and the new campaign.                                          *)

\* The rows of the list, each a link and a bin.
RowOffered(i) ==
    page.at = "all" /\ \E filter \in Filters, k \in DOMAIN shown :
                          k \in FilteredCampaigns(filter) /\ shown[k].id = i

\* The head of a detail page: its status button and a card for every panel.
CardsOffered(i) ==
    page.at \in Panels /\ shown # <<>> /\ i = SelectedCampaign(shown, page).id

\* Rows, cards, the subtabs, the header's button and the back arrows.
Navigate(p) ==
    /\ p # page
    /\ p.at \in Panels => RowOffered(p.camp) \/ CardsOffered(p.camp)
    /\ p.at \in {"all"} \cup person.parts
    /\ Render(shown, p)
    /\ UNCHANGED <<server, saved, rosters, net, clashed, person, lost>>

\* The form of the new campaign, which stays open, and live, until its call ends.
CreateOffered == Mounted(shown, page, "new")

\* handleCreateCampaignSubmit, up to the call: a row under a made-up id is
\* shown and stored.
CreateCampaign(t) ==
    /\ CreateOffered /\ Click("new")
    /\ Edit(<<NewRow(t, t)>> \o shown)
    /\ Start([Idle EXCEPT !.kind = "create", !.phase = "sent", !.what = t])
    /\ UNCHANGED <<server, rosters, lost>>

\* ... and its answer: the list is fetched before the desk goes to the page
\* of the campaign created; else it goes to the made-up row's.
CreateAnswered(s) ==
    LET c == net[s] IN
    /\ Arrives(s, "create")
    /\ IF c.ok
       THEN /\ net' = [net EXCEPT ![s] = [Fetch(saved, c.camp) EXCEPT !.desk = c.desk]]
            /\ UNCHANGED <<shown, page, form, strayed>> /\ Crosses
       ELSE /\ net' = [net EXCEPT ![s] = Idle]
            /\ Render(shown, DetailOf(c.what)) /\ UNCHANGED clashed
    /\ UNCHANGED <<server, saved, rosters, person, lost>>

\* The bin of a row: the DELETE behind it is refused, too.
DeleteCampaign(i) ==
    /\ RowOffered(i) /\ Click("all")
    /\ Edit(Among(shown, {k \in DOMAIN shown : shown[k].id # i}))
    /\ UNCHANGED <<server, rosters, net, lost>>

\* Pause or activate, from the header of a detail page.
ToggleStatus(i) ==
    /\ CardsOffered(i) /\ Click("overview")
    /\ Edit(Toggled(shown, i))
    /\ UNCHANGED <<server, rosters, net, lost>>

-----------------------------------------------------------------------------
(* The panels.                                                             *)

\* The script panel's button is off while a binding of its own is under way.
BindOffered == Mounted(shown, page, "script") /\ form = {}

\* A binding in storage: the campaign's rows, and any other of its name.
Bound(rows, i, name, script) ==
    [k \in DOMAIN rows |-> IF rows[k].id = i \/ rows[k].name = name
                           THEN [rows[k] EXCEPT !.script = script] ELSE rows[k]]

\* What follows a binding, whatever became of it: storage, the screen, the
\* desk's own copy, and a fetch.  The updater runs now or at the next render,
\* so the fetch reads the one copy or the other.
Bind(i, name, script, s) ==
    \E local \in {Bound(saved, i, name, script), Edited(shown, i, "script", script)} :
        /\ net' = [net EXCEPT ![s] = Fetch(local, None)]
        /\ shown' = Edited(shown, i, "script", script) /\ saved' = shown'
        /\ clashed' = (clashed \/ Fetching \/ \E k \in DOMAIN saved : saved[k].name = name /\
                                                                    saved[k].id # i)
        /\ form' = IF page.at = "script" /\ form # None THEN form \ {s} ELSE form
        /\ UNCHANGED <<page, strayed>>

\* handleBindScript with one of the browser's own scripts: no call.
BindBuiltin ==
    LET c == SelectedCampaign(shown, page) IN
    /\ BindOffered /\ Click("script")
    /\ \E s \in Free : (\A r \in Free : s <= r) /\ Bind(c.id, c.name, Builtin, s)
    /\ UNCHANGED <<server, rosters, lost>>

\* ... with one of the server's, up to the call.
BindUploaded ==
    LET c == SelectedCampaign(shown, page) IN
    /\ BindOffered /\ Click("script")
    /\ Start([Idle EXCEPT !.kind = "bind", !.phase = "sent", !.camp = c.id, !.what = c.name])
    /\ form' = {s \in Slots : net'[s] # net[s]}
    /\ UNCHANGED <<server, shown, saved, rosters, page, clashed, strayed, lost>>

\* ... and its answer, good or bad.  On a desk that was left the list's updater
\* runs over the rows of then, or not at all.
BindAnswered(s) ==
    LET c == net[s] IN
    /\ Arrives(s, "bind")
    /\ IF c.desk = "left"
       THEN /\ saved' \in {Bound(saved, c.camp, c.what, Uploaded),
                           Edited(c.local, c.camp, "script", Uploaded)}
            /\ net' = [net EXCEPT ![s] = [Fetch(saved', None) EXCEPT !.desk = "left"]]
            /\ UNCHANGED <<shown, page, form, clashed, strayed>>
       ELSE Bind(c.camp, c.what, Uploaded, s)
    /\ UNCHANGED <<server, rosters, person, lost>>

\* (mutant) The items go to the list's first campaign.
SaveItemsToFirst(panel, items) ==
    /\ Mounted(shown, page, panel) /\ Click(panel)
    /\ shown' = Edited(shown, Head(shown).id, panel, items) /\ saved' = shown'
    /\ form' = items /\ Crosses
    /\ UNCHANGED <<server, rosters, page, net, strayed, lost>>

\* The handlers of the transfer and the routing panel: the form's items, more
\* or less one, are written to the campaign on the page.
SaveItems(panel, items) ==
    /\ Mounted(shown, page, panel) /\ Click(panel)
    /\ shown' = Edited(shown, SelectedCampaign(shown, page).id, panel, items)
    /\ saved' = shown'
    /\ form' = items /\ Crosses
    /\ UNCHANGED <<server, rosters, page, net, strayed, lost>>

\* The form and the list of pools, and those of routes.
PoolsOffered == page.at = "transfer" /\ form # None
RoutesOffered == page.at = "routing" /\ form # None
ItemsOffered(panel) == (panel = "transfer" /\ PoolsOffered) \/ (panel = "routing" /\ RoutesOffered)

\* "+ Add Transfer Pool" and "Add Route".
AddItem(panel) ==
    ItemsOffered(panel) /\ SaveItems(panel, form \cup {SelectedCampaign(shown, page).id})

\* "Remove Pool" and a route's "Remove".
RemoveItem(panel, item) ==
    ItemsOffered(panel) /\ item \in form /\ SaveItems(panel, form \ {item})

\* "Save Routing Settings".
SaveRouting == RoutesOffered /\ SaveItems("routing", form)

\* The team panel shows a roster for each active campaign, the one under its
\* name or one made up, and saves the ones it shows: manager and shift, an agent
\* more or less.
ActiveTeams == {shown[k].id : k \in {k \in DOMAIN shown : shown[k].status = "active"}}

\* The cards of the team panel.
TeamOffered(i) == Mounted(shown, page, "team") /\ i \in ActiveTeams

SaveTeam(i) ==
    LET active == {shown[k] : k \in {k \in DOMAIN shown : shown[k].id \in ActiveTeams}}
        edited == {c.name : c \in {c \in active : c.id = i}}
    IN
    /\ TeamOffered(i) /\ Click("team")
    /\ rosters' = [n \in Ids |-> CASE n \in edited -> "edited"
                                   [] n \in {c.name : c \in active} \ edited ->
                                        IF rosters[n] = None THEN "own" ELSE rosters[n]
                                   [] OTHER -> None]
    /\ UNCHANGED <<server, shown, saved, page, form, net, clashed, strayed, lost>>

-----------------------------------------------------------------------------
\* The desk is opened on the page of some route: what storage has is shown
\* and a fetch begins.
Mount(p, carried) ==
    /\ page' = p /\ shown' = saved
    /\ form' = Mounting(saved, p)
    /\ \E s \in Slots :
        /\ carried[s] = Idle /\ \A r \in Slots : carried[r] = Idle => s <= r
        /\ net' = [carried EXCEPT ![s] = Fetch(saved, None)]
    /\ UNCHANGED <<server, saved, rosters, strayed, lost>>

\* The routes a visit starts on; a link may name a campaign of any list.
EntryPages == {p \in Page : p.at \in {"all"} \cup person.parts}

\* Another tab of the shell and back: what is out stays out, and what it does
\* to the screen is done to nobody's.
LeaveAndReturn ==
    /\ \E part \in person.parts : Click(part)
    /\ \E p \in EntryPages :
        Mount(p, [s \in Slots |->
            CASE net[s].desk = "here" /\ net[s].kind = "bind" ->
                    [net[s] EXCEPT !.desk = "left", !.local = shown]
              [] net[s].desk = "here" /\ net[s].kind \in {"fetch", "create"} ->
                    [net[s] EXCEPT !.desk = "left"]
              [] OTHER -> net[s]])
    /\ clashed' = (clashed \/ \E s \in Slots : net[s] # Idle)

\* The page is loaded anew: a write that has been sent may still be served,
\* and that is the end of it.
Reload ==
    /\ \E part \in person.parts : Click(part)
    /\ \E p \in EntryPages :
        Mount(p, [s \in Slots |-> IF net[s].phase = "sent" /\ net[s].kind # "fetch"
                                  THEN [net[s] EXCEPT !.desk = "gone"] ELSE Idle])
    /\ clashed' = FALSE

\* A desk that is opened on what an earlier visit stored.
Init ==
    /\ server = [k \in DOMAIN Known |-> NewRow(Known[k], Known[k])]
    /\ saved \in {server, SubSeq(server, 2, Len(server)), <<>>} /\ shown = saved
    /\ rosters = [i \in Ids |-> None]
    /\ page = [at |-> "all", camp |-> None] /\ form = None
    /\ net = [s \in Slots |-> IF s = 1 THEN Fetch(saved, None) ELSE Idle]
    /\ clashed = FALSE /\ strayed = FALSE
    /\ person \in Visits /\ lost = 0

Next ==
    \/ \E s \in Slots : \/ Serve(s) \/ Lose(s) \/ FetchAnswered(s)
                        \/ CreateAnswered(s) \/ BindAnswered(s)
    \/ \E p \in Page : Navigate(p)
    \/ \E t \in Temps : CreateCampaign(t)
    \/ \E i \in Ids : DeleteCampaign(i) \/ ToggleStatus(i) \/ SaveTeam(i)
    \/ BindBuiltin \/ BindUploaded \/ SaveRouting
    \/ \E panel \in {"transfer", "routing"} :
          AddItem(panel) \/ \E item \in Items : RemoveItem(panel, item)
    \/ LeaveAndReturn \/ Reload

Spec == Init /\ [][Next]_vars

-----------------------------------------------------------------------------
\* What is stored is what is shown, through edits, failed calls, bindings and
\* merges, so that a reload changes nothing: as long as no edit, no second
\* fetch and no departure fell between the two ends of a fetch, and no binding
\* reached a second row of the same name, in storage only.
StoredIsShown == clashed \/ saved = shown

\* A campaign leaves the list by its bin, by a merge that began before the
\* campaign was there, or with the desk itself; no other answer drops it.
RowsLeaveByHand ==
    [][\A i \in RowIds(shown) \ RowIds(shown') :
          \/ DeleteCampaign(i) \/ LeaveAndReturn \/ Reload
          \/ \E s \in Slots : FetchAnswered(s) /\ i \notin RowIds(net[s].local)]_vars

\* Pools and routes of a campaign were added on its own page, unless another
\* campaign has taken over the page of an open form.
ItemsStayHome ==
    strayed \/ \A k \in DOMAIN shown :
        shown[k].transfer \cup shown[k].routing \subseteq {Default, shown[k].id}

\* The desk is well formed, and pools and routes are where they were added.
Consistent == TypeOK /\ ItemsStayHome
=============================================================================
