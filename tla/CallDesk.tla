------------------------------ MODULE CallDesk ------------------------------
(***************************************************************************)
(* The two tabs of the dashboard that share the browser's copy of the      *)
(* calls.  The Calls tab (components/calls: useCallsState.js and its       *)
(* views) reads the copy, walks the pages of GET /calls, fills the list up *)
(* with simulated calls and writes the copy anew.  The QA tab              *)
(* (components/qa/QaView.jsx) reads the copy once, marks calls as audited  *)
(* in it and writes it back whole; nothing of an audit leaves the browser. *)
(*                                                                         *)
(* A walk is cut where the code awaits: a page is asked for, answered by   *)
(* the server with the calls of that moment (or refused, or lost), and     *)
(* taken over.  A walk outlives the tab that began it, and ends with the   *)
(* document.                                                               *)
(*                                                                         *)
(* Bounds: LastCall calls at the server, Walks walks in flight, Clicks     *)
(* clicks, MaxLost pages that fail.  Abstracted: names, numbers and        *)
(* transcripts of a call; of its disposition the words the code looks for; *)
(* the search text, to the real calls or everything; references of real    *)
(* calls differ from the numbers the dashboard gives simulated ones.       *)
(***************************************************************************)
EXTENDS Naturals, Sequences, FiniteSets, Functions

CONSTANTS
  LastCall,    \* the calls the server can come to have: 1..LastCall
  Disposition, \* the disposition of each
  Qualification, \* the qualification status of each
  PerPage,     \* calls on a page of the API: 200
  MaxPages,    \* pages a walk asks for at most: 10
  Full,        \* rows a list is filled up to: 500
  FewRows,     \* a stored copy of fewer rows is not believed: 100
  PerView,     \* rows on a page of a table: 20
  SampleEvery, \* every which row is sampled whatever it says: 6
  Walks, Clicks, MaxLost

ASSUME Positive == /\ {PerPage, MaxPages, Full, PerView, SampleEvery, LastCall} \subseteq Nat \ {0}
                   /\ FewRows \in 0..Full
                   /\ {Walks, Clicks, MaxLost} \subseteq Nat

VARIABLES
  opened,  \* the calls the server has: 1..opened, the newest last
  lost,    \* pages that failed so far
  stored,  \* localStorage["talkflow_calls"], << >> when there is none
  tab,     \* the tab on screen: "calls", "qa" or "other"
  calls,   \* the state of the Calls tab
  qa,      \* the state of the QA tab
  walk,    \* the walks in flight
  clicks   \* what is left of the clicks

vars == <<opened, lost, stored, tab, calls, qa, walk, clicks>>

Slots == 1..Walks

\* The words the code looks for, in each disposition it can find.  The API has
\* lower case values, which the walk turns to upper case.
Words == [QUALIFIED   |-> {"QUALIFIED"},
          TRANSFERRED |-> {"QUALIFIED", "TRANSFERRED"},
          DISQUALIFIED |-> {"QUALIFIED", "DISQUALIFIED"},
          OPTED_OUT   |-> {"OPTED_OUT"},
          NO_ANSWER   |-> {}]
ASSUME DispositionAssumption ==
  {Disposition, Qualification} \subseteq [1..LastCall -> DOMAIN Words \union {"NONE"}]

\* The automatic score, which the walk gives to a call of the API.
AutoScoreGenerous(d) == IF "QUALIFIED" \in Words[d] THEN 98 ELSE 92
AutoScore(d) == IF "QUALIFIED" \in Words[d] THEN 98 ELSE 85

Row == [kind : {"call", "sim", "pad"}, n : 1..(LastCall + Full), dispo : DOMAIN Words,
        score : 0..100, audited : BOOLEAN]

\* What a row is called on screen and in addresses: a simulated row and a row
\* of the padding with the same position have one name.
Ref(r) == <<IF r.kind = "call" THEN "call" ELSE "sim", r.n>>
NoRef == <<"none", 0>>
Refs == {<<k, n>> : k \in {"call", "sim", "pad"}, n \in 1..(LastCall + Full)}

\* A call without a disposition is shown by its qualification, or else as qualified,
\* and scored as one that is not.
ShownAs(c) == IF Disposition[c] # "NONE" THEN Disposition[c]
              ELSE IF Qualification[c] # "NONE" THEN Qualification[c] ELSE "QUALIFIED"
ServerRow(c) ==
  [kind |-> "call", n |-> c, dispo |-> ShownAs(c), audited |-> FALSE,
   score |-> AutoScore(IF Disposition[c] = "NONE" THEN "NO_ANSWER" ELSE Disposition[c])]

\* The simulated calls, with the five outcomes in turn.
Outcomes == <<"QUALIFIED", "TRANSFERRED", "DISQUALIFIED", "DISQUALIFIED", "OPTED_OUT">>
Simulated(kind, before, count) ==
  [i \in 1..count |->
     LET d == Outcomes[1 + (i % 5)]
     IN [kind |-> kind, n |-> before + i, dispo |-> d, score |-> AutoScore(d), audited |-> FALSE]]

\* A list of fewer than Full rows is filled up.
Padded(rows) ==
  IF Len(rows) < Full THEN rows \o Simulated("pad", Len(rows), Full - Len(rows)) ELSE rows

\* GET /calls, newest first; and its page p.
Newest(n) == [i \in 1..n |-> ServerRow(n + 1 - i)]
Page(n, p) == SubSeq(Newest(n), (p - 1) * PerPage + 1,
                     IF p * PerPage < n THEN p * PerPage ELSE n)
PagesOf(n) == IF n = 0 THEN 1 ELSE (n + PerPage - 1) \div PerPage

-----------------------------------------------------------------------------
\* The pages of a table: which of the rows in Kept are on page p.
OnPage(kept, p) ==
  {i \in kept : LET rank == Cardinality({j \in kept : j <= i})
                IN (p - 1) * PerView < rank /\ rank <= p * PerView}
LastPage(kept) ==
  LET n == Cardinality(kept) IN IF n = 0 THEN 1 ELSE (n + PerView - 1) \div PerView

NoPage == [phase |-> "none", page |-> 0, pages |-> 0, got |-> << >>, answer |-> << >>,
           mounted |-> FALSE, from |-> 0, missed |-> FALSE]

CallFilters == {"all", "sale", "raxfer", "dnc"}
Panels == {"overview", "audio", "transcript", "qa"}
NoCalls == [rows |-> << >>, view |-> "none", at |-> NoRef, filter |-> "all", page |-> 1,
            panel |-> "overview"]
QaViews == {"queue", "review", "scorecards", "results", "calibration"}
NoQa == [rows |-> << >>, view |-> "none", at |-> NoRef, sampled |-> TRUE, search |-> FALSE,
         page |-> 1, score |-> 100, modal |-> "none", cards |-> 0, sessions |-> 0]

\* A row of a list with the name of the address, or the first row.
Addressed(rows, at) ==
  LET named == {i \in DOMAIN rows : Ref(rows[i]) = at}
  IN rows[IF named = {} THEN 1 ELSE CHOOSE i \in named : \A j \in named : i <= j]

TypeOK ==
  /\ opened \in 0..LastCall /\ lost \in 0..MaxLost /\ clicks \in 0..Clicks
  /\ tab \in {"calls", "qa", "other"}
  \* A copy that a Calls tab would not believe is never written.
  /\ stored = << >> \/ (Range(stored) \subseteq Row /\ Len(stored) >= FewRows)
  /\ IF tab # "calls" THEN calls = NoCalls
     ELSE /\ Range(calls.rows) \subseteq Row /\ Len(calls.rows) > 0
          /\ calls.view \in {"history", "live", "detail"}
          /\ calls.at \in Refs \union {NoRef} /\ calls.filter \in CallFilters
          /\ calls.page \in 1..(LastCall + Full) /\ calls.panel \in Panels
  /\ IF tab # "qa" THEN qa = NoQa
     ELSE /\ Range(qa.rows) \subseteq Row /\ qa.view \in QaViews
          /\ qa.at \in Refs \union {NoRef} /\ qa.page \in 1..(LastCall + Full)
          /\ qa.modal \in {"none", "card", "session", "report"}
  /\ \A w \in Slots :
       /\ walk[w].phase \in {"none", "asked", "ok", "notok", "rejected"}
       /\ walk[w].phase # "none" => /\ walk[w].page \in 1..MaxPages
                                    /\ Len(walk[w].got) <= (walk[w].page - 1) * PerPage
       \* At most one walk is that of the tab on screen.
       /\ walk[w].mounted => /\ tab = "calls"
                             /\ \A x \in Slots \ {w} : ~walk[x].mounted

-----------------------------------------------------------------------------
Click == /\ clicks > 0
         /\ clicks' = clicks - 1

\* GET /calls?pageSize=200&page=1, sent when the Calls tab mounts.
FetchCalls == [NoPage EXCEPT !.phase = "asked", !.page = 1, !.mounted = TRUE]

\* The server has one more call.
OpenCall ==
  /\ opened < LastCall
  /\ opened' = opened + 1
  /\ UNCHANGED <<lost, stored, tab, calls, qa, walk, clicks>>

\* The server answers a page with the calls it has now.
Serve(w) ==
  /\ walk[w].phase = "asked"
  /\ LET first == walk[w].page = 1
     IN walk' = [walk EXCEPT ![w].phase = "ok", ![w].answer = Page(opened, walk[w].page),
                             ![w].pages = IF first THEN PagesOf(opened) ELSE @,
                             ![w].from = IF first THEN opened ELSE @]
  /\ UNCHANGED <<opened, lost, stored, tab, calls, qa, clicks>>

\* A page is refused, or the replay of its request is cut off.
Lose(w) ==
  /\ walk[w].phase = "asked" /\ lost < MaxLost
  /\ lost' = lost + 1
  /\ \E how \in {"notok", "rejected"} :
       walk' = [walk EXCEPT ![w].phase = how, ![w].missed = TRUE]
  /\ UNCHANGED <<opened, stored, tab, calls, qa, clicks>>

\* The pages a walk asks for.
ToWalkShort(f) == (IF f.pages <= MaxPages THEN f.pages ELSE MaxPages) - 1
ToWalk(f) == IF f.pages <= MaxPages THEN f.pages ELSE MaxPages

\* The end of a walk: the list replaces the copy and, if the tab is still
\* there, what it shows.
Finish(w, got) ==
  /\ walk' = [walk EXCEPT ![w] = NoPage]
  /\ stored' = Padded(got)
  /\ calls' = IF walk[w].mounted THEN [calls EXCEPT !.rows = Padded(got)] ELSE calls

\* A page that failed is left out; the walk ends early only when the first one
\* threw, and then leaves everything as it was.
PageAnswered(w) ==
  LET f == walk[w]
      got == IF f.phase = "ok" THEN f.got \o f.answer ELSE f.got
  IN /\ f.phase \in {"ok", "notok", "rejected"}
     /\ \/ /\ f.page = 1 /\ f.phase = "rejected"
           /\ walk' = [walk EXCEPT ![w] = NoPage]
           /\ UNCHANGED <<stored, calls>>
        \/ /\ ~(f.page = 1 /\ f.phase = "rejected")
           /\ f.page < ToWalk(f)
           /\ walk' = [walk EXCEPT ![w].phase = "asked", ![w].page = @ + 1,
                                   ![w].got = got, ![w].answer = << >>]
           /\ UNCHANGED <<stored, calls>>
        \/ /\ ~(f.page = 1 /\ f.phase = "rejected")
           /\ f.page >= ToWalk(f)
           /\ Finish(w, got)
     /\ UNCHANGED <<opened, lost, tab, qa, clicks>>

-----------------------------------------------------------------------------
(* Mounting and leaving the tabs. *)

Unmounted == [w \in Slots |-> [walk[w] EXCEPT !.mounted = FALSE]]

\* The Calls tab shows a copy it believes, or simulated calls, which it stores;
\* then it walks the pages.  The address of a call is its id.
MountCalls(view, at, before) ==
  LET rows == IF Len(stored) >= FewRows /\ stored # << >> THEN stored
              ELSE Simulated("sim", 0, Full)
  IN \E w \in Slots :
       /\ before[w].phase = "none"
       /\ \A x \in 1..(w - 1) : before[x].phase # "none"
       /\ walk' = [before EXCEPT ![w] = FetchCalls]
       /\ stored' = rows
       /\ tab' = "calls" /\ qa' = NoQa
       /\ calls' = [NoCalls EXCEPT !.rows = rows, !.view = view, !.at = at]

\* The QA tab shows any copy there is.
MountQa(view, at) ==
  /\ tab' = "qa" /\ calls' = NoCalls
  /\ qa' = [NoQa EXCEPT !.rows = stored, !.view = view, !.at = at]
  /\ UNCHANGED stored

OpenCalls == /\ tab # "calls"
             /\ Click
             /\ MountCalls("history", NoRef, Unmounted)
             /\ UNCHANGED <<opened, lost>>

OpenQa == /\ tab # "qa"
          /\ Click
          /\ MountQa("queue", NoRef)
          /\ walk' = Unmounted
          /\ UNCHANGED <<opened, lost>>

\* Any other tab.
LeaveTabs == /\ tab # "other"
             /\ Click
             /\ tab' = "other" /\ calls' = NoCalls /\ qa' = NoQa
             /\ walk' = Unmounted
             /\ UNCHANGED <<opened, lost, stored>>

\* A new document: the walks are gone, the address keeps the view.
Reload ==
  /\ Click
  /\ LET none == [w \in Slots |-> NoPage]
     IN \/ /\ tab = "calls" /\ MountCalls(calls.view, calls.at, none)
        \/ /\ tab = "qa" /\ MountQa(qa.view, qa.at) /\ walk' = none
        \/ /\ tab = "other" /\ walk' = none /\ UNCHANGED <<tab, calls, qa, stored>>
  /\ UNCHANGED <<opened, lost>>

-----------------------------------------------------------------------------
(* The Calls tab. *)

OnCalls(step) == /\ tab = "calls"
                 /\ Click
                 /\ calls' = step
                 /\ UNCHANGED <<opened, lost, stored, tab, qa, walk>>

\* "Sales" and "DNC / Opt-Out" both take a disqualified call.
FilteredCalls(filter) ==
  {i \in DOMAIN calls.rows :
     LET has == Words[calls.rows[i].dispo]
     IN CASE filter = "all"    -> TRUE
          [] filter = "sale"   -> "QUALIFIED" \in has
          [] filter = "raxfer" -> "TRANSFERRED" \in has
          [] filter = "dnc"    -> {"OPTED_OUT", "DISQUALIFIED"} \intersect has # {}}

\* A click on a row of the page on screen.
RowOffered(i) == /\ calls.view = "history"
                 /\ i \in OnPage(FilteredCalls(calls.filter), calls.page)
ViewCall == \E i \in DOMAIN calls.rows :
              /\ RowOffered(i)
              /\ OnCalls([calls EXCEPT !.view = "detail", !.at = <<calls.rows[i].kind, calls.rows[i].n>>])

\* The live channels are a constant of the dashboard, and there are none: the
\* panel offers the way back and nothing else.
ViewLive == /\ tab = "calls" /\ calls.view = "history"
            /\ OnCalls([calls EXCEPT !.view = "live"])

BackToHistory == /\ tab = "calls" /\ calls.view # "history"
                 /\ OnCalls([calls EXCEPT !.view = "history", !.at = NoRef])

\* The part of a call on screen stays chosen for the next call; none of the
\* parts changes the call, and "Save QA Audit" has no handler.
ShowPanel(panel) == /\ tab = "calls" /\ calls.view = "detail"
                    /\ panel # calls.panel
                    /\ OnCalls([calls EXCEPT !.panel = panel])

\* A change of the filter turns to the first page.
FilterCalls(filter) == /\ tab = "calls" /\ calls.view = "history"
                       /\ filter # calls.filter
                       /\ OnCalls([calls EXCEPT !.filter = filter, !.page = 1])

TurnPage(p) == /\ tab = "calls" /\ calls.view = "history"
               /\ \/ p = calls.page - 1 /\ p >= 1
                  \/ p = calls.page + 1 /\ p <= LastPage(FilteredCalls(calls.filter))
               /\ OnCalls([calls EXCEPT !.page = p])

-----------------------------------------------------------------------------
(* The QA tab. *)

OnQa(step) == /\ tab = "qa"
              /\ Click
              /\ qa' = step
              /\ UNCHANGED <<opened, lost, tab, calls, walk>>

\* Which rows are sampled: by outcome, by a low score (a score of zero counts
\* as a hundred), or by position.
SampledForQa(rows, i) ==
  LET has == Words[rows[i].dispo]
      score == IF rows[i].score = 0 THEN 100 ELSE rows[i].score
  IN \/ {"QUALIFIED", "TRANSFERRED", "OPTED_OUT", "DISQUALIFIED"} \intersect has # {}
     \/ score < 90
     \/ (i - 1) % SampleEvery = 0

ReviewQueue == {i \in DOMAIN qa.rows : qa.sampled => SampledForQa(qa.rows, i)}
FilteredQueue == {i \in ReviewQueue : qa.search => qa.rows[i].kind = "call"}

\* The page of the queue that is on screen, with its "Audit Call".
AuditOffered(i) == /\ qa.view = "queue" /\ qa.modal = "none"
                   /\ i \in OnPage(FilteredQueue, qa.page)

\* The tabs of the desk, and the ways back.
ShowView(view) == /\ tab = "qa" /\ qa.modal = "none"
                  /\ view # qa.view
                  /\ OnQa([qa EXCEPT !.view = view, !.at = NoRef])
                  /\ UNCHANGED stored

\* The switch between the sample and all calls leaves the page as it is ...
Sample == /\ tab = "qa" /\ qa.view = "queue"
          /\ OnQa([qa EXCEPT !.sampled = ~@])
          /\ UNCHANGED stored

\* ... and a search does not.
SearchQueue == /\ tab = "qa" /\ qa.view = "queue"
               /\ OnQa([qa EXCEPT !.search = ~@, !.page = 1])
               /\ UNCHANGED stored

TurnQueue(p) == /\ tab = "qa" /\ qa.view = "queue"
                /\ \/ p = qa.page - 1 /\ p >= 1
                   \/ p = qa.page + 1 /\ p <= LastPage(FilteredQueue)
                /\ OnQa([qa EXCEPT !.page = p])
                /\ UNCHANGED stored

ReviewCall == \E i \in DOMAIN qa.rows :
                /\ AuditOffered(i)
                /\ OnQa([qa EXCEPT !.view = "review", !.at = Ref(qa.rows[i])])
                /\ UNCHANGED stored

\* The form of the review: the points stay for the next call.
FormOffered == tab = "qa" /\ qa.view = "review" /\ qa.rows # << >>
Score(points) == /\ FormOffered /\ points # qa.score
                 /\ OnQa([qa EXCEPT !.score = points])
                 /\ UNCHANGED stored

\* The rows with the name of the call under review are marked in the list of
\* the tab, and the whole list becomes the copy.
Audited(rows) ==
  LET target == Ref(Addressed(rows, qa.at))
  IN [i \in DOMAIN rows |-> IF Ref(rows[i]) = target
                            THEN [rows[i] EXCEPT !.audited = TRUE, !.score = qa.score]
                            ELSE rows[i]]

SubmitAuditAnew ==
  /\ FormOffered
  /\ LET rows == Audited([i \in DOMAIN qa.rows |-> [qa.rows[i] EXCEPT !.audited = FALSE]])
     IN /\ OnQa([qa EXCEPT !.rows = rows, !.view = "queue", !.at = NoRef])
        /\ stored' = rows
SubmitAudit ==
  /\ FormOffered
  /\ LET rows == Audited(qa.rows)
     IN /\ OnQa([qa EXCEPT !.rows = rows, !.view = "queue", !.at = NoRef])
        /\ stored' = rows

\* Templates and calibration sessions are kept by the tab alone.  Behind an open
\* form nothing else can be reached.
Behind(view) == tab = "qa" /\ qa.view = view /\ qa.modal = "none"
CardsOffered(modal) == Behind("scorecards") /\ modal = "card"
SessionsOffered(modal) == Behind("calibration") /\ modal \in {"session", "report"}
OpenModal(modal) ==
  /\ CardsOffered(modal) \/ SessionsOffered(modal)
  /\ OnQa([qa EXCEPT !.modal = modal])
  /\ UNCHANGED stored

\* What an open form offers: "create" what has a title, and the way out; a
\* report offers the way out alone.
CardForm == IF qa.modal = "card" THEN {"create", "close"} ELSE {}
SessionForm == IF qa.modal = "session" THEN {"create", "close"} ELSE {}
ReportOffers == IF qa.modal = "report" THEN {"close"} ELSE {}
CloseModal == /\ "close" \in CardForm \union SessionForm \union ReportOffers
              /\ OnQa([qa EXCEPT !.modal = "none"])
              /\ UNCHANGED stored

CreateScorecard == /\ "create" \in CardForm
                   /\ OnQa([qa EXCEPT !.modal = "none", !.cards = @ + 1])
                   /\ UNCHANGED stored

CreateCalibration == /\ "create" \in SessionForm
                     /\ OnQa([qa EXCEPT !.modal = "none", !.sessions = @ + 1])
                     /\ UNCHANGED stored

-----------------------------------------------------------------------------
\* A browser with the copy of an earlier, complete walk, or with none.
Init ==
  /\ opened \in 0..LastCall
  /\ stored \in {<< >>, Padded(Newest(opened))}
  /\ lost = 0 /\ clicks = Clicks
  /\ tab = "other" /\ calls = NoCalls /\ qa = NoQa
  /\ walk = [w \in Slots |-> NoPage]

Next ==
  \/ OpenCall
  \/ \E w \in Slots : Serve(w) \/ Lose(w) \/ PageAnswered(w)
  \/ OpenCalls \/ OpenQa \/ LeaveTabs \/ Reload
  \/ ViewCall \/ ViewLive \/ BackToHistory
  \/ \E panel \in Panels : ShowPanel(panel)
  \/ \E filter \in CallFilters : FilterCalls(filter)
  \/ \E p \in 1..(LastCall + Full) : TurnPage(p) \/ TurnQueue(p)
  \/ \E view \in QaViews : ShowView(view)
  \/ Sample \/ SearchQueue \/ ReviewCall \/ SubmitAudit
  \/ \E points \in {0, 80, 100} : Score(points)
  \/ \E modal \in {"card", "session", "report"} : OpenModal(modal)
  \/ CloseModal \/ CreateScorecard \/ CreateCalibration

Spec == Init /\ [][Next]_vars

-----------------------------------------------------------------------------
\* The audits of a copy, by the name of the call.
AuditsIn(rows) == {Ref(rows[i]) : i \in {j \in DOMAIN rows : rows[j].audited}}

\* The result of an audit is in the browser's copy and nowhere else: it is
\* lost when a walk of the Calls tab ends, and by no other step
\* (useCallsState.js:163, QaView.jsx:222).
AuditsKept ==
  [][AuditsIn(stored) \subseteq AuditsIn(stored')
     \/ \E w \in Slots : walk[w].phase # "none" /\ walk'[w] = NoPage]_vars

\* A walk of which no page failed, and during which no call was opened, leaves
\* the calls of the first MaxPages pages in the copy, each once and newest
\* first, and simulated ones only where there are fewer than Full
\* (useCallsState.js:89-167).
PagesComplete ==
  [][\A w \in Slots :
       ( /\ walk[w].phase # "none" /\ walk'[w] = NoPage /\ ~Reload
         /\ ~walk[w].missed /\ walk[w].from = opened )
       => stored' = Padded(SubSeq(Newest(opened), 1,
                                  IF MaxPages * PerPage < opened THEN MaxPages * PerPage ELSE opened))]_vars

\* The sample of the queue leaves out audited calls only: what a walk or the
\* simulation gives as score and outcome of a call not audited yet is always a
\* reason to show it (useCallsState.js:139, QaView.jsx:73-79).
UnauditedIsSampled ==
  \A i \in DOMAIN qa.rows : ~qa.rows[i].audited => SampledForQa(qa.rows, i)

\* Rows, copies and pages keep their types, and no call that waits for its
\* audit drops out of the sample (UnauditedIsSampled).
Consistent == TypeOK /\ UnauditedIsSampled
=============================================================================
