---------------------------- MODULE CallDeskProofs ----------------------------
(***************************************************************************)
(* Proofs about CallDesk, for any calls at the server, dispositions, sizes  *)
(* of pages and lists, walks in flight, clicks and failures.                *)
(***************************************************************************)
EXTENDS CallDesk, SequenceTheorems, TLAPS

-----------------------------------------------------------------------------
(* Rows.                                                                    *)

\* A reason to show a row in the sample that is not its position.
Telling(r) ==
  \/ {"QUALIFIED", "TRANSFERRED", "OPTED_OUT", "DISQUALIFIED"} \intersect Words[r.dispo] # {}
  \/ (IF r.score = 0 THEN 100 ELSE r.score) < 90

\* The rows of any list, and those of a walk or a simulation.
KnownRow == {r \in Row : r.audited \/ Telling(r)}
FreshRow == {r \in KnownRow : ~r.audited}

LEMMA Sizes ==
  /\ PerPage \in Nat /\ PerPage > 0 /\ MaxPages \in Nat /\ MaxPages > 0 /\ Full \in Nat /\ Full > 0
  /\ LastCall \in Nat /\ LastCall > 0 /\ FewRows \in Nat /\ FewRows <= Full
  /\ Walks \in Nat /\ Clicks \in Nat /\ MaxLost \in Nat
BY Positive

LEMMA WordsOf ==
  /\ DOMAIN Words = {"QUALIFIED", "TRANSFERRED", "DISQUALIFIED", "OPTED_OUT", "NO_ANSWER"}
  /\ "QUALIFIED" \in Words["QUALIFIED"] /\ Words["NO_ANSWER"] = {}
BY DEF Words

LEMMA Scores ==
  ASSUME NEW d
  PROVE  AutoScore(d) \in {85, 98} /\ (AutoScore(d) = 98 => "QUALIFIED" \in Words[d])
BY DEF AutoScore

LEMMA ServerRowFresh == ASSUME NEW c \in 1..LastCall PROVE ServerRow(c) \in FreshRow
<1> DEFINE none == Disposition[c] = "NONE"
           r == ServerRow(c)
<1>1. r = [kind |-> "call", n |-> c, dispo |-> ShownAs(c), audited |-> FALSE,
           score |-> AutoScore(IF none THEN "NO_ANSWER" ELSE Disposition[c])]
  BY DEF ServerRow
<1>2. /\ r.kind = "call" /\ r.n = c /\ r.audited = FALSE
      /\ r.dispo = ShownAs(c)
      /\ r.score = AutoScore(IF none THEN "NO_ANSWER" ELSE Disposition[c])
  BY <1>1
<1>3. r.dispo \in DOMAIN Words /\ c \in 1..(LastCall + Full)
  BY <1>2, DispositionAssumption, WordsOf, Sizes DEF ShownAs
<1>4. r.score \in {85, 98} /\ (r.score = 98 => "QUALIFIED" \in Words[r.dispo])
  <2>1. CASE none
    BY <1>2, <2>1, Scores, WordsOf
  <2>2. CASE ~none
    BY <1>2, <2>2, Scores DEF ShownAs
  <2>3. QED
    BY <2>1, <2>2
<1>5. Telling(r)
  BY <1>2, <1>4, WordsOf DEF Telling
<1>6. r.score \in 0..100
  BY <1>4
<1>7. r \in Row
  BY <1>1, <1>2, <1>3, <1>6 DEF Row
<1>8. QED
  BY <1>2, <1>5, <1>7 DEF KnownRow, FreshRow

LEMMA NewestRows ==
  ASSUME NEW n \in 0..LastCall
  PROVE  Newest(n) \in Seq(FreshRow) /\ Len(Newest(n)) = n
<1>1. n \in Nat /\ \A i \in 1..n : n + 1 - i \in 1..LastCall
  BY Sizes
<1>2. \A i \in 1..n : ServerRow(n + 1 - i) \in FreshRow
  BY <1>1, ServerRowFresh
<1>3. QED
  BY <1>1, <1>2 DEF Newest

LEMMA SimulatedRows ==
  ASSUME NEW kind \in {"sim", "pad"}, NEW before \in Nat, NEW count \in Nat,
         before + count <= Full
  PROVE  Simulated(kind, before, count) \in Seq(FreshRow) /\ Len(Simulated(kind, before, count)) = count
<1> DEFINE d(i) == Outcomes[1 + (i % 5)]
           r(i) == [kind |-> kind, n |-> before + i, dispo |-> d(i), score |-> AutoScore(d(i)),
                    audited |-> FALSE]
<1>1. Simulated(kind, before, count) = [i \in 1..count |-> r(i)]
  BY DEF Simulated
<1>2. ASSUME NEW i \in 1..count PROVE r(i) \in FreshRow
  <2>1. i % 5 \in {0, 1, 2, 3, 4}
    BY <1>2
  <2>2. d(i) \in {"QUALIFIED", "TRANSFERRED", "DISQUALIFIED", "OPTED_OUT"}
    BY <2>1 DEF Outcomes
  <2>3. before + i \in 1..(LastCall + Full)
    BY Sizes
  <2> HIDE DEF d
  <2>4. AutoScore(d(i)) \in {85, 98} /\ (AutoScore(d(i)) = 98 => "QUALIFIED" \in Words[d(i)])
    BY Scores
  <2>5. d(i) \in DOMAIN Words /\ AutoScore(d(i)) \in 0..100
    BY <2>2, <2>4, WordsOf
  <2>6. r(i) \in Row
    BY <2>3, <2>5 DEF Row
  <2>7. Telling(r(i))
    BY <2>4 DEF Telling
  <2>8. QED
    BY <2>6, <2>7 DEF KnownRow, FreshRow
<1> HIDE DEF r
<1>3. QED
  BY <1>1, <1>2

LEMMA PaddedRows ==
  ASSUME NEW got \in Seq(FreshRow)
  PROVE  Padded(got) \in Seq(FreshRow) /\ Len(Padded(got)) >= Full
<1>1. Len(got) \in Nat
  OBVIOUS
<1>2. CASE Len(got) < Full
  <2> DEFINE pad == Simulated("pad", Len(got), Full - Len(got))
  <2>1. Full - Len(got) \in Nat /\ Len(got) + (Full - Len(got)) <= Full
    BY <1>1, <1>2, Sizes
  <2>2. pad \in Seq(FreshRow) /\ Len(pad) = Full - Len(got)
    BY <1>1, <2>1, SimulatedRows
  <2>3. Padded(got) = got \o pad
    BY <1>2 DEF Padded
  <2> HIDE DEF pad
  <2>4. Padded(got) \in Seq(FreshRow) /\ Len(Padded(got)) = Len(got) + Len(pad)
    BY <2>2, <2>3, ConcatProperties
  <2>5. QED
    BY <1>1, <2>2, <2>4, Sizes
<1>3. CASE ~(Len(got) < Full)
  BY <1>1, <1>3, Sizes DEF Padded
<1>4. QED
  BY <1>2, <1>3

-----------------------------------------------------------------------------
(* Pages.                                                                   *)

\* The smaller of two numbers.
Least(a, b) == IF a < b THEN a ELSE b

LEMMA PageRows ==
  ASSUME NEW n \in 0..LastCall, NEW p \in Nat, p > 0
  PROVE  /\ Page(n, p) \in Seq(FreshRow) /\ Len(Page(n, p)) <= PerPage
         /\ (p - 1) * PerPage \in Nat
<1> DEFINE m == (p - 1) * PerPage + 1
           last == IF p * PerPage < n THEN p * PerPage ELSE n
<1>1. /\ (p - 1) * PerPage \in Nat /\ p * PerPage = (p - 1) * PerPage + PerPage
      /\ p * PerPage \in Nat /\ n \in Nat
  BY Sizes
<1>2. m \in Nat /\ m > 0 /\ last \in Nat /\ last <= n /\ last - m + 1 <= PerPage
  BY <1>1, Sizes
<1>3. Page(n, p) = SubSeq(Newest(n), m, last)
  BY DEF Page
<1> HIDE DEF m, last
<1>4. \A i \in m..last : Newest(n)[i] \in FreshRow
  BY <1>2, NewestRows
<1>5. /\ SubSeq(Newest(n), m, last) \in Seq(FreshRow)
      /\ Len(SubSeq(Newest(n), m, last)) = IF m <= last THEN last - m + 1 ELSE 0
  BY <1>2, <1>4, SubSeqProperties
<1>6. QED
  BY <1>1, <1>2, <1>3, <1>5, Sizes

\* The first k pages, and what one more adds to them.
Upto(n, k) == SubSeq(Newest(n), 1, Least(k * PerPage, n))

LEMMA NextPage ==
  ASSUME NEW n \in 0..LastCall, NEW p \in Nat, p > 0
  PROVE  Upto(n, p - 1) \o Page(n, p) = Upto(n, p)
<1> DEFINE s == Newest(n)
           a == (p - 1) * PerPage
           b == Least(p * PerPage, n)
<1>1. a \in Nat /\ p * PerPage = a + PerPage /\ p * PerPage \in Nat /\ n \in Nat
  BY Sizes
<1>2. /\ Page(n, p) = SubSeq(s, a + 1, b) /\ Upto(n, p - 1) = SubSeq(s, 1, Least(a, n))
      /\ Upto(n, p) = SubSeq(s, 1, b)
  BY DEF Page, Upto, Least
<1>3. s \in Seq(FreshRow) /\ Len(s) = n
  BY NewestRows
<1>4. b \in Nat /\ b <= n /\ (a < n => a <= b) /\ (~(a < n) => b = n)
  BY <1>1, Sizes DEF Least
<1> HIDE DEF a, b, s
<1>5. \A i \in 1..n : s[i] \in FreshRow
  BY <1>3
<1>6. SubSeq(s, 1, b) \in Seq(FreshRow) /\ Len(SubSeq(s, 1, b)) = b
      /\ \A i \in 1..b : SubSeq(s, 1, b)[i] = s[i]
  <2>1. \A i \in 1..b : s[i] \in FreshRow
    BY <1>1, <1>4, <1>5
  <2>2. /\ SubSeq(s, 1, b) \in Seq(FreshRow)
        /\ Len(SubSeq(s, 1, b)) = IF 1 <= b THEN b - 1 + 1 ELSE 0
        /\ \A i \in 1..(b - 1 + 1) : SubSeq(s, 1, b)[i] = s[1 + i - 1]
    BY <1>4, <2>1, SubSeqProperties
  <2>3. \A i \in 1..b : i \in 1..(b - 1 + 1) /\ 1 + i - 1 = i
    BY <1>4
  <2>4. QED
    BY <1>4, <2>2, <2>3
<1>7. CASE ~(a < n)
  <2>1. SubSeq(s, a + 1, b) = <<>>
    BY <1>1, <1>4, <1>7, SubSeqEmpty
  <2>2. Least(a, n) = n /\ b = n
    BY <1>4, <1>7 DEF Least
  <2>3. QED
    BY <1>2, <1>6, <2>1, <2>2, ConcatEmptySeq
<1>8. CASE a < n
  <2>1. Least(a, n) = a /\ a <= b
    BY <1>4, <1>8 DEF Least
  <2>2. SubSeq(s, 1, a) \in Seq(FreshRow) /\ Len(SubSeq(s, 1, a)) = a
        /\ \A i \in 1..a : SubSeq(s, 1, a)[i] = s[i]
    <3>1. \A i \in 1..a : s[i] \in FreshRow
      BY <1>1, <1>5, <1>8
    <3>2. /\ SubSeq(s, 1, a) \in Seq(FreshRow)
          /\ Len(SubSeq(s, 1, a)) = IF 1 <= a THEN a - 1 + 1 ELSE 0
          /\ \A i \in 1..(a - 1 + 1) : SubSeq(s, 1, a)[i] = s[1 + i - 1]
      BY <1>1, <3>1, SubSeqProperties
    <3>3. \A i \in 1..a : i \in 1..(a - 1 + 1) /\ 1 + i - 1 = i
      BY <1>1
    <3>4. QED
      BY <1>1, <3>2, <3>3
  <2>3. /\ SubSeq(s, a + 1, b) \in Seq(FreshRow) /\ Len(SubSeq(s, a + 1, b)) = b - a
        /\ \A i \in 1..(b - a) : SubSeq(s, a + 1, b)[i] = s[a + i]
    <3>1. \A i \in (a + 1)..b : s[i] \in FreshRow
      BY <1>1, <1>4, <1>5
    <3>2. /\ SubSeq(s, a + 1, b) \in Seq(FreshRow)
          /\ Len(SubSeq(s, a + 1, b)) = IF a + 1 <= b THEN b - (a + 1) + 1 ELSE 0
          /\ \A i \in 1..(b - (a + 1) + 1) : SubSeq(s, a + 1, b)[i] = s[(a + 1) + i - 1]
      BY <1>1, <1>4, <3>1, SubSeqProperties
    <3>3. \A i \in 1..(b - a) : i \in 1..(b - (a + 1) + 1) /\ (a + 1) + i - 1 = a + i
      BY <1>1, <1>4
    <3>4. QED
      BY <1>1, <1>4, <2>1, <3>2, <3>3
  <2> DEFINE t == SubSeq(s, 1, a)
             u == SubSeq(s, a + 1, b)
             w == SubSeq(s, 1, b)
  <2> HIDE DEF t, u, w
  <2>4. /\ t \o u \in Seq(FreshRow) /\ Len(t \o u) = Len(t) + Len(u)
        /\ \A i \in 1..(Len(t) + Len(u)) : (t \o u)[i] = IF i <= Len(t) THEN t[i] ELSE u[i - Len(t)]
    BY <2>2, <2>3, ConcatProperties DEF t, u
  <2>5. Len(t) = a /\ Len(u) = b - a /\ Len(w) = b /\ a + (b - a) = b
    BY <1>1, <1>4, <1>6, <2>2, <2>3 DEF t, u, w
  <2>6. \A i \in 1..b : (t \o u)[i] = w[i]
    <3> TAKE i \in 1..b
    <3>1. CASE i <= a
      <4>1. i \in 1..a
        BY <1>4, <3>1
      <4>2. QED
        BY <1>6, <2>2, <2>4, <2>5, <3>1, <4>1 DEF t, w
    <3>2. CASE ~(i <= a)
      <4>1. i - a \in 1..(b - a) /\ a + (i - a) = i
        BY <1>1, <1>4, <3>2
      <4>2. u[i - a] = s[i]
        BY <2>3, <4>1 DEF u
      <4>3. QED
        BY <1>6, <2>4, <2>5, <3>2, <4>2 DEF w
    <3>3. QED
      BY <3>1, <3>2
  <2>7. t \o u = w
    BY <1>6, <2>4, <2>5, <2>6, SeqEqual DEF w
  <2>8. QED
    BY <1>2, <2>1, <2>7 DEF t, u, w
<1>9. QED
  BY <1>7, <1>8

\* The pages of a list hold all of it.
LEMMA AllPages ==
  ASSUME NEW n \in Nat
  PROVE  PagesOf(n) \in Nat /\ PagesOf(n) > 0 /\ n <= PagesOf(n) * PerPage
<1> DEFINE x == n + PerPage - 1
           q == x \div PerPage
<1>1. PerPage \in Nat /\ PerPage > 0 /\ x \in Nat
  BY Sizes
<1>2. CASE n = 0
  BY <1>1, <1>2 DEF PagesOf
<1>3. CASE n # 0
  <2>1. PagesOf(n) = q
    BY <1>3 DEF PagesOf
  <2>2. /\ q \in Int /\ x % PerPage \in Int /\ x = PerPage * q + (x % PerPage)
        /\ 0 <= x % PerPage /\ x % PerPage < PerPage
    BY <1>1
  <2> HIDE DEF q
  <2>3. PerPage * q >= n /\ n > 0
    BY <1>1, <1>3, <2>2
  <2>4. q > 0
    BY <1>1, <2>2, <2>3
  <2>5. QED
    BY <1>1, <2>1, <2>2, <2>3, <2>4
<1>4. QED
  BY <1>2, <1>3

-----------------------------------------------------------------------------
(* The invariant.                                                           *)

Walk == [phase : {"none", "asked", "ok", "notok", "rejected"}, page : Nat, pages : Nat,
         got : Seq(FreshRow), answer : Seq(FreshRow), mounted : BOOLEAN, from : Nat,
         missed : BOOLEAN]
CallsState == [rows : Seq(KnownRow), view : {"none", "history", "live", "detail"},
               at : Refs \union {NoRef}, filter : CallFilters, page : 1..(LastCall + Full),
               panel : Panels]
QaState == [rows : Seq(KnownRow), view : {"none"} \union QaViews, at : Refs \union {NoRef},
            sampled : BOOLEAN, search : BOOLEAN, page : 1..(LastCall + Full), score : 0..100,
            modal : {"none", "card", "session", "report"}, cards : Nat, sessions : Nat]

\* A walk of which no page failed, while the server has the calls it had when
\* the first page was answered, has the pages so far and nothing else.
Complete(f, n) ==
  f.phase # "none" /\ ~f.missed /\ f.from = n /\ (f.phase = "ok" \/ f.page > 1) =>
    /\ f.pages = PagesOf(n) /\ f.got = Upto(n, f.page - 1)
    /\ f.phase = "ok" => f.answer = Page(n, f.page)

WalkOK(f, n) ==
  /\ f.phase # "none" => f.page \in 1..MaxPages /\ Len(f.got) <= (f.page - 1) * PerPage
  /\ f.phase \in {"notok", "rejected"} => f.missed
  /\ f.phase = "ok" => Len(f.answer) <= PerPage
  /\ f.from <= n /\ Complete(f, n)

\* What a Calls tab believes, or no copy.
Believed(rows) == rows = << >> \/ Len(rows) >= FewRows

Counts == opened \in 0..LastCall /\ lost \in 0..MaxLost /\ clicks \in 0..Clicks
StoredOK == stored \in Seq(KnownRow) /\ Believed(stored)
CallsOK == /\ tab \in {"calls", "qa", "other"} /\ calls \in CallsState
           /\ tab # "calls" => calls = NoCalls
           /\ tab = "calls" => Len(calls.rows) > 0 /\ calls.view # "none"
\* The list of the QA tab has the audits of the copy.
QaOK == /\ qa \in QaState
        /\ tab # "qa" => qa = NoQa
        /\ tab = "qa" => /\ qa.view # "none" /\ Believed(qa.rows)
                         /\ AuditsIn(stored) \subseteq AuditsIn(qa.rows)
WalksOK == /\ walk \in [Slots -> Walk]
           /\ \A w \in Slots : WalkOK(walk[w], opened)
           /\ \A w \in Slots : walk[w].mounted =>
                 tab = "calls" /\ \A x \in Slots \ {w} : ~walk[x].mounted

AllInv == Counts /\ StoredOK /\ CallsOK /\ QaOK /\ WalksOK

LEMMA Fresh == Seq(FreshRow) \subseteq Seq(KnownRow)
BY SeqMonotonic DEF FreshRow

LEMMA NoAudits == ASSUME NEW rows \in Seq(FreshRow) PROVE AuditsIn(rows) = {}
<1>1. \A i \in DOMAIN rows : ~rows[i].audited
  BY DEF FreshRow
<1>2. QED
  BY <1>1 DEF AuditsIn

LEMMA InRow == ASSUME NEW rows \in Seq(KnownRow) PROVE Range(rows) \subseteq Row
<1>1. \A i \in DOMAIN rows : rows[i] \in Row
  BY DEF KnownRow
<1>2. QED
  BY <1>1 DEF Range

LEMMA InvIsTypeOK == AllInv => TypeOK
<1> SUFFICES ASSUME AllInv PROVE TypeOK
  OBVIOUS
<1>1. /\ opened \in 0..LastCall /\ lost \in 0..MaxLost /\ clicks \in 0..Clicks
      /\ tab \in {"calls", "qa", "other"}
  BY DEF AllInv, Counts, CallsOK
<1>2. stored = << >> \/ (Range(stored) \subseteq Row /\ Len(stored) >= FewRows)
  BY InRow DEF AllInv, StoredOK, Believed
<1>3. IF tab # "calls" THEN calls = NoCalls
      ELSE /\ Range(calls.rows) \subseteq Row /\ Len(calls.rows) > 0
           /\ calls.view \in {"history", "live", "detail"}
           /\ calls.at \in Refs \union {NoRef} /\ calls.filter \in CallFilters
           /\ calls.page \in 1..(LastCall + Full) /\ calls.panel \in Panels
  BY InRow DEF AllInv, CallsOK, CallsState
<1>4. IF tab # "qa" THEN qa = NoQa
      ELSE /\ Range(qa.rows) \subseteq Row /\ qa.view \in QaViews
           /\ qa.at \in Refs \union {NoRef} /\ qa.page \in 1..(LastCall + Full)
           /\ qa.modal \in {"none", "card", "session", "report"}
  BY InRow DEF AllInv, QaOK, QaState
<1>5. \A w \in Slots :
        /\ walk[w].phase \in {"none", "asked", "ok", "notok", "rejected"}
        /\ walk[w].phase # "none" => /\ walk[w].page \in 1..MaxPages
                                     /\ Len(walk[w].got) <= (walk[w].page - 1) * PerPage
        /\ walk[w].mounted => /\ tab = "calls"
                              /\ \A x \in Slots \ {w} : ~walk[x].mounted
  BY DEF AllInv, WalksOK, Walk, WalkOK
<1>6. QED
  BY <1>1, <1>2, <1>3, <1>4, <1>5 DEF TypeOK

-----------------------------------------------------------------------------
(* The states a tab and a walk begin with.                                  *)

LEMMA NoPageOK == ASSUME NEW n \in Nat
                  PROVE  NoPage \in Walk /\ WalkOK(NoPage, n) /\ ~NoPage.mounted /\ NoPage.phase = "none"
BY EmptySeq DEF NoPage, Walk, WalkOK, Complete

LEMMA FetchCallsOK == ASSUME NEW n \in Nat
                      PROVE  FetchCalls \in Walk /\ WalkOK(FetchCalls, n) /\ FetchCalls.phase = "asked"
<1>1. /\ FetchCalls.phase = "asked" /\ FetchCalls.page = 1 /\ FetchCalls.got = << >>
      /\ FetchCalls.from = 0 /\ FetchCalls.missed = FALSE
  BY DEF FetchCalls, NoPage
<1>2. FetchCalls \in Walk
  BY EmptySeq DEF FetchCalls, NoPage, Walk
<1>3. 1 \in 1..MaxPages /\ Len(<< >>) <= (1 - 1) * PerPage
  BY Sizes
<1>4. QED
  BY <1>1, <1>2, <1>3 DEF WalkOK, Complete

LEMMA NoTabs == NoCalls \in CallsState /\ NoQa \in QaState
<1>1. << >> \in Seq(KnownRow) /\ 1 \in 1..(LastCall + Full)
  BY EmptySeq, Sizes
<1>2. QED
  BY <1>1 DEF NoCalls, NoQa, CallsState, QaState, CallFilters, Panels

-----------------------------------------------------------------------------
(* Walks.                                                                   *)

\* The walk of one slot goes on; the tab it belongs to stays the same.
LEMMA WalkGoesOn ==
  ASSUME WalksOK, NEW w \in Slots, NEW g \in Walk, WalkOK(g, opened),
         g.mounted => walk[w].mounted, walk' = [walk EXCEPT ![w] = g],
         UNCHANGED <<opened, tab>>
  PROVE  WalksOK' /\ walk'[w] = g /\ \A x \in Slots : x # w => walk'[x] = walk[x]
BY DEF WalksOK

LEMMA OpenCallInv == ASSUME AllInv, OpenCall PROVE AllInv'
<1>1. /\ opened < LastCall /\ opened' = opened + 1
      /\ UNCHANGED <<lost, stored, tab, calls, qa, walk, clicks>>
  BY DEF OpenCall
<1>2. Counts' /\ opened \in Nat
  BY <1>1, Sizes DEF AllInv, Counts
<1>3. ASSUME NEW w \in Slots PROVE WalkOK(walk[w], opened + 1)
  <2>1. WalkOK(walk[w], opened) /\ walk[w].from \in Nat
    BY DEF AllInv, WalksOK, Walk
  <2>2. walk[w].from <= opened + 1 /\ walk[w].from # opened + 1
    BY <1>2, <2>1 DEF WalkOK
  <2>3. QED
    BY <2>1, <2>2 DEF WalkOK, Complete
<1>4. WalksOK'
  BY <1>1, <1>3 DEF AllInv, WalksOK
<1>5. StoredOK' /\ CallsOK' /\ QaOK'
  BY <1>1 DEF AllInv, StoredOK, CallsOK, QaOK, AuditsIn
<1>6. QED
  BY <1>2, <1>4, <1>5 DEF AllInv

LEMMA ServeInv == ASSUME AllInv, NEW w \in Slots, Serve(w) PROVE AllInv'
<1> DEFINE f == walk[w]
           first == f.page = 1
           answer == Page(opened, f.page)
           pages == IF first THEN PagesOf(opened) ELSE f.pages
           from == IF first THEN opened ELSE f.from
           g == [f EXCEPT !.phase = "ok", !.answer = answer, !.pages = pages, !.from = from]
<1>1. /\ f \in Walk /\ WalkOK(f, opened) /\ opened \in 0..LastCall /\ opened \in Nat
      /\ WalksOK /\ walk \in [Slots -> Walk]
  BY Sizes DEF AllInv, Counts, WalksOK
<1>2. f.phase = "asked" /\ UNCHANGED <<opened, lost, stored, tab, calls, qa, clicks>>
  BY DEF Serve
<1>3. walk' = [walk EXCEPT ![w] = g]
  <2>1. walk' = [walk EXCEPT ![w].phase = "ok", ![w].answer = answer,
                             ![w].pages = IF first THEN PagesOf(opened) ELSE @,
                             ![w].from = IF first THEN opened ELSE @]
    BY DEF Serve
  <2>2. QED
    BY <1>1, <2>1 DEF Walk
<1>4. f.page \in 1..MaxPages /\ Len(f.got) <= (f.page - 1) * PerPage /\ f.page \in Nat /\ f.page > 0
  BY <1>1, <1>2, Sizes DEF WalkOK
<1>5. answer \in Seq(FreshRow) /\ Len(answer) <= PerPage
  BY <1>1, <1>4, PageRows
<1>6. pages \in Nat /\ from \in Nat /\ from <= opened
  BY <1>1, AllPages DEF Walk, WalkOK
<1>7. ~f.missed /\ from = opened => pages = PagesOf(opened) /\ f.got = Upto(opened, f.page - 1)
  <2>1. CASE first
    <3>1. f.got = << >>
      <4>1. Len(f.got) <= 0 /\ f.got \in Seq(FreshRow)
        BY <1>1, <1>4, <2>1, Sizes DEF Walk
      <4>2. QED
        BY <4>1, EmptySeq
    <3>2. Upto(opened, 0) = << >>
      <4>1. Least(0 * PerPage, opened) = 0
        BY <1>1, Sizes DEF Least
      <4>2. QED
        BY <4>1, SubSeqEmpty DEF Upto
    <3>3. QED
      BY <2>1, <3>1, <3>2
  <2>2. CASE ~first
    <3>1. f.page > 1
      BY <1>4, <2>2
    <3>2. QED
      BY <1>1, <1>2, <2>2, <3>1 DEF WalkOK, Complete
  <2>3. QED
    BY <2>1, <2>2
<1> HIDE DEF answer, pages, from
<1>8. /\ g \in Walk /\ g.phase = "ok" /\ g.page = f.page /\ g.pages = pages /\ g.got = f.got
      /\ g.answer = answer /\ g.mounted = f.mounted /\ g.from = from /\ g.missed = f.missed
  BY <1>1, <1>5, <1>6 DEF Walk
<1>9. WalkOK(g, opened)
  BY <1>4, <1>5, <1>6, <1>7, <1>8 DEF WalkOK, Complete, answer
<1> HIDE DEF f, g
<1>10. WalksOK'
  BY <1>1, <1>2, <1>3, <1>8, <1>9, WalkGoesOn DEF f
<1>11. Counts' /\ StoredOK' /\ CallsOK' /\ QaOK'
  BY <1>2 DEF AllInv, Counts, StoredOK, CallsOK, QaOK, AuditsIn
<1>12. QED
  BY <1>10, <1>11 DEF AllInv

LEMMA LoseInv == ASSUME AllInv, NEW w \in Slots, Lose(w) PROVE AllInv'
<1> DEFINE f == walk[w]
<1>1. /\ f \in Walk /\ WalkOK(f, opened) /\ WalksOK /\ walk \in [Slots -> Walk]
  BY DEF AllInv, WalksOK
<1>2. /\ f.phase = "asked" /\ lost < MaxLost /\ lost' = lost + 1
      /\ UNCHANGED <<opened, stored, tab, calls, qa, clicks>>
  BY DEF Lose
<1>3. PICK how \in {"notok", "rejected"} :
          walk' = [walk EXCEPT ![w].phase = how, ![w].missed = TRUE]
  BY DEF Lose
<1> DEFINE g == [f EXCEPT !.phase = how, !.missed = TRUE]
<1>4. walk' = [walk EXCEPT ![w] = g]
  BY <1>1, <1>3 DEF Walk
<1>5. /\ g \in Walk /\ g.phase = how /\ g.page = f.page /\ g.got = f.got
      /\ g.mounted = f.mounted /\ g.from = f.from /\ g.missed = TRUE
  BY <1>1 DEF Walk
<1>6. WalkOK(g, opened)
  BY <1>1, <1>2, <1>5 DEF WalkOK, Complete
<1> HIDE DEF f, g
<1>7. WalksOK'
  BY <1>1, <1>2, <1>4, <1>5, <1>6, WalkGoesOn DEF f
<1>8. Counts'
  BY <1>2, Sizes DEF AllInv, Counts
<1>9. StoredOK' /\ CallsOK' /\ QaOK'
  BY <1>2 DEF AllInv, StoredOK, CallsOK, QaOK, AuditsIn
<1>10. QED
  BY <1>7, <1>8, <1>9 DEF AllInv

\* A walk that ends leaves all it got, filled up.
LEMMA FinishInv ==
  ASSUME AllInv, NEW w \in Slots, NEW got \in Seq(FreshRow), Finish(w, got),
         UNCHANGED <<opened, lost, tab, qa, clicks>>
  PROVE  AllInv'
<1> DEFINE rows == Padded(got)
<1>1. /\ walk' = [walk EXCEPT ![w] = NoPage] /\ stored' = rows
      /\ calls' = IF walk[w].mounted THEN [calls EXCEPT !.rows = rows] ELSE calls
  BY DEF Finish
<1>2. rows \in Seq(FreshRow) /\ Len(rows) >= Full
  BY PaddedRows
<1> HIDE DEF rows
<1>3. rows \in Seq(KnownRow) /\ Len(rows) > 0 /\ Len(rows) >= FewRows
  BY <1>2, Fresh, Sizes
<1>4. StoredOK'
  BY <1>1, <1>3 DEF StoredOK, Believed
<1>5. WalksOK'
  <2>1. WalksOK /\ NoPage \in Walk /\ WalkOK(NoPage, opened) /\ ~NoPage.mounted
    BY NoPageOK, Sizes DEF AllInv, Counts
  <2>2. QED
    BY <1>1, <2>1, WalkGoesOn
<1>6. CallsOK'
  <2>1. CASE walk[w].mounted
    <3>1. tab = "calls"
      BY <2>1 DEF AllInv, WalksOK
    <3>2. calls \in CallsState /\ calls.view # "none"
      BY <3>1 DEF AllInv, CallsOK
    <3>3. calls' \in CallsState /\ calls'.rows = rows /\ calls'.view = calls.view
      BY <1>1, <1>3, <2>1, <3>2 DEF CallsState
    <3>4. QED
      BY <1>3, <3>1, <3>2, <3>3 DEF CallsOK
  <2>2. CASE ~walk[w].mounted
    BY <1>1, <2>2 DEF AllInv, CallsOK
  <2>3. QED
    BY <2>1, <2>2
<1>7. QaOK'
  <2>1. AuditsIn(stored') = {}
    BY <1>1, <1>2, NoAudits
  <2>2. AuditsIn(stored)' = {}
    BY <2>1 DEF AuditsIn
  <2>3. AuditsIn(stored)' \subseteq AuditsIn(qa.rows)'
    BY <2>2
  <2>4. QED
    BY <2>3 DEF AllInv, QaOK
<1>8. QED
  BY <1>4, <1>5, <1>6, <1>7 DEF AllInv, Counts

\* What a walk has when its page was answered, or failed.
Got(f) == IF f.phase = "ok" THEN f.got \o f.answer ELSE f.got

LEMMA GotOK ==
  ASSUME NEW f \in Walk, f.phase \in {"ok", "notok", "rejected"}, opened \in 0..LastCall,
         WalkOK(f, opened)
  PROVE  /\ Got(f) \in Seq(FreshRow) /\ Len(Got(f)) <= f.page * PerPage
         /\ ~f.missed /\ f.from = opened => f.pages = PagesOf(opened) /\ Got(f) = Upto(opened, f.page)
<1>1. /\ f.page \in Nat /\ f.page > 0 /\ f.got \in Seq(FreshRow) /\ f.answer \in Seq(FreshRow)
      /\ Len(f.got) <= (f.page - 1) * PerPage
  BY Sizes DEF Walk, WalkOK
<1>2. (f.page - 1) * PerPage \in Nat /\ f.page * PerPage = (f.page - 1) * PerPage + PerPage
  BY <1>1, Sizes
<1>3. CASE f.phase = "ok"
  <2>1. Got(f) = f.got \o f.answer /\ Len(f.answer) <= PerPage
    BY <1>3 DEF Got, WalkOK
  <2>2. Got(f) \in Seq(FreshRow) /\ Len(Got(f)) = Len(f.got) + Len(f.answer)
    BY <1>1, <2>1, ConcatProperties
  <2>3. Len(f.got) \in Nat /\ Len(f.answer) \in Nat
    BY <1>1
  <2>4. Len(Got(f)) <= f.page * PerPage
    <3> DEFINE a == (f.page - 1) * PerPage
               b == f.page * PerPage
    <3>1. a \in Nat /\ b = a + PerPage /\ Len(f.got) <= a
      BY <1>1, <1>2
    <3>2. Len(f.answer) <= PerPage /\ Len(Got(f)) = Len(f.got) + Len(f.answer)
      BY <2>1, <2>2
    <3>3. \A x, y \in Nat : x <= a /\ y <= PerPage => x + y <= a + PerPage
      BY <3>1, Sizes
    <3> HIDE DEF a, b
    <3>4. Len(f.got) + Len(f.answer) <= a + PerPage
      BY <2>3, <3>1, <3>2, <3>3
    <3>5. QED
      BY <3>1, <3>2, <3>4 DEF b
  <2>5. ASSUME ~f.missed, f.from = opened
        PROVE  f.pages = PagesOf(opened) /\ Got(f) = Upto(opened, f.page)
    <3>1. /\ f.pages = PagesOf(opened) /\ f.got = Upto(opened, f.page - 1)
          /\ f.answer = Page(opened, f.page)
      BY <1>3, <2>5 DEF WalkOK, Complete
    <3>2. QED
      BY <1>1, <2>1, <3>1, NextPage
  <2>6. QED
    BY <2>2, <2>4, <2>5
<1>4. CASE f.phase # "ok"
  <2>1. Got(f) = f.got /\ f.missed
    BY <1>4 DEF Got, WalkOK
  <2>2. Len(f.got) \in Nat
    BY <1>1
  <2>3. QED
    BY <1>1, <1>2, <2>1, <2>2, Sizes
<1>5. QED
  BY <1>3, <1>4

LEMMA PageAnsweredInv == ASSUME AllInv, NEW w \in Slots, PageAnswered(w) PROVE AllInv'
<1> DEFINE f == walk[w]
           got == Got(f)
<1>1. /\ f \in Walk /\ WalkOK(f, opened) /\ WalksOK /\ walk \in [Slots -> Walk]
      /\ opened \in 0..LastCall /\ opened \in Nat
  BY Sizes DEF AllInv, WalksOK, Counts
<1>2. f.phase \in {"ok", "notok", "rejected"} /\ UNCHANGED <<opened, lost, tab, qa, clicks>>
  BY DEF PageAnswered
<1>3. \/ walk' = [walk EXCEPT ![w] = NoPage] /\ UNCHANGED <<stored, calls>>
      \/ /\ f.page < ToWalk(f)
         /\ walk' = [walk EXCEPT ![w].phase = "asked", ![w].page = @ + 1,
                                 ![w].got = got, ![w].answer = << >>]
         /\ UNCHANGED <<stored, calls>>
      \/ Finish(w, got)
  BY DEF PageAnswered, Got
<1>4. /\ got \in Seq(FreshRow) /\ Len(got) <= f.page * PerPage
      /\ ~f.missed /\ f.from = opened => f.pages = PagesOf(opened) /\ got = Upto(opened, f.page)
  BY <1>1, <1>2, GotOK
<1> HIDE DEF got
<1>5. CASE walk' = [walk EXCEPT ![w] = NoPage] /\ UNCHANGED <<stored, calls>>
  <2>1. NoPage \in Walk /\ WalkOK(NoPage, opened) /\ ~NoPage.mounted
    BY <1>1, NoPageOK
  <2>2. WalksOK'
    BY <1>1, <1>2, <1>5, <2>1, WalkGoesOn
  <2>3. QED
    BY <1>2, <1>5, <2>2 DEF AllInv, Counts, StoredOK, CallsOK, QaOK, AuditsIn
<1>6. CASE /\ f.page < ToWalk(f)
           /\ walk' = [walk EXCEPT ![w].phase = "asked", ![w].page = @ + 1,
                                   ![w].got = got, ![w].answer = << >>]
           /\ UNCHANGED <<stored, calls>>
  <2> DEFINE next == f.page + 1
             g == [f EXCEPT !.phase = "asked", !.page = next, !.got = got, !.answer = << >>]
  <2>1. walk' = [walk EXCEPT ![w] = g]
    BY <1>1, <1>6 DEF Walk
  <2>2. f.page \in Nat /\ f.page > 0 /\ f.pages \in Nat
    BY <1>1, <1>2, Sizes DEF WalkOK, Walk
  <2>3. next \in 1..MaxPages /\ next \in Nat /\ next > 1 /\ next - 1 = f.page
    <3>1. ToWalk(f) <= MaxPages /\ ToWalk(f) \in Nat
      BY <2>2, Sizes DEF ToWalk
    <3>2. f.page < ToWalk(f)
      BY <1>6
    <3>3. f.page < MaxPages
      BY <2>2, <3>1, <3>2, Sizes
    <3>4. QED
      BY <2>2, <3>3, Sizes
  <2> HIDE DEF next
  <2>4. /\ g \in Walk /\ g.phase = "asked" /\ g.page = next /\ g.pages = f.pages /\ g.got = got
        /\ g.mounted = f.mounted /\ g.from = f.from /\ g.missed = f.missed
    BY <1>1, <1>4, <2>3, EmptySeq DEF Walk
  <2>5. WalkOK(g, opened)
    BY <1>1, <1>4, <2>3, <2>4 DEF WalkOK, Complete
  <2> HIDE DEF f, g
  <2>6. WalksOK'
    BY <1>1, <1>2, <2>1, <2>4, <2>5, WalkGoesOn DEF f
  <2>7. QED
    BY <1>2, <1>6, <2>6 DEF AllInv, Counts, StoredOK, CallsOK, QaOK, AuditsIn
<1>7. CASE Finish(w, got)
  BY <1>2, <1>4, <1>7, FinishInv
<1>8. QED
  BY <1>3, <1>5, <1>6, <1>7

-----------------------------------------------------------------------------
(* Mounting and leaving the tabs.                                           *)

LEMMA ClickOK == ASSUME Counts, Click PROVE clicks' \in 0..Clicks
BY Sizes DEF Counts, Click

LEMMA UnmountedOK ==
  ASSUME WalksOK
  PROVE  /\ Unmounted \in [Slots -> Walk]
         /\ \A w \in Slots : /\ WalkOK(Unmounted[w], opened) /\ ~Unmounted[w].mounted
                             /\ Unmounted[w].phase = walk[w].phase
<1> DEFINE un(f) == [f EXCEPT !.mounted = FALSE]
<1>1. ASSUME NEW f \in Walk, WalkOK(f, opened)
      PROVE  un(f) \in Walk /\ WalkOK(un(f), opened) /\ ~un(f).mounted /\ un(f).phase = f.phase
  <2>1. /\ un(f) \in Walk /\ un(f).phase = f.phase /\ un(f).page = f.page /\ un(f).pages = f.pages
        /\ un(f).got = f.got /\ un(f).answer = f.answer /\ un(f).mounted = FALSE
        /\ un(f).from = f.from /\ un(f).missed = f.missed
    BY DEF Walk
  <2> HIDE DEF un
  <2>2. QED
    BY <1>1, <2>1 DEF WalkOK, Complete
<1>2. Unmounted = [w \in Slots |-> un(walk[w])]
  BY DEF Unmounted
<1> HIDE DEF un
<1>3. QED
  BY <1>1, <1>2 DEF WalksOK

LEMMA NoWalksOK ==
  ASSUME AllInv
  PROVE  LET none == [w \in Slots |-> NoPage] IN
         /\ none \in [Slots -> Walk]
         /\ \A w \in Slots : WalkOK(none[w], opened) /\ ~none[w].mounted
BY NoPageOK, Sizes DEF AllInv, Counts

LEMMA MountCallsInv ==
  ASSUME AllInv, NEW view \in {"history", "live", "detail"}, NEW at \in Refs \union {NoRef},
         NEW before \in [Slots -> Walk],
         \A w \in Slots : WalkOK(before[w], opened) /\ ~before[w].mounted,
         MountCalls(view, at, before), Click, UNCHANGED <<opened, lost>>
  PROVE  AllInv' /\ AuditsIn(stored) \subseteq AuditsIn(stored')
<1> DEFINE rows == IF Len(stored) >= FewRows /\ stored # << >> THEN stored
                   ELSE Simulated("sim", 0, Full)
<1>1. PICK w \in Slots : walk' = [before EXCEPT ![w] = FetchCalls]
  BY DEF MountCalls
<1>2. /\ stored' = rows /\ tab' = "calls" /\ qa' = NoQa
      /\ calls' = [NoCalls EXCEPT !.rows = rows, !.view = view, !.at = at]
  BY DEF MountCalls
<1>3. stored \in Seq(KnownRow) /\ Believed(stored) /\ opened \in 0..LastCall /\ opened \in Nat
  BY Sizes DEF AllInv, StoredOK, Counts
<1>4. /\ rows \in Seq(KnownRow) /\ Len(rows) > 0 /\ Len(rows) >= FewRows
      /\ AuditsIn(stored) \subseteq AuditsIn(rows)
  <2>1. CASE Len(stored) >= FewRows /\ stored # << >>
    <3>1. Len(stored) > 0
      BY <1>3, <2>1, EmptySeq
    <3>2. QED
      BY <1>3, <2>1, <3>1
  <2>2. CASE ~(Len(stored) >= FewRows /\ stored # << >>)
    <3>1. /\ Simulated("sim", 0, Full) \in Seq(FreshRow)
          /\ Len(Simulated("sim", 0, Full)) = Full
      BY Sizes, SimulatedRows
    <3>2. stored = << >>
      BY <1>3, <2>2 DEF Believed
    <3>3. AuditsIn(stored) = {}
      BY <3>2, EmptySeq, NoAudits
    <3>4. QED
      BY <2>2, <3>1, <3>3, Fresh, Sizes
  <2>3. QED
    BY <2>1, <2>2
<1> HIDE DEF rows
<1>5. FetchCalls \in Walk /\ WalkOK(FetchCalls, opened)
  BY <1>3, FetchCallsOK
<1>6. WalksOK'
  BY <1>1, <1>2, <1>5 DEF WalksOK
<1>7. CallsOK'
  <2>1. calls' \in CallsState /\ calls'.rows = rows /\ calls'.view = view
    BY <1>2, <1>4, NoTabs DEF CallsState
  <2>2. QED
    BY <1>2, <1>4, <2>1 DEF CallsOK
<1>8. QaOK'
  BY <1>2, NoTabs DEF QaOK
<1>9. Counts' /\ StoredOK'
  BY <1>2, <1>4, ClickOK DEF AllInv, Counts, StoredOK, Believed
<1>10. QED
  BY <1>2, <1>4, <1>6, <1>7, <1>8, <1>9 DEF AllInv

LEMMA MountQaInv ==
  ASSUME AllInv, NEW view \in QaViews, NEW at \in Refs \union {NoRef}, MountQa(view, at), Click,
         walk' \in [Slots -> Walk],
         \A w \in Slots : WalkOK(walk'[w], opened) /\ ~walk'[w].mounted,
         UNCHANGED <<opened, lost>>
  PROVE  AllInv'
<1>1. /\ tab' = "qa" /\ calls' = NoCalls /\ stored' = stored
      /\ qa' = [NoQa EXCEPT !.rows = stored, !.view = view, !.at = at]
  BY DEF MountQa
<1>2. stored \in Seq(KnownRow) /\ Believed(stored)
  BY DEF AllInv, StoredOK
<1>3. WalksOK'
  BY DEF WalksOK
<1>4. qa' \in QaState /\ qa'.rows = stored /\ qa'.view = view
  BY <1>1, <1>2, NoTabs DEF QaState
<1>5. QaOK'
  BY <1>1, <1>2, <1>4 DEF QaOK, QaViews, Believed, AuditsIn
<1>6. CallsOK'
  BY <1>1, NoTabs DEF CallsOK
<1>7. Counts' /\ StoredOK'
  BY <1>1, <1>2, ClickOK DEF AllInv, Counts, StoredOK, Believed
<1>8. QED
  BY <1>3, <1>5, <1>6, <1>7 DEF AllInv

LEMMA OpenCallsInv ==
  ASSUME AllInv, OpenCalls PROVE AllInv' /\ AuditsIn(stored) \subseteq AuditsIn(stored')
<1>1. MountCalls("history", NoRef, Unmounted) /\ Click /\ UNCHANGED <<opened, lost>>
  BY DEF OpenCalls
<1>2. /\ Unmounted \in [Slots -> Walk]
      /\ \A w \in Slots : WalkOK(Unmounted[w], opened) /\ ~Unmounted[w].mounted
  BY UnmountedOK DEF AllInv
<1>3. NoRef \in Refs \union {NoRef}
  OBVIOUS
<1>4. QED
  BY <1>1, <1>2, <1>3, MountCallsInv

LEMMA OpenQaInv == ASSUME AllInv, OpenQa PROVE AllInv'
<1>1. MountQa("queue", NoRef) /\ Click /\ walk' = Unmounted /\ UNCHANGED <<opened, lost>>
  BY DEF OpenQa
<1>2. /\ Unmounted \in [Slots -> Walk]
      /\ \A w \in Slots : WalkOK(Unmounted[w], opened) /\ ~Unmounted[w].mounted
  BY UnmountedOK DEF AllInv
<1>3. "queue" \in QaViews /\ NoRef \in Refs \union {NoRef}
  BY DEF QaViews
<1>4. QED
  BY <1>1, <1>2, <1>3, MountQaInv

\* No tab of the two is left on screen.
LEMMA NoTabInv ==
  ASSUME AllInv, tab' = "other", calls' = NoCalls, qa' = NoQa, clicks' \in 0..Clicks,
         walk' \in [Slots -> Walk],
         \A w \in Slots : WalkOK(walk'[w], opened) /\ ~walk'[w].mounted,
         UNCHANGED <<opened, lost, stored>>
  PROVE  AllInv'
<1>1. WalksOK'
  BY DEF WalksOK
<1>2. CallsOK' /\ QaOK'
  BY NoTabs DEF CallsOK, QaOK
<1>3. Counts' /\ StoredOK'
  BY DEF AllInv, Counts, StoredOK
<1>4. QED
  BY <1>1, <1>2, <1>3 DEF AllInv

LEMMA LeaveTabsInv == ASSUME AllInv, LeaveTabs PROVE AllInv'
<1>1. /\ Click /\ tab' = "other" /\ calls' = NoCalls /\ qa' = NoQa /\ walk' = Unmounted
      /\ UNCHANGED <<opened, lost, stored>>
  BY DEF LeaveTabs
<1>2. /\ Unmounted \in [Slots -> Walk]
      /\ \A w \in Slots : WalkOK(Unmounted[w], opened) /\ ~Unmounted[w].mounted
  BY UnmountedOK DEF AllInv
<1>3. clicks' \in 0..Clicks
  BY <1>1, ClickOK DEF AllInv
<1>4. QED
  BY <1>1, <1>2, <1>3, NoTabInv

LEMMA ReloadInv == ASSUME AllInv, Reload PROVE AllInv' /\ AuditsIn(stored) \subseteq AuditsIn(stored')
<1> DEFINE none == [w \in Slots |-> NoPage]
<1>1. Click /\ UNCHANGED <<opened, lost>>
  BY DEF Reload
<1>2. \/ tab = "calls" /\ MountCalls(calls.view, calls.at, none)
      \/ tab = "qa" /\ MountQa(qa.view, qa.at) /\ walk' = none
      \/ tab = "other" /\ walk' = none /\ UNCHANGED <<tab, calls, qa, stored>>
  BY DEF Reload
<1>3. none \in [Slots -> Walk] /\ \A w \in Slots : WalkOK(none[w], opened) /\ ~none[w].mounted
  BY NoWalksOK
<1> HIDE DEF none
<1>4. CASE tab = "calls" /\ MountCalls(calls.view, calls.at, none)
  <2>1. calls.view \in {"history", "live", "detail"} /\ calls.at \in Refs \union {NoRef}
    BY <1>4 DEF AllInv, CallsOK, CallsState
  <2>2. QED
    BY <1>1, <1>3, <1>4, <2>1, MountCallsInv
<1>5. CASE tab = "qa" /\ MountQa(qa.view, qa.at) /\ walk' = none
  <2>1. qa.view \in QaViews /\ qa.at \in Refs \union {NoRef}
    BY <1>5 DEF AllInv, QaOK, QaState
  <2>2. stored' = stored
    BY <1>5 DEF MountQa
  <2>3. QED
    BY <1>1, <1>3, <1>5, <2>1, <2>2, MountQaInv
<1>6. CASE tab = "other" /\ walk' = none /\ UNCHANGED <<tab, calls, qa, stored>>
  <2>1. calls' = NoCalls /\ qa' = NoQa /\ clicks' \in 0..Clicks
    BY <1>1, <1>6, ClickOK DEF AllInv, CallsOK, QaOK
  <2>2. QED
    BY <1>1, <1>3, <1>6, <2>1, NoTabInv
<1>7. QED
  BY <1>2, <1>4, <1>5, <1>6

-----------------------------------------------------------------------------
(* The two tabs.                                                            *)

LEMMA OnCallsInv ==
  ASSUME AllInv, NEW step \in CallsState, OnCalls(step), step.rows = calls.rows, step.view # "none"
  PROVE  AllInv'
<1>1. /\ tab = "calls" /\ Click /\ calls' = step
      /\ UNCHANGED <<opened, lost, stored, tab, qa, walk>>
  BY DEF OnCalls
<1>2. CallsOK'
  BY <1>1 DEF AllInv, CallsOK
<1>3. Counts' /\ StoredOK' /\ QaOK' /\ WalksOK'
  BY <1>1, ClickOK DEF AllInv, Counts, StoredOK, QaOK, WalksOK, AuditsIn
<1>4. QED
  BY <1>2, <1>3 DEF AllInv

LEMMA CallsTabInv ==
  ASSUME AllInv,
         \/ ViewCall \/ ViewLive \/ BackToHistory \/ \E panel \in Panels : ShowPanel(panel)
         \/ \E filter \in CallFilters : FilterCalls(filter)
         \/ \E p \in 1..(LastCall + Full) : TurnPage(p)
  PROVE  AllInv' /\ stored' = stored /\ walk' = walk
<1>1. calls \in CallsState
  BY DEF AllInv, CallsOK
<1>2. CASE ViewCall
  <2>1. PICK i \in DOMAIN calls.rows :
          /\ calls.view = "history"
          /\ OnCalls([calls EXCEPT !.view = "detail",
                                   !.at = <<calls.rows[i].kind, calls.rows[i].n>>])
    BY <1>2 DEF ViewCall, RowOffered
  <2> DEFINE at == <<calls.rows[i].kind, calls.rows[i].n>>
             step == [calls EXCEPT !.view = "detail", !.at = at]
  <2>2. calls.rows[i] \in Row
    BY <1>1 DEF CallsState, KnownRow
  <2>3. at \in Refs
    BY <2>2 DEF Refs, Row
  <2>4. OnCalls(step)
    BY <2>1
  <2> HIDE DEF at
  <2>5. step \in CallsState /\ step.rows = calls.rows /\ step.view = "detail"
    BY <1>1, <2>3 DEF CallsState
  <2> HIDE DEF step
  <2>6. QED
    BY <2>4, <2>5, OnCallsInv DEF OnCalls
<1>3. CASE ViewLive
  <2> DEFINE step == [calls EXCEPT !.view = "live"]
  <2>1. OnCalls(step)
    BY <1>3 DEF ViewLive
  <2>2. step \in CallsState /\ step.rows = calls.rows /\ step.view = "live"
    BY <1>1 DEF CallsState
  <2> HIDE DEF step
  <2>3. QED
    BY <2>1, <2>2, OnCallsInv DEF OnCalls
<1>4. CASE BackToHistory
  <2> DEFINE step == [calls EXCEPT !.view = "history", !.at = NoRef]
  <2>1. OnCalls(step)
    BY <1>4 DEF BackToHistory
  <2>2. step \in CallsState /\ step.rows = calls.rows /\ step.view = "history"
    BY <1>1 DEF CallsState
  <2> HIDE DEF step
  <2>3. QED
    BY <2>1, <2>2, OnCallsInv DEF OnCalls
<1>5. ASSUME NEW panel \in Panels, ShowPanel(panel) PROVE AllInv' /\ stored' = stored /\ walk' = walk
  <2> DEFINE step == [calls EXCEPT !.panel = panel]
  <2>1. OnCalls(step) /\ calls.view = "detail"
    BY <1>5 DEF ShowPanel
  <2>2. step \in CallsState /\ step.rows = calls.rows /\ step.view = "detail"
    BY <1>1, <2>1 DEF CallsState
  <2> HIDE DEF step
  <2>3. QED
    BY <2>1, <2>2, OnCallsInv DEF OnCalls
<1>6. ASSUME NEW filter \in CallFilters, FilterCalls(filter)
      PROVE  AllInv' /\ stored' = stored /\ walk' = walk
  <2> DEFINE step == [calls EXCEPT !.filter = filter, !.page = 1]
  <2>1. OnCalls(step) /\ calls.view = "history"
    BY <1>6 DEF FilterCalls
  <2>2. 1 \in 1..(LastCall + Full)
    BY Sizes
  <2>3. step \in CallsState /\ step.rows = calls.rows /\ step.view = "history"
    BY <1>1, <2>1, <2>2 DEF CallsState
  <2> HIDE DEF step
  <2>4. QED
    BY <2>1, <2>3, OnCallsInv DEF OnCalls
<1>7. ASSUME NEW p \in 1..(LastCall + Full), TurnPage(p)
      PROVE  AllInv' /\ stored' = stored /\ walk' = walk
  <2> DEFINE step == [calls EXCEPT !.page = p]
  <2>1. OnCalls(step) /\ calls.view = "history"
    BY <1>7 DEF TurnPage
  <2>2. step \in CallsState /\ step.rows = calls.rows /\ step.view = "history"
    BY <1>1, <2>1 DEF CallsState
  <2> HIDE DEF step
  <2>3. QED
    BY <2>1, <2>2, OnCallsInv DEF OnCalls
<1>8. QED
  BY <1>2, <1>3, <1>4, <1>5, <1>6, <1>7

LEMMA OnQaInv ==
  ASSUME AllInv, NEW step \in QaState, OnQa(step), step.view # "none",
         stored' \in Seq(KnownRow), Believed(stored'), Believed(step.rows),
         AuditsIn(stored') \subseteq AuditsIn(step.rows)
  PROVE  AllInv'
<1>1. /\ tab = "qa" /\ Click /\ qa' = step
      /\ UNCHANGED <<opened, lost, tab, calls, walk>>
  BY DEF OnQa
<1>2. QaOK'
  <2>1. AuditsIn(stored)' = AuditsIn(stored') /\ AuditsIn(qa.rows)' = AuditsIn(step.rows)
    BY <1>1 DEF AuditsIn
  <2>2. QED
    BY <1>1, <2>1 DEF QaOK, Believed
<1>3. StoredOK'
  BY DEF StoredOK, Believed
<1>4. Counts' /\ CallsOK' /\ WalksOK'
  BY <1>1, ClickOK DEF AllInv, Counts, CallsOK, WalksOK
<1>5. QED
  BY <1>2, <1>3, <1>4 DEF AllInv

\* A step of the tab that leaves its list and the copy as they are.
LEMMA QaKeepsRows ==
  ASSUME AllInv, NEW step \in QaState, OnQa(step), step.rows = qa.rows, step.view # "none",
         stored' = stored
  PROVE  AllInv' /\ stored' = stored /\ walk' = walk
<1>1. tab = "qa" /\ walk' = walk
  BY DEF OnQa
<1>2. QED
  BY <1>1, OnQaInv DEF AllInv, StoredOK, QaOK

LEMMA QaTabInv ==
  ASSUME AllInv,
         \/ \E view \in QaViews : ShowView(view)
         \/ Sample \/ SearchQueue \/ ReviewCall
         \/ \E p \in 1..(LastCall + Full) : TurnQueue(p)
         \/ \E points \in {0, 80, 100} : Score(points)
         \/ \E modal \in {"card", "session", "report"} : OpenModal(modal)
         \/ CloseModal \/ CreateScorecard \/ CreateCalibration
  PROVE  AllInv' /\ stored' = stored /\ walk' = walk
<1>1. qa \in QaState /\ (tab = "qa" => qa.view # "none")
  BY DEF AllInv, QaOK
<1> DEFINE Goal == AllInv' /\ stored' = stored /\ walk' = walk
<1>2. ASSUME NEW view \in QaViews, ShowView(view) PROVE Goal
  <2> DEFINE step == [qa EXCEPT !.view = view, !.at = NoRef]
  <2>1. OnQa(step) /\ stored' = stored
    BY <1>2 DEF ShowView
  <2>2. step \in QaState /\ step.rows = qa.rows /\ step.view # "none"
    BY <1>1 DEF QaState, QaViews
  <2> HIDE DEF step
  <2>3. QED
    BY <2>1, <2>2, QaKeepsRows
<1>3. CASE Sample
  <2> DEFINE step == [qa EXCEPT !.sampled = ~@]
  <2>1. OnQa(step) /\ stored' = stored /\ tab = "qa"
    BY <1>3 DEF Sample
  <2>2. step \in QaState /\ step.rows = qa.rows /\ step.view # "none"
    BY <1>1, <2>1 DEF QaState
  <2> HIDE DEF step
  <2>3. QED
    BY <2>1, <2>2, QaKeepsRows
<1>4. CASE SearchQueue
  <2> DEFINE step == [qa EXCEPT !.search = ~@, !.page = 1]
  <2>1. OnQa(step) /\ stored' = stored /\ tab = "qa" /\ 1 \in 1..(LastCall + Full)
    BY <1>4, Sizes DEF SearchQueue
  <2>2. step \in QaState /\ step.rows = qa.rows /\ step.view # "none"
    BY <1>1, <2>1 DEF QaState
  <2> HIDE DEF step
  <2>3. QED
    BY <2>1, <2>2, QaKeepsRows
<1>5. CASE ReviewCall
  <2>1. PICK i \in DOMAIN qa.rows :
          OnQa([qa EXCEPT !.view = "review", !.at = Ref(qa.rows[i])]) /\ stored' = stored
    BY <1>5 DEF ReviewCall
  <2> DEFINE at == Ref(qa.rows[i])
             step == [qa EXCEPT !.view = "review", !.at = at]
  <2>2. qa.rows[i] \in Row
    BY <1>1 DEF QaState, KnownRow
  <2>3. at \in Refs
    BY <2>2 DEF Refs, Row, Ref
  <2>4. OnQa(step)
    BY <2>1
  <2> HIDE DEF at
  <2>5. step \in QaState /\ step.rows = qa.rows /\ step.view # "none"
    BY <1>1, <2>3 DEF QaState, QaViews
  <2> HIDE DEF step
  <2>6. QED
    BY <2>1, <2>4, <2>5, QaKeepsRows
<1>6. ASSUME NEW p \in 1..(LastCall + Full), TurnQueue(p) PROVE Goal
  <2> DEFINE step == [qa EXCEPT !.page = p]
  <2>1. OnQa(step) /\ stored' = stored /\ tab = "qa"
    BY <1>6 DEF TurnQueue
  <2>2. step \in QaState /\ step.rows = qa.rows /\ step.view # "none"
    BY <1>1, <2>1 DEF QaState
  <2> HIDE DEF step
  <2>3. QED
    BY <2>1, <2>2, QaKeepsRows
<1>7. ASSUME NEW points \in {0, 80, 100}, Score(points) PROVE Goal
  <2> DEFINE step == [qa EXCEPT !.score = points]
  <2>1. OnQa(step) /\ stored' = stored /\ tab = "qa" /\ points \in 0..100
    BY <1>7 DEF Score, FormOffered
  <2>2. step \in QaState /\ step.rows = qa.rows /\ step.view # "none"
    BY <1>1, <2>1 DEF QaState
  <2> HIDE DEF step
  <2>3. QED
    BY <2>1, <2>2, QaKeepsRows
<1>8. ASSUME NEW modal \in {"card", "session", "report"}, OpenModal(modal) PROVE Goal
  <2> DEFINE step == [qa EXCEPT !.modal = modal]
  <2>1. OnQa(step) /\ stored' = stored /\ tab = "qa"
    BY <1>8 DEF OpenModal, OnQa
  <2>2. step \in QaState /\ step.rows = qa.rows /\ step.view # "none"
    BY <1>1, <2>1 DEF QaState
  <2> HIDE DEF step
  <2>3. QED
    BY <2>1, <2>2, QaKeepsRows
<1>9. CASE CloseModal
  <2> DEFINE step == [qa EXCEPT !.modal = "none"]
  <2>1. OnQa(step) /\ stored' = stored /\ tab = "qa"
    BY <1>9 DEF CloseModal, OnQa
  <2>2. step \in QaState /\ step.rows = qa.rows /\ step.view # "none"
    BY <1>1, <2>1 DEF QaState
  <2> HIDE DEF step
  <2>3. QED
    BY <2>1, <2>2, QaKeepsRows
<1>10. CASE CreateScorecard
  <2> DEFINE more == qa.cards + 1
             step == [qa EXCEPT !.modal = "none", !.cards = more]
  <2>1. OnQa(step) /\ stored' = stored /\ tab = "qa" /\ more \in Nat
    BY <1>1, <1>10 DEF CreateScorecard, OnQa, QaState
  <2> HIDE DEF more
  <2>2. step \in QaState /\ step.rows = qa.rows /\ step.view # "none"
    BY <1>1, <2>1 DEF QaState
  <2> HIDE DEF step
  <2>3. QED
    BY <2>1, <2>2, QaKeepsRows
<1>11. CASE CreateCalibration
  <2> DEFINE more == qa.sessions + 1
             step == [qa EXCEPT !.modal = "none", !.sessions = more]
  <2>1. OnQa(step) /\ stored' = stored /\ tab = "qa" /\ more \in Nat
    BY <1>1, <1>11 DEF CreateCalibration, OnQa, QaState
  <2> HIDE DEF more
  <2>2. step \in QaState /\ step.rows = qa.rows /\ step.view # "none"
    BY <1>1, <2>1 DEF QaState
  <2> HIDE DEF step
  <2>3. QED
    BY <2>1, <2>2, QaKeepsRows
<1>12. QED
  BY <1>2, <1>3, <1>4, <1>5, <1>6, <1>7, <1>8, <1>9, <1>10, <1>11

\* The marks of an audit are added to those of the list.
LEMMA AuditedRows ==
  ASSUME NEW rows \in Seq(KnownRow), qa.score \in 0..100
  PROVE  /\ Audited(rows) \in Seq(KnownRow) /\ Len(Audited(rows)) = Len(rows)
         /\ AuditsIn(rows) \subseteq AuditsIn(Audited(rows))
<1> DEFINE target == Ref(Addressed(rows, qa.at))
           marked(r) == [r EXCEPT !.audited = TRUE, !.score = qa.score]
           new == Audited(rows)
<1>1. /\ new = [i \in DOMAIN rows |-> IF Ref(rows[i]) = target THEN marked(rows[i]) ELSE rows[i]]
  BY DEF Audited
<1>2. ASSUME NEW r \in KnownRow
      PROVE  marked(r) \in KnownRow /\ marked(r).audited /\ Ref(marked(r)) = Ref(r)
  <2>1. r \in Row
    BY DEF KnownRow
  <2>2. /\ marked(r) \in Row /\ marked(r).audited = TRUE /\ marked(r).kind = r.kind
        /\ marked(r).n = r.n
    BY <2>1 DEF Row
  <2> HIDE DEF marked
  <2>3. QED
    BY <2>2 DEF KnownRow, Ref
<1> HIDE DEF target, marked, new
<1>3. /\ DOMAIN new = DOMAIN rows /\ DOMAIN rows = 1..Len(rows) /\ Len(rows) \in Nat
      /\ \A i \in DOMAIN rows : /\ rows[i] \in KnownRow /\ new[i] \in KnownRow
                                /\ Ref(new[i]) = Ref(rows[i])
                                /\ rows[i].audited => new[i].audited
  BY <1>1, <1>2
<1>4. new \in Seq(KnownRow) /\ Len(new) = Len(rows)
  BY <1>1, <1>3
<1>5. AuditsIn(rows) \subseteq AuditsIn(new)
  BY <1>3 DEF AuditsIn
<1>6. QED
  BY <1>4, <1>5 DEF new

LEMMA SubmitAuditInv ==
  ASSUME AllInv, SubmitAudit
  PROVE  AllInv' /\ AuditsIn(stored) \subseteq AuditsIn(stored') /\ walk' = walk
<1> DEFINE rows == Audited(qa.rows)
           step == [qa EXCEPT !.rows = rows, !.view = "queue", !.at = NoRef]
<1>1. /\ tab = "qa" /\ qa.rows # << >> /\ OnQa(step) /\ stored' = rows
  BY DEF SubmitAudit, FormOffered
<1>2. /\ qa \in QaState /\ qa.rows \in Seq(KnownRow) /\ qa.score \in 0..100 /\ Believed(qa.rows)
      /\ AuditsIn(stored) \subseteq AuditsIn(qa.rows)
  BY <1>1 DEF AllInv, QaOK, QaState
<1>3. /\ rows \in Seq(KnownRow) /\ Len(rows) = Len(qa.rows)
      /\ AuditsIn(qa.rows) \subseteq AuditsIn(rows)
  BY <1>2, AuditedRows
<1> HIDE DEF rows
<1>4. step \in QaState /\ step.rows = rows /\ step.view = "queue"
  BY <1>2, <1>3 DEF QaState, QaViews
<1>5. Believed(rows)
  BY <1>1, <1>2, <1>3 DEF Believed
<1> HIDE DEF step
<1>6. AllInv'
  BY <1>1, <1>3, <1>4, <1>5, OnQaInv
<1>7. QED
  BY <1>1, <1>2, <1>3, <1>6 DEF OnQa

-----------------------------------------------------------------------------
(* Every step.                                                              *)

LEMMA InitInv == Init => AllInv
<1> SUFFICES ASSUME Init PROVE AllInv
  OBVIOUS
<1>1. /\ opened \in 0..LastCall /\ stored \in {<< >>, Padded(Newest(opened))}
      /\ lost = 0 /\ clicks = Clicks /\ tab = "other" /\ calls = NoCalls /\ qa = NoQa
      /\ walk = [w \in Slots |-> NoPage]
  BY DEF Init
<1>2. Counts /\ opened \in Nat
  BY <1>1, Sizes DEF Counts
<1>3. StoredOK
  <2>1. << >> \in Seq(KnownRow)
    BY EmptySeq
  <2>2. Padded(Newest(opened)) \in Seq(FreshRow) /\ Len(Padded(Newest(opened))) >= Full
    BY <1>1, NewestRows, PaddedRows
  <2>3. Padded(Newest(opened)) \in Seq(KnownRow) /\ Len(Padded(Newest(opened))) >= FewRows
    BY <2>2, Fresh, Sizes
  <2>4. QED
    BY <1>1, <2>1, <2>3 DEF StoredOK, Believed
<1>4. CallsOK /\ QaOK
  BY <1>1, NoTabs DEF CallsOK, QaOK
<1>5. WalksOK
  BY <1>1, <1>2, NoPageOK DEF WalksOK
<1>6. QED
  BY <1>2, <1>3, <1>4, <1>5 DEF AllInv

\* No walk ends.
GoOn == \A w \in Slots : walk[w].phase # "none" => walk'[w].phase # "none"

\* A step leaves the walks and keeps the audits of the copy, or is an answer
\* that is taken over.
Kinds ==
  \/ \E w \in Slots : PageAnswered(w)
  \/ (GoOn \/ Reload) /\ AuditsIn(stored) \subseteq AuditsIn(stored')

LEMMA StepInv == ASSUME AllInv, Next PROVE AllInv' /\ Kinds
<1>1. walk' = walk => GoOn
  BY DEF GoOn
<1>2. CASE OpenCall
  BY <1>1, <1>2, OpenCallInv DEF OpenCall, Kinds
<1>3. ASSUME NEW w \in Slots, Serve(w) PROVE AllInv' /\ Kinds
  <2>1. GoOn
    BY <1>3 DEF Serve, GoOn, AllInv, WalksOK, Walk
  <2>2. stored' = stored
    BY <1>3 DEF Serve
  <2>3. QED
    BY <1>3, <2>1, <2>2, ServeInv DEF Kinds
<1>4. ASSUME NEW w \in Slots, Lose(w) PROVE AllInv' /\ Kinds
  <2>1. GoOn
    BY <1>4 DEF Lose, GoOn, AllInv, WalksOK, Walk
  <2>2. stored' = stored
    BY <1>4 DEF Lose
  <2>3. QED
    BY <1>4, <2>1, <2>2, LoseInv DEF Kinds
<1>5. ASSUME NEW w \in Slots, PageAnswered(w) PROVE AllInv' /\ Kinds
  BY <1>5, PageAnsweredInv DEF Kinds
<1>6. CASE OpenCalls
  <2>1. PICK w \in Slots : /\ Unmounted[w].phase = "none"
                           /\ walk' = [Unmounted EXCEPT ![w] = FetchCalls]
    BY <1>6 DEF OpenCalls, MountCalls
  <2>2. GoOn
    BY <2>1, UnmountedOK DEF AllInv, GoOn
  <2>3. QED
    BY <1>6, <2>2, OpenCallsInv DEF Kinds
<1>7. CASE OpenQa
  <2>1. walk' = Unmounted /\ stored' = stored
    BY <1>7 DEF OpenQa, MountQa
  <2>2. GoOn
    BY <2>1, UnmountedOK DEF AllInv, GoOn
  <2>3. QED
    BY <1>7, <2>1, <2>2, OpenQaInv DEF Kinds
<1>8. CASE LeaveTabs
  <2>1. walk' = Unmounted /\ stored' = stored
    BY <1>8 DEF LeaveTabs
  <2>2. GoOn
    BY <2>1, UnmountedOK DEF AllInv, GoOn
  <2>3. QED
    BY <1>8, <2>1, <2>2, LeaveTabsInv DEF Kinds
<1>9. CASE Reload
  BY <1>9, ReloadInv DEF Kinds
<1>10. CASE \/ ViewCall \/ ViewLive \/ BackToHistory \/ \E panel \in Panels : ShowPanel(panel)
            \/ \E filter \in CallFilters : FilterCalls(filter)
            \/ \E p \in 1..(LastCall + Full) : TurnPage(p)
  BY <1>1, <1>10, CallsTabInv DEF Kinds
<1>11. CASE \/ \E view \in QaViews : ShowView(view)
            \/ Sample \/ SearchQueue \/ ReviewCall
            \/ \E p \in 1..(LastCall + Full) : TurnQueue(p)
            \/ \E points \in {0, 80, 100} : Score(points)
            \/ \E modal \in {"card", "session", "report"} : OpenModal(modal)
            \/ CloseModal \/ CreateScorecard \/ CreateCalibration
  BY <1>1, <1>11, QaTabInv DEF Kinds
<1>12. CASE SubmitAudit
  BY <1>1, <1>12, SubmitAuditInv DEF Kinds
<1>13. QED
  BY <1>2, <1>3, <1>4, <1>5, <1>6, <1>7, <1>8, <1>9, <1>10, <1>11, <1>12 DEF Next

LEMMA NextInv == ASSUME AllInv, [Next]_vars PROVE AllInv'
<1>1. CASE Next
  BY <1>1, StepInv
<1>2. CASE UNCHANGED vars
  BY <1>2 DEF vars, AllInv, Counts, StoredOK, CallsOK, QaOK, WalksOK, AuditsIn
<1>3. QED
  BY <1>1, <1>2

\* The invariant holds of every state: what the copy, the calls under way, the QA
\* list and the walks of the pages have to do with one another.
THEOREM Invariant == Spec => []AllInv
<1>1. Init => AllInv
  BY InitInv
<1>2. AllInv /\ [Next]_vars => AllInv'
  BY NextInv
<1>3. QED
  BY <1>1, <1>2, PTL DEF Spec

-----------------------------------------------------------------------------
(* What the two tabs promise.                                               *)

\* Rows, copies and walks keep their types: a stored copy is never one that a
\* Calls tab would not believe, a walk never asks for more than MaxPages pages,
\* one walk at most is that of the tab on screen; and no call that waits for
\* its audit drops out of the sample of the QA queue: useCallsState.js:139 and
\* QaView.jsx:73-79.
THEOREM ConsistentTheorem == Spec => []Consistent
<1>1. ASSUME AllInv PROVE UnauditedIsSampled
  <2>1. qa.rows \in Seq(KnownRow)
    BY <1>1 DEF AllInv, QaOK, QaState
  <2>2. ASSUME NEW i \in DOMAIN qa.rows, ~qa.rows[i].audited PROVE SampledForQa(qa.rows, i)
    <3>1. Telling(qa.rows[i])
      BY <2>1, <2>2 DEF KnownRow
    <3>2. QED
      BY <3>1 DEF Telling, SampledForQa
  <2>3. QED
    BY <2>2 DEF UnauditedIsSampled
<1>2. AllInv => Consistent
  BY <1>1, InvIsTypeOK DEF Consistent
<1>3. QED
  BY <1>2, Invariant, PTL

\* The result of an audit is lost when a walk of the Calls tab ends, and by no
\* other step: useCallsState.js:163 writes over what QaView.jsx:222 wrote.
THEOREM AuditsKeptTheorem == Spec => AuditsKept
<1> DEFINE A == \/ AuditsIn(stored) \subseteq AuditsIn(stored')
                \/ \E w \in Slots : walk[w].phase # "none" /\ walk'[w] = NoPage
<1>1. ASSUME AllInv, [Next]_vars PROVE [A]_vars
  <2> SUFFICES ASSUME Next PROVE A
    BY <1>1
  <2>1. ASSUME NEW w \in Slots, PageAnswered(w) PROVE A
    <3>1. walk[w].phase \in {"ok", "notok", "rejected"} /\ walk \in [Slots -> Walk]
      BY <1>1, <2>1 DEF PageAnswered, AllInv, WalksOK
    <3>2. \/ walk' = [walk EXCEPT ![w] = NoPage]
          \/ stored' = stored
      BY <2>1 DEF PageAnswered, Finish
    <3>3. CASE walk' = [walk EXCEPT ![w] = NoPage]
      BY <3>1, <3>3
    <3>4. CASE stored' = stored
      BY <3>4
    <3>5. QED
      BY <3>2, <3>3, <3>4
  <2>2. QED
    BY <1>1, <2>1, StepInv DEF Kinds
<1>2. QED
  BY <1>1, Invariant, PTL DEF Spec, AuditsKept

\* The pages a walk asked for hold as much of the list as it may ask for.
LEMMA WalkedAll ==
  ASSUME NEW n \in Nat, NEW p \in 1..MaxPages,
         p >= IF PagesOf(n) <= MaxPages THEN PagesOf(n) ELSE MaxPages
  PROVE  Least(p * PerPage, n) = Least(MaxPages * PerPage, n)
<1>1. PagesOf(n) \in Nat /\ n <= PagesOf(n) * PerPage /\ PerPage \in Nat /\ MaxPages \in Nat
  BY AllPages, Sizes
<1>2. CASE p = MaxPages
  BY <1>2
<1>3. CASE p # MaxPages
  <2>1. p \in Nat /\ PagesOf(n) <= p /\ p <= MaxPages
    BY <1>1, <1>3
  <2>2. \A a, b, c \in Nat : a <= b => a * c <= b * c
    OBVIOUS
  <2>3. PagesOf(n) * PerPage <= p * PerPage /\ p * PerPage <= MaxPages * PerPage
    BY <1>1, <2>1, <2>2
  <2>4. n <= p * PerPage /\ n <= MaxPages * PerPage
    BY <1>1, <2>1, <2>3
  <2>5. p * PerPage \in Nat /\ MaxPages * PerPage \in Nat
    BY <1>1, <2>1
  <2>6. QED
    BY <2>4, <2>5 DEF Least
<1>4. QED
  BY <1>2, <1>3

LEMMA FinishedAll ==
  ASSUME AllInv, NEW w \in Slots, PageAnswered(w), walk'[w] = NoPage,
         ~walk[w].missed, walk[w].from = opened
  PROVE  stored' = Padded(Upto(opened, MaxPages))
<1> DEFINE f == walk[w]
<1>1. /\ f \in Walk /\ WalkOK(f, opened) /\ walk \in [Slots -> Walk]
      /\ opened \in 0..LastCall /\ opened \in Nat
  BY Sizes DEF AllInv, WalksOK, Counts
<1>2. f.phase \in {"ok", "notok", "rejected"}
  BY DEF PageAnswered
<1>3. f.phase = "ok"
  BY <1>1, <1>2 DEF WalkOK
<1>4. f.page \in 1..MaxPages /\ f.pages = PagesOf(opened) /\ Got(f) = Upto(opened, f.page)
  BY <1>1, <1>2, <1>3, GotOK DEF WalkOK
<1>5. \/ f.page < ToWalk(f) /\ walk'[w].phase = "asked"
      \/ f.page >= ToWalk(f) /\ stored' = Padded(Got(f))
  BY <1>1, <1>3 DEF PageAnswered, Got, Finish, Walk
<1>6. NoPage.phase = "none"
  BY DEF NoPage
<1>7. f.page >= ToWalk(f) /\ stored' = Padded(Got(f))
  BY <1>5, <1>6
<1> HIDE DEF f
<1>8. Least(f.page * PerPage, opened) = Least(MaxPages * PerPage, opened)
  BY <1>1, <1>4, <1>7, WalkedAll DEF ToWalk
<1>9. QED
  BY <1>4, <1>7, <1>8 DEF Upto

\* A walk of which no page failed, and during which no call was opened, leaves
\* the calls of the first MaxPages pages, each once and newest first, and
\* simulated ones only where there are fewer than Full, whatever else the two
\* tabs and other walks did meanwhile: useCallsState.js:89-167.
THEOREM PagesCompleteTheorem == Spec => PagesComplete
<1> DEFINE A == \A w \in Slots :
                  ( /\ walk[w].phase # "none" /\ walk'[w] = NoPage /\ ~Reload
                    /\ ~walk[w].missed /\ walk[w].from = opened )
                  => stored' = Padded(SubSeq(Newest(opened), 1,
                                 IF MaxPages * PerPage < opened THEN MaxPages * PerPage ELSE opened))
<1>1. ASSUME AllInv, [Next]_vars PROVE [A]_vars
  <2> SUFFICES ASSUME Next, NEW w \in Slots,
                      walk[w].phase # "none", walk'[w] = NoPage, ~Reload,
                      ~walk[w].missed, walk[w].from = opened
               PROVE  stored' = Padded(Upto(opened, MaxPages))
    BY <1>1 DEF Upto, Least
  <2>1. ~GoOn
    BY DEF GoOn, NoPage
  <2>2. PICK x \in Slots : PageAnswered(x)
    BY <1>1, <2>1, StepInv DEF Kinds
  <2>3. x = w
    <3>1. walk \in [Slots -> Walk] /\ NoPage.phase = "none"
      BY <1>1 DEF AllInv, WalksOK, NoPage
    <3>2. x # w => walk'[w] = walk[w]
      BY <2>2, <3>1 DEF PageAnswered, Finish
    <3>3. QED
      BY <3>1, <3>2
  <2>4. QED
    BY <1>1, <2>2, <2>3, FinishedAll
<1>2. QED
  BY <1>1, Invariant, PTL DEF Spec, PagesComplete
=============================================================================
