------------------------------ MODULE ScriptProofs ------------------------------
(***************************************************************************)
(* Proofs about the two models of call scripts.  The first part is about    *)
(* ScriptGovernance, the server's, for any sessions, scripts, campaigns,    *)
(* texts and bounds, and for both database schemas; the second is about     *)
(* ScriptDesk, the dashboard's, for any scripts at first, ids, wordings,    *)
(* visits, versions, calls under way and calls lost.                        *)
(***************************************************************************)
EXTENDS ScriptGovernance, ScriptDesk,
        FiniteSetTheorems, SequenceTheorems, WellFoundedInduction, TLAPS

-----------------------------------------------------------------------------
(* The server: script governance.                                           *)

Past == {"approved", "active", "archived"}

\* A script that exists has a first version, a version that is present has a
\* text, and only such a version carries a signature.
RowsOK ==
  /\ \A s \in Scripts : Exists(s) <=> scripts[s].current >= 1
  /\ \A s \in Scripts : \A n \in Numbers :
       /\ Present(s, n) => versions[s][n].text \in Texts
       /\ Signed(s, n) => Present(s, n)

\* What a request has read may be stale, but not beyond this: rows stay, numbers
\* only grow, and a signature is never taken back.
RequestOK(x) ==
  LET r == tx[x] IN
  r # NoRequest =>
    /\ Exists(r.script)
    /\ \A n \in Numbers :
         /\ r.seen[n].status # "absent" =>
              Present(r.script, n) /\ r.seen[n].text \in Texts
         /\ r.seen[n].status \in Past => Signed(r.script, n)
    /\ r.op \in {"update_version", "submit", "reject"} =>
         r.seen[r.n].status # "absent"
    /\ r.op = "approve" => r.seen[r.n].status = "pending_approval"
    /\ r.op = "activate" => r.seen[r.n].status \in Past
    /\ r.op = "update_version" => r.text \in Texts
    /\ r.op = "create_version" =>
         /\ r.text \in Texts /\ r.n = r.row.current + 1
         /\ r.row.current >= 1 /\ r.row.current <= scripts[r.script].current

\* A bind_script names a version, and one that was signed once it is checked.
EditOK(x) ==
  LET e == editing[x] IN
  e # NoRequest /\ e.op = "bind" =>
    /\ e.new.version # {}
    /\ e.phase = "checked" =>
         \A v \in e.new.version : versions[v[1]][v[2]].signed # NoText

IInv ==
  /\ TypeOK /\ RowsOK /\ VersionsNumbered /\ LiveWasSigned
  /\ \A x \in Sessions : RequestOK(x)
  /\ \A x \in Sessions : EditOK(x)

-----------------------------------------------------------------------------
(* Steps that leave the rows alone. *)

\* The invariant of the rows depends on nothing but the rows.
LEMMA RowsUnchanged ==
  ASSUME IInv, UNCHANGED <<schema, rows>>,
         tx' \in [Sessions -> Requests \cup {NoRequest}],
         \A x \in Sessions : tx'[x] = tx[x] \/ RequestOK(x)',
         editing' \in [Sessions -> Edits \cup {NoRequest}],
         \A x \in Sessions : editing'[x] = editing[x] \/ EditOK(x)'
  PROVE  IInv'
<1>1. TypeOK'
  BY DEF IInv, TypeOK, rows
<1>2. RowsOK' /\ VersionsNumbered' /\ LiveWasSigned'
  BY DEF IInv, rows, RowsOK, VersionsNumbered, LiveWasSigned, Exists, Present, Signed
<1>3. ASSUME NEW x \in Sessions, tx'[x] = tx[x]
      PROVE  RequestOK(x)'
  BY <1>3 DEF IInv, rows, RequestOK, Exists, Present, Signed
<1>4. ASSUME NEW x \in Sessions, editing'[x] = editing[x]
      PROVE  EditOK(x)'
  BY <1>4 DEF IInv, rows, EditOK
<1>5. QED
  BY <1>1, <1>2, <1>3, <1>4 DEF IInv

\* A request that ends leaves the others as they were.
LEMMA EndKeeps ==
  ASSUME IInv, NEW x \in Sessions, tx' = [tx EXCEPT ![x] = NoRequest],
         UNCHANGED <<schema, rows, editing>>
  PROVE  IInv'
<1>1. tx' \in [Sessions -> Requests \cup {NoRequest}] /\ editing' = editing
      /\ editing \in [Sessions -> Edits \cup {NoRequest}]
  BY DEF IInv, TypeOK
<1>2. ASSUME NEW y \in Sessions
      PROVE  tx'[y] = tx[y] \/ RequestOK(y)'
  BY DEF IInv, TypeOK, RequestOK
<1>3. QED
  BY <1>1, <1>2, RowsUnchanged

\* A request in hand is a record of all its fields.
LEMMA InHand ==
  ASSUME TypeOK, NEW x \in Sessions, tx[x] # NoRequest
  PROVE  tx[x] \in Requests
BY DEF TypeOK

\* Seeing one version, or all, is seeing rows as they are now.
LEMMA ReadTypes ==
  ASSUME TypeOK, NEW s \in Scripts, NEW n \in Numbers
  PROVE  /\ Only(s, n) \in [Numbers -> VersionRows]
         /\ NoVersions \in [Numbers -> VersionRows]
         /\ versions[s] \in [Numbers -> VersionRows]
         /\ NoScript \in ScriptRows /\ scripts[s] \in ScriptRows
<1>1. NoVersion \in VersionRows
  BY DEF NoVersion, VersionRows
<1>2. NoScript \in ScriptRows
  BY VersionAssumption DEF NoScript, ScriptRows
<1>3. QED
  BY <1>1, <1>2 DEF TypeOK, Only, NoVersions

\* What beginning a request has to establish.
LEMMA BeginKeeps ==
  ASSUME IInv, NEW x \in Sessions, NEW op \in Operations, NEW s \in Scripts,
         NEW n \in Numbers, NEW text \in Texts \cup {NoText},
         NEW k \in Campaigns \cup {NoCampaign}, NEW row \in ScriptRows,
         NEW seen \in [Numbers -> VersionRows],
         Begin(x, op, s, n, text, k, row, seen),
         Exists(s),
         \A m \in Numbers : seen[m].status # "absent" => seen[m] = versions[s][m],
         op \in {"update_version", "submit", "reject"} => seen[n].status # "absent",
         op = "approve" => seen[n].status = "pending_approval",
         op = "activate" => seen[n].status \in Past,
         op = "update_version" => text \in Texts,
         op = "create_version" => /\ text \in Texts /\ row = scripts[s]
                                  /\ n = row.current + 1
  PROVE  IInv'
<1> DEFINE r == [op |-> op, phase |-> "read", script |-> s, n |-> n, text |-> text,
                 campaign |-> k, row |-> row, seen |-> seen, bound |-> Unbound]
<1>1. r \in Requests
  BY DEF Requests, Unbound, Bindings, Nullable
<1>2. tx' \in [Sessions -> Requests \cup {NoRequest}] /\ tx'[x] = r
  BY <1>1 DEF IInv, TypeOK, Begin
<1>3. ASSUME NEW m \in Numbers
      PROVE  /\ seen[m].status # "absent" => Present(s, m) /\ seen[m].text \in Texts
             /\ seen[m].status \in Past => Signed(s, m)
  BY DEF IInv, RowsOK, LiveWasSigned, Past, Present
<1>4. row = scripts[s] => row.current >= 1 /\ row.current <= scripts[s].current
  BY DEF IInv, RowsOK, TypeOK, ScriptRows
<1>5. RequestOK(x)'
  BY <1>2, <1>3, <1>4 DEF RequestOK, Begin, rows, Exists, Present, Signed
<1>6. ASSUME NEW y \in Sessions
      PROVE  tx'[y] = tx[y] \/ RequestOK(y)'
  BY <1>5 DEF IInv, TypeOK, Begin
<1>7. QED
  BY <1>2, <1>6, RowsUnchanged DEF Begin, IInv, TypeOK

\* A script with a version that is present exists.
LEMMA PresentExists ==
  ASSUME IInv, NEW s \in Scripts, NEW n \in Numbers, Present(s, n)
  PROVE  Exists(s)
<1>1. n >= 1 /\ n \in Nat /\ scripts[s].current \in Nat
  BY VersionAssumption DEF Numbers, IInv, TypeOK, ScriptRows
<1>2. n <= scripts[s].current
  BY DEF IInv, VersionsNumbered
<1>3. QED
  BY <1>1, <1>2 DEF IInv, RowsOK

\* Reading a single version, for the operations that read no other.
LEMMA VersionReadKeeps ==
  ASSUME IInv, NEW x \in Sessions, NEW s \in Scripts, NEW n \in Numbers,
         NEW op \in {"update_version", "submit", "approve", "reject"},
         NEW text \in Texts \cup {NoText},
         VersionRead(x, op, s, n, text), Present(s, n),
         op = "approve" => versions[s][n].status = "pending_approval",
         op = "update_version" => text \in Texts
  PROVE  IInv'
<1>1. Exists(s)
  BY PresentExists
<1>2. /\ Only(s, n) \in [Numbers -> VersionRows] /\ NoScript \in ScriptRows
      /\ Only(s, n)[n] = versions[s][n]
      /\ \A m \in Numbers : Only(s, n)[m].status # "absent" =>
           Only(s, n)[m] = versions[s][m]
  BY ReadTypes DEF IInv, Only, NoVersion
<1>3. op \in Operations /\ op # "activate" /\ op # "create_version"
  BY DEF Operations
<1>4. Begin(x, op, s, n, text, NoCampaign, NoScript, Only(s, n))
  BY DEF VersionRead
<1>5. QED
  BY <1>1, <1>2, <1>3, <1>4, BeginKeeps DEF Present

\* Every kind of request begins with what RequestOK asks of it.
LEMMA RequestKeeps ==
  ASSUME IInv, NEW x \in Sessions, NEW s \in Scripts, Request(x, s)
  PROVE  IInv'
<1> USE TextAssumption
<1>1. CASE UpdateScript(x, s)
  <2>1. 1 \in Numbers
    BY VersionAssumption DEF Numbers
  <2>2. \A m \in Numbers : NoVersions[m].status = "absent"
    BY DEF NoVersions, NoVersion
  <2>3. QED
    BY ZenonT(60), <1>1, <2>1, <2>2, ReadTypes, BeginKeeps DEF UpdateScript, IInv, Operations
<1>2. ASSUME NEW text \in Texts, CreateVersion(x, s, text)
      PROVE  IInv'
  <2>1. \A m \in Numbers : NoVersions[m].status = "absent"
    BY DEF NoVersions, NoVersion
  <2>2. QED
    BY ZenonT(60), <1>2, <2>1, ReadTypes, BeginKeeps DEF CreateVersion, Following, IInv, Operations
<1>3. ASSUME NEW n \in Numbers, NEW text \in Texts, UpdateVersion(x, s, n, text)
      PROVE  IInv'
  BY <1>3, VersionReadKeeps DEF UpdateVersion, CanEditVersion, Present
<1>4. ASSUME NEW n \in Numbers, SubmitVersion(x, s, n)
      PROVE  IInv'
  BY <1>4, VersionReadKeeps DEF SubmitVersion, CanTransition, Allowed, Present
<1>5. ASSUME NEW n \in Numbers, ApproveVersion(x, s, n)
      PROVE  IInv'
  BY <1>5, VersionReadKeeps DEF ApproveVersion, CanTransition, Allowed, Present
<1>6. ASSUME NEW n \in Numbers, RejectVersion(x, s, n)
      PROVE  IInv'
  BY <1>6, VersionReadKeeps DEF RejectVersion, CanTransition, Allowed, Present
<1>7. ASSUME NEW n \in Numbers, NEW k \in campaigns \cup {NoCampaign},
             ActivateVersion(x, s, n, k)
      PROVE  IInv'
  <2>0. k \in Campaigns \cup {NoCampaign}
    BY DEF IInv, TypeOK
  <2>1. versions[s][n].status \in Past
    BY <1>7 DEF ActivateVersion, CanTransition, Allowed, Past
  <2>2. Exists(s)
    BY <2>1, PresentExists DEF Past, Present
  <2>3. QED
    BY <1>7, <2>0, <2>1, <2>2, ReadTypes, BeginKeeps DEF ActivateVersion, IInv, Operations
<1>8. QED
  BY <1>1, <1>2, <1>3, <1>4, <1>5, <1>6, <1>7 DEF Request

\* The second read changes nothing RequestOK speaks of.
LEMMA FlushKeeps ==
  ASSUME IInv, NEW x \in Sessions, Flush(x)
  PROVE  IInv'
<1>1. tx[x] \in Requests /\ tx[x].op \in {"approve", "activate"}
  BY InHand DEF Flush, TwoReads, IInv
<1>2. /\ tx'[x] \in Requests /\ tx'[x].op = tx[x].op /\ tx'[x].n = tx[x].n
      /\ tx'[x].script = tx[x].script /\ tx'[x].seen = tx[x].seen
  BY <1>1 DEF Flush, IInv, TypeOK, Requests, TwoReads
<1>3. tx' \in [Sessions -> Requests \cup {NoRequest}]
  BY <1>2 DEF Flush, IInv, TypeOK
<1>4. RequestOK(x)'
  BY <1>1, <1>2 DEF Flush, IInv, RequestOK, rows, Exists, Present, Signed
<1>5. ASSUME NEW y \in Sessions
      PROVE  tx'[y] = tx[y] \/ RequestOK(y)'
  BY <1>4 DEF IInv, TypeOK, Flush
<1>6. editing' = editing /\ editing \in [Sessions -> Edits \cup {NoRequest}]
  BY DEF Flush, IInv, TypeOK
<1>7. QED
  BY <1>3, <1>5, <1>6, RowsUnchanged DEF Flush

\* A request on a campaign that begins, goes on or ends leaves all rows alone.
LEMMA EditingKeeps ==
  ASSUME IInv, UNCHANGED <<schema, rows, tx>>, NEW x \in Sessions,
         NEW e \in Edits \cup {NoRequest}, editing' = [editing EXCEPT ![x] = e],
         EditOK(x)'
  PROVE  IInv'
<1>1. editing' \in [Sessions -> Edits \cup {NoRequest}]
  BY DEF IInv, TypeOK
<1>2. \A y \in Sessions : editing'[y] = editing[y] \/ EditOK(y)'
  BY DEF IInv, TypeOK
<1>3. tx' = tx /\ tx \in [Sessions -> Requests \cup {NoRequest}]
  BY DEF IInv, TypeOK
<1>4. QED
  BY <1>1, <1>2, <1>3, RowsUnchanged

\* The requests on campaigns, up to their commit.
LEMMA CampaignRequestKeeps ==
  ASSUME IInv, NEW x \in Sessions, NEW k \in Campaigns, CampaignRequest(x, k)
  PROVE  IInv'
<1>1. ASSUME NEW op \in {"update", "bind"}, NEW phase \in {"read", "checked"},
             NEW new \in Bindings, BeginEdit(x, op, phase, k, new),
             op = "bind" => phase = "read" /\ new.version # {}
      PROVE  IInv'
  <2> DEFINE e == [op |-> op, phase |-> phase, campaign |-> k, new |-> new,
                   read |-> bound[k]]
  <2>1. e \in Edits
    BY DEF Edits, IInv, TypeOK
  <2>2. editing' = [editing EXCEPT ![x] = e] /\ UNCHANGED <<schema, rows, tx>>
    BY <1>1 DEF BeginEdit
  <2>3. editing'[x] = e
    BY <2>2 DEF IInv, TypeOK
  <2>4. EditOK(x)'
    BY <1>1, <2>3 DEF EditOK
  <2>5. QED
    BY <2>1, <2>2, <2>4, EditingKeeps
<1>2. ASSUME NEW b \in Payloads, UpdateCampaign(x, k, b)
      PROVE  IInv'
  BY <1>1, <1>2, PayloadAssumption DEF UpdateCampaign
<1>3. ASSUME NEW s \in Scripts, NEW v \in Scripts \X Numbers, BindScript(x, k, s, v)
      PROVE  IInv'
  <2> DEFINE b == [script |-> {s}, version |-> {v}]
  <2>1. {s} \in Nullable(Scripts) /\ {v} \in Nullable(Scripts \X Numbers)
    BY DEF Nullable
  <2>2. b \in Bindings /\ b.version # {}
    BY <2>1 DEF Bindings
  <2>3. BeginEdit(x, "bind", "read", k, b)
    BY <1>3 DEF BindScript
  <2>4. QED
    BY <1>1, <2>2, <2>3
<1>4. QED
  BY <1>2, <1>3 DEF CampaignRequest

\* The version is checked: what is approved or active was signed.
LEMMA CheckKeeps ==
  ASSUME IInv, NEW x \in Sessions, CheckVersion(x)
  PROVE  IInv'
<1> DEFINE e == editing[x]
           f == [e EXCEPT !.phase = "checked"]
<1>1. e \in Edits
  BY DEF CheckVersion, IInv, TypeOK
<1>2. f \in Edits /\ editing' = [editing EXCEPT ![x] = f]
      /\ UNCHANGED <<schema, rows, tx>> /\ versions' = versions
  BY <1>1 DEF CheckVersion, Edits, rows
<1>3. editing'[x] = f /\ f.new = e.new /\ f.op = e.op
  BY <1>1, <1>2 DEF IInv, TypeOK, Edits
<1>4. e.op = "bind" => e.new.version # {}
  BY DEF IInv, EditOK, CheckVersion
<1>5. ASSUME NEW v \in e.new.version
      PROVE  versions[v[1]][v[2]].signed # NoText
  <2>1. v \in Scripts \X Numbers
    BY <1>1 DEF Edits, Bindings, Nullable
  <2>2. v[1] \in Scripts /\ v[2] \in Numbers
    BY <2>1
  <2>3. versions[v[1]][v[2]].status \in {"approved", "active"}
    BY DEF CheckVersion
  <2>4. QED
    BY <2>2, <2>3 DEF IInv, LiveWasSigned, Signed
<1>6. EditOK(x)'
  BY <1>2, <1>3, <1>4, <1>5 DEF EditOK
<1>7. QED
  BY <1>2, <1>6, EditingKeeps

\* It ends, with the campaign as it was.
LEMMA EndEditKeeps ==
  ASSUME IInv, NEW x \in Sessions, EndEdit(x)
  PROVE  IInv'
<1>1. editing'[x] = NoRequest
  BY DEF EndEdit, IInv, TypeOK
<1>2. EditOK(x)'
  BY <1>1 DEF EditOK
<1>3. QED
  BY <1>2, EditingKeeps DEF EndEdit

\* A campaign's columns may change under all other requests.
LEMMA BoundKeeps ==
  ASSUME IInv, UNCHANGED <<schema, scripts, versions, activations, outbox, tx>>,
         campaigns' \subseteq Campaigns, bound' \in [Campaigns -> Bindings],
         editing' \in [Sessions -> Edits \cup {NoRequest}],
         \A x \in Sessions : editing'[x] \in {editing[x], NoRequest}
  PROVE  IInv'
<1>1. TypeOK'
  BY DEF IInv, TypeOK
<1>2. RowsOK' /\ VersionsNumbered' /\ LiveWasSigned'
  BY DEF IInv, RowsOK, VersionsNumbered, LiveWasSigned, Exists, Present, Signed
<1>3. ASSUME NEW x \in Sessions
      PROVE  RequestOK(x)'
  BY DEF IInv, RequestOK, Exists, Present, Signed
<1>4. ASSUME NEW x \in Sessions
      PROVE  EditOK(x)'
  BY DEF IInv, EditOK
<1>5. QED
  BY <1>1, <1>2, <1>3, <1>4 DEF IInv

\* A column written differs from what was read, or stays.
LEMMA ColumnsTyped ==
  ASSUME NEW b \in Bindings, NEW read, NEW new \in Bindings
  PROVE  [script  |-> Column(read.script, new.script, b.script),
          version |-> Column(read.version, new.version, b.version)] \in Bindings
<1>1. /\ Column(read.script, new.script, b.script) \in Nullable(Scripts)
      /\ Column(read.version, new.version, b.version) \in Nullable(Scripts \X Numbers)
  BY DEF Bindings, Column
<1>2. QED
  BY <1>1 DEF Bindings

\* Creating a campaign, and committing to one.
LEMMA CampaignWrites ==
  ASSUME IInv,
         \/ \E k \in Campaigns, b \in Payloads \cup {Unbound} : CreateCampaign(k, b)
         \/ \E x \in Sessions : CommitCampaign(x)
  PROVE  IInv'
<1>1. ASSUME NEW k \in Campaigns, NEW b \in Payloads \cup {Unbound}, CreateCampaign(k, b)
      PROVE  IInv'
  <2>1. b \in Bindings
    BY PayloadAssumption DEF Unbound, Bindings, Nullable
  <2>2. QED
    BY <1>1, <2>1, BoundKeeps DEF CreateCampaign, IInv, TypeOK
<1>2. ASSUME NEW x \in Sessions, CommitCampaign(x)
      PROVE  IInv'
  <2> DEFINE e == editing[x]
             b == bound[e.campaign]
             c == [script  |-> Column(e.read.script, e.new.script, b.script),
                   version |-> Column(e.read.version, e.new.version, b.version)]
  <2>1. e \in Edits
    BY <1>2 DEF CommitCampaign, IInv, TypeOK
  <2>2. e.campaign \in Campaigns /\ e.new \in Bindings /\ b \in Bindings
    BY <2>1 DEF Edits, IInv, TypeOK
  <2>3. c \in Bindings
    BY <2>2, ColumnsTyped
  <2>4. bound' = [bound EXCEPT ![e.campaign] = c]
    BY <1>2 DEF CommitCampaign
  <2>5. bound' \in [Campaigns -> Bindings]
    BY <2>2, <2>3, <2>4 DEF IInv, TypeOK
  <2>6. /\ editing' \in [Sessions -> Edits \cup {NoRequest}]
        /\ \A y \in Sessions : editing'[y] \in {editing[y], NoRequest}
    BY <1>2 DEF CommitCampaign, IInv, TypeOK
  <2>7. QED
    BY <1>2, <2>5, <2>6, BoundKeeps DEF CommitCampaign, IInv, TypeOK
<1>3. QED
  BY <1>1, <1>2

-----------------------------------------------------------------------------
(* Steps that write rows. *)

\* From row v to row w a version may gain a text, a status or a signature, and
\* loses none; what is past its approval is signed.
Grows(v, w) ==
  /\ w \in VersionRows
  /\ v.status # "absent" => w.status # "absent"
  /\ v.signed # NoText => w.signed # NoText
  /\ w.status # "absent" => w.text \in Texts
  /\ w.signed # NoText => w.status # "absent"
  /\ w.status \in Past => w.signed # NoText

\* A row that is left alone grows.
LEMMA SameGrows ==
  ASSUME IInv, NEW s \in Scripts, NEW n \in Numbers
  PROVE  Grows(versions[s][n], versions[s][n])
BY DEF IInv, TypeOK, RowsOK, LiveWasSigned, Grows, Past, Present, Signed

\* A version that a request has read as present is so still.
LEMMA SeenStands ==
  ASSUME IInv, NEW x \in Sessions, tx[x] # NoRequest, NEW n \in Numbers,
         tx[x].seen[n].status # "absent"
  PROVE  /\ versions[tx[x].script][n].status # "absent"
         /\ tx[x].seen[n].text \in Texts
         /\ tx[x].seen[n].status \in Past =>
              versions[tx[x].script][n].signed # NoText
BY DEF IInv, RequestOK, Present, Signed

\* Each version of the script whose request commits grows, and the only one
\* that appears is the one create_version inserts.
LEMMA VersionAfterGrows ==
  ASSUME IInv, NEW x \in Sessions, tx[x] # NoRequest, NEW n \in Numbers
  PROVE  LET v == versions[tx[x].script][n]
             w == VersionAfter(x, n)
         IN  /\ Grows(v, w)
             /\ w.status # "absent" <=>
                  \/ v.status # "absent"
                  \/ tx[x].op = "create_version" /\ n = tx[x].n
<1> USE TextAssumption
<1> DEFINE r == tx[x]
           v == versions[r.script][n]
           w == VersionAfter(x, n)
<1>1. r \in Requests
  BY InHand DEF IInv
<1>2. r.script \in Scripts /\ r.n \in Numbers /\ r.op \in Operations
  BY <1>1 DEF Requests
<1>3. v \in VersionRows /\ Grows(v, v)
  BY <1>2, SameGrows DEF IInv, TypeOK
<1>4. CASE n \in Archives(x)
  <2>1. r.op = "activate" /\ r.seen[n].status = "active" /\ n # r.n
    BY <1>4 DEF Archives
  <2>2. v.status # "absent" /\ v.signed # NoText
    BY <2>1, SeenStands DEF Past
  <2>3. w = [status |-> "archived", text |-> v.text, signed |-> v.signed]
    BY <1>4, <2>1 DEF VersionAfter
  <2>4. v.text \in Texts \cup {NoText} /\ v.signed \in Texts \cup {NoText}
        /\ (v.status # "absent" => v.text \in Texts)
    BY <1>3 DEF Grows, VersionRows
  <2>5. w \in VersionRows
    BY <2>3, <2>4 DEF VersionRows, VersionStatuses
  <2>6. w.status = "archived" /\ w.text = v.text /\ w.signed = v.signed
    BY <2>3
  <2>7. QED
    BY <2>2, <2>4, <2>5, <2>6 DEF Grows, Past
<1>5. CASE n \notin Archives(x) /\ n # r.n
  <2>1. w = [status |-> v.status, text |-> v.text, signed |-> v.signed]
    BY <1>5 DEF VersionAfter
  <2>2. QED
    BY <1>3, <1>5, <2>1 DEF Grows, VersionRows
<1>6. CASE n \notin Archives(x) /\ n = r.n
  <2>1. CASE r.op = "create_version"
    <3>1. w = [status |-> "draft", text |-> r.text, signed |-> v.signed]
      BY <1>6, <2>1 DEF VersionAfter
    <3>2. r.text \in Texts
      BY <2>1 DEF IInv, RequestOK
    <3>3. QED
      <4>1. w.status = "draft" /\ w.text = r.text /\ w.signed = v.signed
        BY <3>1
      <4>2. w \in VersionRows
        BY <1>3, <3>1, <3>2 DEF VersionRows, VersionStatuses
      <4>3. QED
        BY <1>6, <2>1, <3>2, <4>1, <4>2 DEF Grows, Past
  <2>2. CASE r.op = "update_version"
    <3>1. ~Moves(x)
      BY <2>2 DEF Moves, NewStatus
    <3>2. w.status = v.status /\ w.signed = v.signed /\ w.text \in {v.text, r.text}
          /\ w = [status |-> w.status, text |-> w.text, signed |-> w.signed]
      BY <1>6, <2>2, <3>1 DEF VersionAfter
    <3>3. r.text \in Texts /\ r.seen[r.n].status # "absent"
      BY <2>2 DEF IInv, RequestOK
    <3>4. v.status # "absent"
      BY <1>6, <3>3, SeenStands
    <3>5. QED
      BY <1>3, <2>2, <3>2, <3>3, <3>4 DEF Grows, VersionRows
  <2>3. CASE r.op = "approve"
    <3>1. r.seen[n].status = "pending_approval"
      BY <1>6, <2>3 DEF IInv, RequestOK
    <3>2. v.status # "absent" /\ r.seen[n].text \in Texts
      BY <3>1, SeenStands
    <3>3. Moves(x) /\ NewStatus[r.op] = "approved" /\ ~Rewrites(x)
      BY <1>6, <2>3, <3>1 DEF Moves, Seen, NewStatus, Rewrites
    <3>4. w = [status |-> "approved", text |-> v.text, signed |-> r.seen[n].text]
      BY <1>6, <2>3, <3>3 DEF VersionAfter
    <3>5. QED
      BY <1>3, <2>3, <3>2, <3>4 DEF Grows, VersionRows, VersionStatuses
  <2>4. CASE r.op \in {"submit", "reject", "activate"}
    <3>1. r.seen[n].status # "absent"
          /\ (r.op = "activate" => r.seen[n].status \in Past)
      BY <1>6, <2>4 DEF IInv, RequestOK, Past
    <3>2. v.status # "absent" /\ (r.op = "activate" => v.signed # NoText)
      BY <3>1, SeenStands
    <3>3. NewStatus[r.op] \in VersionStatuses /\ NewStatus[r.op] # "absent"
          /\ (NewStatus[r.op] \in Past => r.op = "activate")
      BY <2>4 DEF NewStatus, VersionStatuses, Past
    <3>4. w = [status |-> w.status, text |-> v.text, signed |-> v.signed]
          /\ w.status \in {v.status, NewStatus[r.op]}
      BY <1>6, <2>4 DEF VersionAfter, Rewrites
    <3>5. QED
      BY <1>3, <2>4, <3>2, <3>3, <3>4 DEF Grows, VersionRows
  <2>5. CASE r.op = "update_script"
    <3>1. ~Moves(x) /\ ~Rewrites(x)
      BY <2>5 DEF Moves, Rewrites, NewStatus
    <3>2. w = [status |-> v.status, text |-> v.text, signed |-> v.signed]
      BY <1>6, <2>5, <3>1 DEF VersionAfter
    <3>3. QED
      BY <1>3, <2>5, <3>2 DEF Grows, VersionRows
  <2>6. QED
    BY <1>2, <2>1, <2>2, <2>3, <2>4, <2>5 DEF Operations
<1>7. QED
  BY <1>4, <1>5, <1>6

\* When rows only grow, what the other requests have read stays valid.
LEMMA GrowthKeepsRequests ==
  ASSUME IInv, TypeOK', NEW x \in Sessions,
         tx' = [tx EXCEPT ![x] = NoRequest] \/ tx' = tx,
         \A s \in Scripts : \A n \in Numbers : Grows(versions[s][n], versions'[s][n]),
         \A s \in Scripts : Exists(s) =>
           Exists(s)' /\ scripts'[s].current >= scripts[s].current
  PROVE  \A y \in Sessions : RequestOK(y)'
<1> SUFFICES ASSUME NEW y \in Sessions, tx'[y] # NoRequest
             PROVE  RequestOK(y)'
  BY DEF RequestOK
<1>1. tx'[y] = tx[y]
  BY DEF IInv, TypeOK
<1>2. tx[y] \in Requests /\ RequestOK(y)
  BY <1>1, InHand DEF IInv
<1>3. tx[y].script \in Scripts /\ tx[y].row.current \in Nat
  BY <1>2, VersionAssumption DEF Requests, ScriptRows
<1>4. PICK s \in Scripts : s = tx[y].script
  BY <1>3
<1>5. /\ Exists(s) /\ Exists(s)'
      /\ scripts'[s].current >= scripts[s].current
      /\ scripts'[s].current \in Nat /\ scripts[s].current \in Nat
  BY <1>1, <1>2, <1>4, VersionAssumption DEF RequestOK, IInv, TypeOK, ScriptRows
<1>6. ASSUME NEW n \in Numbers
      PROVE  /\ Present(s, n) => Present(s, n)'
             /\ Signed(s, n) => Signed(s, n)'
  BY DEF Grows, Present, Signed
<1>7. tx'[y].script = s
  BY <1>1, <1>4
<1> PICK r : r = tx[y]
  OBVIOUS
<1>8. tx'[y] = r /\ tx[y] = r /\ r # NoRequest /\ r.script = s
  BY <1>1, <1>2, <1>4
<1>9. /\ \A n \in Numbers :
           /\ r.seen[n].status # "absent" => Present(s, n)' /\ r.seen[n].text \in Texts
           /\ r.seen[n].status \in Past => Signed(s, n)'
  BY <1>2, <1>6, <1>8 DEF RequestOK
<1>10. r.op = "create_version" => r.row.current <= scripts'[s].current
  BY <1>2, <1>3, <1>5, <1>8 DEF RequestOK
<1>11. QED
  BY <1>2, <1>5, <1>8, <1>9, <1>10 DEF RequestOK

\* Likewise what a bind_script has checked.
LEMMA GrowthKeepsEdits ==
  ASSUME IInv, editing' = editing,
         \A s \in Scripts : \A n \in Numbers : Grows(versions[s][n], versions'[s][n])
  PROVE  \A y \in Sessions : EditOK(y)'
<1> SUFFICES ASSUME NEW y \in Sessions, editing[y] # NoRequest,
                    editing[y].op = "bind"
             PROVE  EditOK(y)'
  BY DEF EditOK
<1>1. editing[y] \in Edits
  BY DEF IInv, TypeOK
<1>2. ASSUME NEW v \in editing[y].new.version, versions[v[1]][v[2]].signed # NoText
      PROVE  versions'[v[1]][v[2]].signed # NoText
  <2>1. v \in Scripts \X Numbers
    BY <1>1 DEF Edits, Bindings, Nullable
  <2>2. v[1] \in Scripts /\ v[2] \in Numbers
    BY <2>1
  <2>3. QED
    BY <1>2, <2>2 DEF Grows
<1>3. QED
  BY <1>2 DEF IInv, EditOK

\* What growth alone says of the rows: every conjunct on single versions.
LEMMA GrowthKeepsVersions ==
  ASSUME \A s \in Scripts : \A n \in Numbers : Grows(versions[s][n], versions'[s][n])
  PROVE  \A s \in Scripts : \A n \in Numbers :
           /\ Present(s, n)' => versions'[s][n].text \in Texts
           /\ Signed(s, n)' => Present(s, n)'
           /\ Present(s, n) => Present(s, n)'
           /\ Signed(s, n) => Signed(s, n)'
           /\ versions'[s][n].status \in Past => Signed(s, n)'
BY DEF Grows, Present, Signed

\* A script that does not exist has no version.
LEMMA NothingBeforeExists ==
  ASSUME IInv, NEW s \in Scripts, ~Exists(s), NEW n \in Numbers
  PROVE  ~Present(s, n)
BY PresentExists

\* Creating or duplicating a script adds it with one draft.
LEMMA InsertKeeps ==
  ASSUME IInv, NEW s \in Scripts, NEW text \in Texts, NEW event,
         event \subseteq {<<"created", s, 1>>}, Insert(s, text, event)
  PROVE  IInv'
<1> USE VersionAssumption
<1> DEFINE grown == \A t \in Scripts : \A n \in Numbers :
                      Grows(versions[t][n], versions'[t][n])
<1>1. 1 \in Numbers /\ NewScript \in ScriptRows /\ Draft(text) \in VersionRows
  BY DEF Numbers, NewScript, ScriptRows, Draft, VersionRows, VersionStatuses
<1>2. ASSUME NEW t \in Scripts, NEW n \in Numbers
      PROVE  versions'[t][n] = IF t = s /\ n = 1 THEN Draft(text) ELSE versions[t][n]
  BY <1>1 DEF Insert, IInv, TypeOK
<1>3. TypeOK'
  <2>1. outbox' \subseteq {"created", "version_created"} \X Scripts \X Numbers
    BY <1>1 DEF Insert, IInv, TypeOK
  <2>2. versions' \in [Scripts -> [Numbers -> VersionRows]]
    BY <1>1 DEF Insert, IInv, TypeOK
  <2>3. QED
    BY <1>1, <2>1, <2>2 DEF Insert, IInv, TypeOK
<1>4. grown
  <2> SUFFICES ASSUME NEW t \in Scripts, NEW n \in Numbers
               PROVE  Grows(versions[t][n], versions'[t][n])
    OBVIOUS
  <2>1. CASE t = s /\ n = 1
    <3>1. ~Present(s, 1) /\ ~Signed(s, 1)
      BY <1>1, NothingBeforeExists DEF Insert, IInv, RowsOK
    <3>2. versions'[t][n] = Draft(text)
      BY <1>2, <2>1
    <3>3. QED
      BY <1>1, <2>1, <3>1, <3>2 DEF Grows, Draft, Present, Signed, Past
  <2>2. CASE ~(t = s /\ n = 1)
    BY <1>2, <2>2, SameGrows
  <2>3. QED
    BY <2>1, <2>2
<1>5. ASSUME NEW t \in Scripts
      PROVE  scripts'[t] = IF t = s THEN NewScript ELSE scripts[t]
  BY DEF Insert, IInv, TypeOK
<1>6. RowsOK'
  <2>1. ASSUME NEW t \in Scripts
        PROVE  Exists(t)' <=> scripts'[t].current >= 1
    BY <1>5 DEF IInv, RowsOK, Exists, NewScript
  <2>2. QED
    BY <1>4, <2>1, GrowthKeepsVersions DEF RowsOK
<1>7. VersionsNumbered'
  <2> SUFFICES ASSUME NEW t \in Scripts, NEW n \in Numbers
               PROVE  /\ Present(t, n)' <=> n <= scripts'[t].current
                      /\ <<"version_created", t, n>> \in outbox' <=>
                           n > 1 /\ Present(t, n)'
    BY ZenonT(60) DEF VersionsNumbered, Present
  <2>1. /\ Present(t, n) <=> n <= scripts[t].current
        /\ <<"version_created", t, n>> \in outbox <=> n > 1 /\ Present(t, n)
    BY DEF IInv, VersionsNumbered
  <2>2. <<"version_created", t, n>> \in outbox' <=> <<"version_created", t, n>> \in outbox
    BY DEF Insert
  <2>3. n \in Nat /\ n >= 1
    BY DEF Numbers
  <2>4. CASE t = s
    <3>1. ~Present(t, n)
      BY <2>4, NothingBeforeExists DEF Insert
    <3>2. Present(t, n)' <=> n = 1
      BY <1>2, <2>4, <3>1 DEF Present, Draft
    <3>3. scripts'[t].current = 1
      BY <1>5, <2>4 DEF NewScript
    <3>4. QED
      BY <2>1, <2>2, <2>3, <3>1, <3>2, <3>3
  <2>5. CASE t # s
    <3>1. (Present(t, n)' <=> Present(t, n)) /\ scripts'[t] = scripts[t]
      BY <1>2, <1>5, <2>5 DEF Present
    <3>2. QED
      BY <2>1, <2>2, <3>1
  <2>6. QED
    BY <2>4, <2>5
<1>8. LiveWasSigned'
  <2>1. \A t \in Scripts : scripts'[t].active = IF t = s THEN 0 ELSE scripts[t].active
    BY <1>5 DEF NewScript
  <2>2. ASSUME NEW t \in Scripts, scripts[t].active # 0
        PROVE  scripts[t].active \in Numbers
    BY <2>2 DEF IInv, TypeOK, ScriptRows, Numbers
  <2>3. QED
    BY <1>4, <2>1, <2>2, GrowthKeepsVersions DEF IInv, LiveWasSigned, Past
<1>9. \A y \in Sessions : RequestOK(y)'
  <2>1. CASE Sessions = {}
    BY <2>1
  <2>2. CASE Sessions # {}
    <3>1. \A t \in Scripts : Exists(t) =>
            Exists(t)' /\ scripts'[t].current >= scripts[t].current
      BY <1>5 DEF Insert, Exists, IInv, TypeOK, ScriptRows
    <3>2. QED
      BY <1>3, <1>4, <2>2, <3>1, GrowthKeepsRequests DEF Insert
  <2>3. QED
    BY <2>1, <2>2
<1>10. \A y \in Sessions : EditOK(y)'
  BY <1>4, GrowthKeepsEdits DEF Insert
<1>11. QED
  BY <1>3, <1>6, <1>7, <1>8, <1>9, <1>10 DEF IInv

\* The script row a commit writes: current_version moves only with
\* create_version, to the number inserted, and the pointer only to the version
\* being activated, or stays.
LEMMA ScriptAfterOK ==
  ASSUME IInv, NEW x \in Sessions, tx[x] # NoRequest, ~Refused(x)
  PROVE  LET r == tx[x]
             s == scripts[r.script]
             w == ScriptAfter(x)
         IN  /\ w \in ScriptRows /\ w.status # "absent"
             /\ r.op = "create_version" => w.current = r.n /\ r.n = s.current + 1
             /\ r.op # "create_version" => w.current = s.current
             /\ \/ w.active = s.active
                \/ r.op = "activate" /\ w.active = r.n
<1> USE VersionAssumption
<1> DEFINE r == tx[x]
           s == scripts[r.script]
           w == ScriptAfter(x)
<1>1. r \in Requests /\ RequestOK(x)
  BY InHand DEF IInv
<1>2. r.script \in Scripts /\ r.n \in Numbers /\ r.row \in ScriptRows
  BY <1>1 DEF Requests
<1>3. s \in ScriptRows /\ s.status # "absent"
  BY <1>1, <1>2 DEF IInv, TypeOK, RequestOK, Exists
<1>4. r.op = "create_version" => r.n = s.current + 1 /\ r.n = r.row.current + 1
  <2> SUFFICES ASSUME r.op = "create_version"
               PROVE  r.n = s.current + 1 /\ r.n = r.row.current + 1
    OBVIOUS
  <2>1. ~Present(r.script, r.n)
    BY DEF Refused, Present
  <2>2. ~(r.n <= s.current)
    BY <1>2, <2>1 DEF IInv, VersionsNumbered
  <2>3. r.n = r.row.current + 1 /\ r.row.current <= s.current
    BY <1>1 DEF RequestOK
  <2>4. s.current \in Nat /\ r.row.current \in Nat
    BY <1>2, <1>3 DEF ScriptRows
  <2>5. QED
    BY <2>2, <2>3, <2>4
<1>5. /\ w.status \in {s.status, "active", "approved"}
      /\ w.current = IF r.op = "create_version" THEN r.row.current + 1 ELSE s.current
      /\ w.active \in {s.active, r.n} /\ (w.active # s.active => r.op = "activate")
      /\ w.version \in {s.version, r.row.version + 1}
      /\ w = [status |-> w.status, current |-> w.current,
              active |-> w.active, version |-> w.version]
  BY DEF ScriptAfter, Column
<1>6. w \in ScriptRows /\ w.status # "absent"
  BY <1>2, <1>3, <1>4, <1>5 DEF ScriptRows, Numbers
<1>7. QED
  BY <1>4, <1>5, <1>6

\* The commit of a request: all its rows at once.
LEMMA CommitKeeps ==
  ASSUME IInv, NEW x \in Sessions, Commit(x)
  PROVE  IInv'
<1> USE VersionAssumption
<1> DEFINE r == tx[x]
           t == r.script
<1>1. /\ r # NoRequest /\ ~Refused(x) /\ r \in Requests /\ RequestOK(x)
      /\ t \in Scripts /\ r.n \in Numbers /\ r.op \in Operations
      /\ r.campaign \in Campaigns \cup {NoCampaign}
  BY InHand DEF Commit, Ready, IInv, Requests
<1>2. ASSUME NEW s \in Scripts, NEW n \in Numbers
      PROVE  versions'[s][n] = IF s = t THEN VersionAfter(x, n) ELSE versions[s][n]
  BY <1>1 DEF Commit, IInv, TypeOK
<1>3. ASSUME NEW s \in Scripts
      PROVE  scripts'[s] = IF s = t THEN ScriptAfter(x) ELSE scripts[s]
  BY <1>1 DEF Commit, IInv, TypeOK
<1>4. ASSUME NEW s \in Scripts, NEW n \in Numbers
      PROVE  Grows(versions[s][n], versions'[s][n])
  BY <1>1, <1>2, VersionAfterGrows, SameGrows
<1>5. /\ ScriptAfter(x) \in ScriptRows /\ ScriptAfter(x).status # "absent"
      /\ r.op = "create_version" => /\ ScriptAfter(x).current = r.n
                                    /\ r.n = scripts[t].current + 1
      /\ r.op # "create_version" => ScriptAfter(x).current = scripts[t].current
      /\ \/ ScriptAfter(x).active = scripts[t].active
         \/ r.op = "activate" /\ ScriptAfter(x).active = r.n
  BY <1>1, ScriptAfterOK
<1>6. ASSUME NEW k \in Campaigns
      PROVE  /\ bound'[k] \in Bindings
             /\ \A v \in bound'[k].version :
                  \/ v \in bound[k].version
                  \/ r.op = "activate" /\ k = r.campaign /\ v = <<t, r.n>>
  <2>1. bound'[k] = BoundAfter(x, k) /\ bound[k] \in Bindings
    BY DEF Commit, IInv, TypeOK
  <2>2. CASE r.op = "activate" /\ k = r.campaign
    <3> DEFINE new == [script |-> {t}, version |-> {<<t, r.n>>}]
    <3>1. bound'[k] = [script  |-> Column(r.bound.script, new.script, bound[k].script),
                       version |-> Column(r.bound.version, new.version, bound[k].version)]
      BY <2>1, <2>2 DEF BoundAfter
    <3>2. bound'[k].version \in {new.version, bound[k].version}
      BY <3>1 DEF Column
    <3>3. bound'[k] \in Bindings
      <4>1. {t} \in Nullable(Scripts) /\ {<<t, r.n>>} \in Nullable(Scripts \X Numbers)
        BY <1>1 DEF Nullable
      <4>2. new \in Bindings
        BY <4>1 DEF Bindings
      <4>3. QED
        BY <2>1, <3>1, <4>2, ColumnsTyped
    <3>4. QED
      BY <2>2, <3>2, <3>3
  <2>3. CASE ~(r.op = "activate" /\ k = r.campaign)
    BY <2>1, <2>3 DEF BoundAfter
  <2>4. QED
    BY <2>2, <2>3
<1>7. TypeOK'
  <2>1. scripts' \in [Scripts -> ScriptRows]
    BY <1>1, <1>5 DEF Commit, IInv, TypeOK
  <2>2. versions' \in [Scripts -> [Numbers -> VersionRows]]
    <3>1. [n \in Numbers |-> VersionAfter(x, n)] \in [Numbers -> VersionRows]
      BY <1>1, VersionAfterGrows DEF Grows
    <3>2. QED
      BY <1>1, <3>1 DEF Commit, IInv, TypeOK
  <2>3. bound' \in [Campaigns -> Bindings]
    BY <1>6 DEF Commit
  <2>4. activations' \subseteq Scripts \X Numbers \X (Campaigns \cup {NoCampaign})
    BY <1>1 DEF Commit, IInv, TypeOK, Recorded
  <2>5. outbox' \subseteq {"created", "version_created"} \X Scripts \X Numbers
    BY <1>1 DEF Commit, IInv, TypeOK, Published
  <2>6. tx' \in [Sessions -> Requests \cup {NoRequest}]
    BY DEF Commit, IInv, TypeOK
  <2>7. QED
    BY <2>1, <2>2, <2>3, <2>4, <2>5, <2>6 DEF Commit, IInv, TypeOK
<1>8. ASSUME NEW s \in Scripts
      PROVE  /\ scripts[s].current \in Nat /\ scripts'[s].current \in Nat
             /\ scripts'[s].current >= scripts[s].current
             /\ Exists(s) => Exists(s)'
             /\ Exists(s)' <=> scripts'[s].current >= 1
  <2>1. scripts[s].current \in Nat /\ scripts'[s].current \in Nat
    BY <1>7 DEF IInv, TypeOK, ScriptRows
  <2>2. Exists(t) /\ scripts[t].current >= 1
    BY <1>1 DEF RequestOK, IInv, RowsOK
  <2>3. QED
    BY <1>1, <1>3, <1>5, <2>1, <2>2 DEF IInv, RowsOK, Exists
<1>9. RowsOK'
  BY <1>4, <1>8, GrowthKeepsVersions DEF RowsOK
<1>10. VersionsNumbered'
  <2> SUFFICES ASSUME NEW s \in Scripts, NEW n \in Numbers
               PROVE  /\ Present(s, n)' <=> n <= scripts'[s].current
                      /\ <<"version_created", s, n>> \in outbox' <=>
                           n > 1 /\ Present(s, n)'
    BY ZenonT(60) DEF VersionsNumbered, Present
  <2> DEFINE new == r.op = "create_version" /\ s = t /\ n = r.n
  <2>1. /\ Present(s, n) <=> n <= scripts[s].current
        /\ <<"version_created", s, n>> \in outbox <=> n > 1 /\ Present(s, n)
    BY DEF IInv, VersionsNumbered
  <2>2. <<"version_created", s, n>> \in outbox' <=>
          <<"version_created", s, n>> \in outbox \/ new
    BY DEF Commit, Published
  <2>3. Present(s, n)' <=> Present(s, n) \/ new
    BY <1>1, <1>2, VersionAfterGrows DEF Present
  <2>4. scripts'[s].current =
          IF r.op = "create_version" /\ s = t THEN r.n ELSE scripts[s].current
    BY <1>3, <1>5
  <2>5. n \in Nat /\ n >= 1 /\ r.n \in Nat
    BY <1>1 DEF Numbers
  <2>6. new => n > 1
    BY <1>1, <1>5, <1>8, <2>5 DEF RequestOK, IInv, RowsOK
  <2>7. QED
    BY <1>5, <1>8, <2>1, <2>2, <2>3, <2>4, <2>5, <2>6
<1>11. r.op = "activate" => Signed(t, r.n) /\ <<t, r.n, r.campaign>> \in activations'
  BY <1>1 DEF RequestOK, Commit, Recorded
<1>12. LiveWasSigned'
  <2>1. ASSUME NEW s \in Scripts, scripts'[s].active # 0
        PROVE  Signed(s, scripts[s].active)'
    <3>1. scripts'[s].active \in Numbers
      BY <1>7, <2>1 DEF TypeOK, ScriptRows, Numbers
    <3>2. Signed(s, scripts'[s].active)
      BY <1>3, <1>5, <1>11, <2>1 DEF IInv, LiveWasSigned
    <3>3. PICK n \in Numbers : n = scripts'[s].active
      BY <3>1
    <3>4. Signed(s, n)'
      BY <1>4, <3>2, <3>3, GrowthKeepsVersions
    <3>5. QED
      BY <3>3, <3>4 DEF Signed
  <2>2. QED
    BY <1>4, <2>1, GrowthKeepsVersions DEF LiveWasSigned, Past
<1>13. \A y \in Sessions : EditOK(y)'
  BY <1>4, GrowthKeepsEdits DEF Commit
<1>14. \A y \in Sessions : RequestOK(y)'
  BY <1>4, <1>7, <1>8, GrowthKeepsRequests DEF Commit
<1>15. QED
  BY <1>7, <1>9, <1>10, <1>12, <1>13, <1>14 DEF IInv

-----------------------------------------------------------------------------
(* The invariant. *)

\* The empty tables satisfy it.
LEMMA InitOK == Init => IInv
<1> SUFFICES ASSUME Init PROVE IInv
  OBVIOUS
<1> USE VersionAssumption
<1>1. NoScript \in ScriptRows /\ NoVersion \in VersionRows /\ Unbound \in Bindings
  BY DEF NoScript, ScriptRows, NoVersion, VersionRows, Unbound, Bindings, Nullable
<1>2. TypeOK
  BY <1>1 DEF Init, TypeOK
<1>3. /\ \A s \in Scripts : ~Exists(s) /\ scripts[s].current = 0 /\ scripts[s].active = 0
      /\ \A s \in Scripts : \A n \in Numbers :
           ~Present(s, n) /\ ~Signed(s, n) /\ versions[s][n].status \notin Past
  BY DEF Init, NoScript, NoVersion, Exists, Present, Signed, Past
<1>4. RowsOK
  BY <1>3 DEF RowsOK
<1>5. VersionsNumbered
  BY <1>3 DEF Init, VersionsNumbered, Numbers
<1>6. LiveWasSigned
  BY <1>3 DEF LiveWasSigned, Past
<1>7. \A x \in Sessions : RequestOK(x) /\ EditOK(x)
  BY DEF Init, RequestOK, EditOK
<1>8. QED
  BY <1>2, <1>4, <1>5, <1>6, <1>7 DEF IInv

\* Every step keeps it.
LEMMA NextKeeps == IInv /\ [Next]_vars => IInv'
<1> SUFFICES ASSUME IInv, [Next]_vars PROVE IInv'
  OBVIOUS
<1> USE TextAssumption
<1>1. ASSUME NEW s \in Scripts, NEW text \in Texts, CreateScript(s, text)
      PROVE  IInv'
  BY <1>1, InsertKeeps DEF CreateScript
<1>2. ASSUME NEW s \in Scripts, NEW copy \in Scripts, DuplicateScript(s, copy)
      PROVE  IInv'
  <2> DEFINE n == IF scripts[s].active # 0 THEN scripts[s].active ELSE scripts[s].current
  <2>1. n \in Numbers /\ Present(s, n)
    <3>1. /\ scripts[s].current \in Numbers /\ scripts[s].current >= 1
          /\ scripts[s].active # 0 => scripts[s].active \in Numbers
      BY <1>2, VersionAssumption
      DEF DuplicateScript, IInv, TypeOK, RowsOK, ScriptRows, Numbers
    <3>2. CASE scripts[s].active # 0
      BY <3>1, <3>2 DEF IInv, LiveWasSigned, RowsOK
    <3>3. CASE scripts[s].active = 0
      <4>1. scripts[s].current <= scripts[s].current
        BY <3>1 DEF Numbers
      <4>2. QED
        BY <3>1, <3>3, <4>1 DEF IInv, VersionsNumbered
    <3>4. QED
      BY <3>2, <3>3
  <2>2. versions[s][n].text \in Texts
    BY <2>1 DEF IInv, RowsOK
  <2>3. QED
    BY <1>2, <2>2, InsertKeeps DEF DuplicateScript
<1>3. ASSUME NEW x \in Sessions, NEW s \in Scripts, Request(x, s)
      PROVE  IInv'
  BY <1>3, RequestKeeps
<1>4. ASSUME NEW x \in Sessions, Flush(x)
      PROVE  IInv'
  BY <1>4, FlushKeeps
<1>5. ASSUME NEW x \in Sessions, Commit(x)
      PROVE  IInv'
  BY <1>5, CommitKeeps
<1>6. ASSUME NEW x \in Sessions, Refuse(x) \/ Abandon(x)
      PROVE  IInv'
  BY <1>6, EndKeeps DEF Refuse, Abandon
<1>7. ASSUME NEW x \in Sessions, NEW k \in Campaigns, CampaignRequest(x, k)
      PROVE  IInv'
  BY <1>7, CampaignRequestKeeps
<1>8. ASSUME NEW x \in Sessions, CheckVersion(x) \/ EndEdit(x)
      PROVE  IInv'
  BY <1>8, CheckKeeps, EndEditKeeps
<1>9. ASSUME \/ \E k \in Campaigns, b \in Payloads \cup {Unbound} : CreateCampaign(k, b)
             \/ \E x \in Sessions : CommitCampaign(x)
      PROVE  IInv'
  BY <1>9, CampaignWrites
<1>10. CASE UNCHANGED vars
  <2>1. UNCHANGED <<schema, rows>> /\ tx' = tx /\ editing' = editing
    BY <1>10 DEF vars
  <2>2. QED
    BY <2>1, RowsUnchanged DEF IInv, TypeOK
<1>11. QED
  BY <1>1, <1>2, <1>3, <1>4, <1>5, <1>6, <1>7, <1>8, <1>9, <1>10 DEF Next

\* IInv holds throughout.
LEMMA Inductive == Spec => []IInv
BY InitOK, NextKeeps, PTL DEF Spec

\* Every variable keeps its type, whatever the tables and the requests.
THEOREM ScriptTypes == Spec => []TypeOK
<1>1. IInv => TypeOK
  BY DEF IInv
<1>2. QED
  BY <1>1, Inductive, PTL

\* Versions are numbered from one without gap, current_version is the newest,
\* and exactly the versions after the first were announced
\* (repository.create_script_version against concurrent requests).
THEOREM NumbersWithoutGap == Spec => []VersionsNumbered
<1>1. IInv => VersionsNumbered
  BY DEF IInv
<1>2. QED
  BY <1>1, Inductive, PTL

\* Nothing that was never approved goes live (service.activate_version against
\* every other request).
THEOREM OnlySignedGoesLive == Spec => []LiveWasSigned
<1>1. IInv => LiveWasSigned
  BY DEF IInv
<1>2. QED
  BY <1>1, Inductive, PTL

-----------------------------------------------------------------------------
(* What may move a pointer. *)

\* A step that leaves versions and scripts alone, and of the campaigns those that
\* are there, has nothing to account for.
LEMMA NothingMoved ==
  ASSUME UNCHANGED <<scripts, versions>>, activations \subseteq activations',
         \A k \in campaigns : bound'[k] = bound[k]
  PROVE  MovesAccounted
BY DEF MovesAccounted, Signed

\* A script that is created had no pointer, and has none.
LEMMA InsertAccounted ==
  ASSUME IInv, NEW s \in Scripts, NEW text, NEW event, Insert(s, text, event)
  PROVE  MovesAccounted
<1>1. \A n \in Numbers : ~Signed(s, n)
  BY NothingBeforeExists DEF Insert, IInv, RowsOK
<1>2. scripts[s].active = 0
  <2> SUFFICES ASSUME scripts[s].active # 0 PROVE FALSE
    OBVIOUS
  <2>1. scripts[s].active \in Numbers
    BY DEF IInv, TypeOK, ScriptRows, Numbers
  <2>2. QED
    BY <1>1, <2>1 DEF IInv, LiveWasSigned
<1>3. ASSUME NEW t \in Scripts
      PROVE  scripts'[t].active = scripts[t].active
  BY <1>2 DEF Insert, IInv, TypeOK, NewScript
<1>4. ASSUME NEW t \in Scripts, NEW n \in Numbers, Signed(t, n)
      PROVE  versions'[t][n].signed # NoText
  <2>1. versions'[t][n] = versions[t][n]
    BY <1>1, <1>4 DEF Insert, IInv, TypeOK
  <2>2. QED
    BY <1>4, <2>1 DEF Signed
<1>5. bound' = bound /\ activations' = activations
  BY DEF Insert
<1>6. QED
  BY <1>3, <1>4, <1>5 DEF MovesAccounted

\* A script request points its script, and the campaign it was given, at the
\* version it activates, which was signed, and leaves a record.
LEMMA CommitAccounted ==
  ASSUME IInv, NEW x \in Sessions, Commit(x)
  PROVE  MovesAccounted
<1> DEFINE r == tx[x]
           t == r.script
<1>1. /\ r # NoRequest /\ ~Refused(x) /\ r \in Requests /\ RequestOK(x)
      /\ t \in Scripts /\ r.n \in Numbers
  BY InHand DEF Commit, Ready, IInv, Requests
<1>2. ASSUME NEW s \in Scripts, NEW n \in Numbers, Signed(s, n)
      PROVE  versions'[s][n].signed # NoText
  <2>1. versions'[s][n] = IF s = t THEN VersionAfter(x, n) ELSE versions[s][n]
    BY <1>1 DEF Commit, IInv, TypeOK
  <2>2. Grows(versions[s][n], versions'[s][n])
    BY <1>1, <2>1, VersionAfterGrows, SameGrows
  <2>3. QED
    BY <1>2, <2>2 DEF Grows, Signed
<1>3. r.op = "activate" => /\ Signed(t, r.n)
                           /\ <<t, r.n, r.campaign>> \in activations'
  BY <1>1 DEF RequestOK, Commit, Recorded
<1>4. ASSUME NEW s \in Scripts, scripts'[s].active # scripts[s].active
      PROVE  \E a \in activations' : a[1] = s /\ a[2] = scripts'[s].active
  <2>1. scripts'[s] = IF s = t THEN ScriptAfter(x) ELSE scripts[s]
    BY <1>1 DEF Commit, IInv, TypeOK
  <2>2. s = t /\ r.op = "activate" /\ scripts'[s].active = r.n
    BY <1>1, <1>4, <2>1, ScriptAfterOK
  <2>3. QED
    BY <1>3, <2>2
<1>5. ASSUME NEW k \in campaigns, bound'[k].version # bound[k].version
      PROVE  \E v \in bound'[k].version :
               versions'[v[1]][v[2]].signed # NoText /\ <<v[1], v[2], k>> \in activations'
  <2>1. bound'[k] = BoundAfter(x, k)
    BY DEF Commit, IInv, TypeOK
  <2>2. /\ r.op = "activate" /\ k = r.campaign
        /\ bound'[k].version = Column(r.bound.version, {<<t, r.n>>}, bound[k].version)
    BY <1>5, <2>1 DEF BoundAfter
  <2>3. bound'[k].version = {<<t, r.n>>}
    BY <1>5, <2>2 DEF Column
  <2>4. versions'[t][r.n].signed # NoText
    BY <1>1, <1>2, <1>3, <2>2
  <2>5. <<t, r.n, k>> \in activations'
    BY <1>3, <2>2
  <2> DEFINE w == <<t, r.n>>
  <2>6. w[1] = t /\ w[2] = r.n /\ w \in bound'[k].version
    BY <2>3
  <2>7. QED
    <3> HIDE DEF w
    <3>1. QED
      BY <2>4, <2>5, <2>6
<1>6. activations \subseteq activations'
  BY DEF Commit
<1>7. QED
  BY <1>2, <1>4, <1>5, <1>6 DEF MovesAccounted

\* A bind_script points its campaign at the version it has checked.
LEMMA CampaignAccounted ==
  ASSUME IInv, NEW x \in Sessions, CommitCampaign(x)
  PROVE  MovesAccounted
<1> DEFINE e == editing[x]
           c == e.campaign
<1>1. e \in Edits /\ e # NoRequest
  BY DEF CommitCampaign, IInv, TypeOK
<1>2. c \in Campaigns /\ e.op \in {"update", "bind"}
  BY <1>1 DEF Edits
<1>3. \A k \in Campaigns : k # c => bound'[k] = bound[k]
  BY DEF CommitCampaign, IInv, TypeOK
<1>4. bound'[c].version = Column(e.read.version, e.new.version, bound[c].version)
  BY <1>2 DEF CommitCampaign, IInv, TypeOK
<1>5. editing'[x] = NoRequest
  BY DEF CommitCampaign, IInv, TypeOK
<1>6. Ends(e.op, c)
  BY <1>1, <1>5 DEF Ends
<1>7. ASSUME e.op = "bind", bound'[c].version # bound[c].version
      PROVE  \E v \in bound'[c].version : versions'[v[1]][v[2]].signed # NoText
  <2>1. bound'[c].version = e.new.version
    BY <1>4, <1>7 DEF Column
  <2>2. e.new.version # {}
        /\ \A v \in e.new.version : versions[v[1]][v[2]].signed # NoText
    BY <1>1, <1>7 DEF IInv, EditOK, CommitCampaign
  <2>3. versions' = versions
    BY DEF CommitCampaign
  <2>4. QED
    BY <2>1, <2>2, <2>3
<1>8. ASSUME NEW k \in campaigns, bound'[k].version # bound[k].version
      PROVE  \/ Ends("update", k)
             \/ \E v \in bound'[k].version :
                  /\ versions'[v[1]][v[2]].signed # NoText
                  /\ Ends("bind", k) \/ <<v[1], v[2], k>> \in activations'
  <2>1. k = c
    BY <1>3, <1>8 DEF IInv, TypeOK
  <2>2. QED
    BY <1>2, <1>6, <1>7, <1>8, <2>1
<1>9. UNCHANGED <<scripts, versions, activations>>
  BY DEF CommitCampaign
<1>10. QED
  BY <1>8, <1>9 DEF MovesAccounted, Signed

\* Whatever requests race, every move of a script's or a campaign's pointer is
\* accounted for: by an activation's record, by a bind_script at a signed
\* version, or by a plain update of the campaign (service.activate_version and
\* the writers in campaigns/service.py).
THEOREM PointersAccounted == Spec => BindingsAccounted
<1>1. IInv /\ [Next]_vars => [MovesAccounted]_vars
  <2> SUFFICES ASSUME IInv, Next PROVE MovesAccounted
    OBVIOUS
  <2>1. ASSUME NEW s \in Scripts, NEW text \in Texts, CreateScript(s, text)
        PROVE  MovesAccounted
    BY <2>1, InsertAccounted DEF CreateScript
  <2>2. ASSUME NEW s \in Scripts, NEW copy \in Scripts, DuplicateScript(s, copy)
        PROVE  MovesAccounted
    BY <2>2, InsertAccounted DEF DuplicateScript
  <2>3. ASSUME NEW k \in Campaigns, NEW b, CreateCampaign(k, b)
        PROVE  MovesAccounted
    <3>1. \A c \in campaigns : c # k /\ bound'[c] = bound[c]
      BY <2>3 DEF CreateCampaign, IInv, TypeOK
    <3>2. QED
      BY <2>3, <3>1, NothingMoved DEF CreateCampaign
  <2>4. ASSUME UNCHANGED rows
        PROVE  MovesAccounted
    BY <2>4, NothingMoved DEF rows
  <2>5. ASSUME NEW x \in Sessions, NEW s \in Scripts, Request(x, s)
        PROVE  UNCHANGED rows
    BY <2>5 DEF Request, UpdateScript, CreateVersion, UpdateVersion, SubmitVersion,
                ApproveVersion, RejectVersion, ActivateVersion, VersionRead, Begin
  <2>6. ASSUME NEW x \in Sessions, NEW k \in Campaigns, CampaignRequest(x, k)
        PROVE  UNCHANGED rows
    BY <2>6 DEF CampaignRequest, UpdateCampaign, BindScript, BeginEdit
  <2>7. ASSUME NEW x \in Sessions,
               \/ Flush(x) \/ Refuse(x) \/ Abandon(x) \/ CheckVersion(x) \/ EndEdit(x)
        PROVE  UNCHANGED rows
    BY <2>7 DEF Flush, Refuse, Abandon, CheckVersion, EndEdit
  <2>8. QED
    BY <2>1, <2>2, <2>3, <2>4, <2>5, <2>6, <2>7, CommitAccounted, CampaignAccounted DEF Next
<1>2. QED
  BY <1>1, Inductive, PTL DEF Spec, BindingsAccounted

-----------------------------------------------------------------------------
(* The trigger of the migrated database. *)

\* A commit that is not refused leaves alone the versions that are not drafts.
LEMMA CommitFreezes ==
  ASSUME IInv, NEW x \in Sessions, Commit(x)
  PROVE  SubmittedStays
<1> SUFFICES ASSUME NEW s \in Scripts, NEW n \in Numbers, schema = "migrated",
                    versions[s][n].status \notin {"absent", "draft"}
             PROVE  versions'[s][n] = versions[s][n]
  BY DEF SubmittedStays
<1> DEFINE r == tx[x]
           v == versions[s][n]
<1>1. /\ r # NoRequest /\ ~Refused(x) /\ r \in Requests /\ RequestOK(x)
      /\ r.script \in Scripts /\ r.n \in Numbers
  BY InHand DEF Commit, Ready, IInv, Requests
<1>2. CASE s # r.script
  BY <1>1, <1>2 DEF Commit, IInv, TypeOK
<1>3. CASE s = r.script
  <2>1. versions'[s][n] = VersionAfter(x, n)
    BY <1>1, <1>3 DEF Commit, IInv, TypeOK
  <2>2. n \notin UpdatedVersions(x)
    BY <1>1, <1>3 DEF Refused
  <2>3. n \notin Archives(x) /\ (n = r.n => ~Moves(x) /\ ~Rewrites(x))
    BY <2>2 DEF UpdatedVersions
  <2>4. n = r.n => r.op # "create_version"
    BY <1>1, <1>3 DEF Refused
  <2>5. n = r.n => r.op # "approve"
    <3>1. r.op = "approve" => Moves(x)
      BY <1>1 DEF RequestOK, Moves, Seen, NewStatus
    <3>2. QED
      BY <2>3, <3>1
  <2>6. VersionAfter(x, n) = [status |-> v.status, text |-> v.text, signed |-> v.signed]
    BY <1>3, <2>3, <2>4, <2>5 DEF VersionAfter
  <2>7. v \in VersionRows
    BY DEF IInv, TypeOK
  <2>8. QED
    BY <2>1, <2>6, <2>7 DEF VersionRows
<1>4. QED
  BY <1>2, <1>3

\* With the trigger, a submitted version never changes again
\* (prevent_script_version_mutation of the migrations against every request,
\* those begun while the version was a draft included).
THEOREM SubmittedIsFrozen == Spec => FrozenOnceSubmitted
<1>1. IInv /\ [Next]_vars => [SubmittedStays]_vars
  <2> SUFFICES ASSUME IInv, Next PROVE SubmittedStays
    OBVIOUS
  <2>1. ASSUME NEW s \in Scripts, NEW text, NEW event, Insert(s, text, event)
        PROVE  SubmittedStays
    <3>1. \A n \in Numbers : ~Present(s, n)
      BY <2>1, NothingBeforeExists DEF Insert
    <3>2. ASSUME NEW t \in Scripts, NEW n \in Numbers, t # s \/ n # 1
          PROVE  versions'[t][n] = versions[t][n]
      BY <2>1, <3>2 DEF Insert, IInv, TypeOK
    <3>3. QED
      BY <3>1, <3>2 DEF SubmittedStays, Present
  <2>2. ASSUME NEW s \in Scripts, NEW text \in Texts, CreateScript(s, text)
        PROVE  SubmittedStays
    BY <2>1, <2>2 DEF CreateScript
  <2>3. ASSUME NEW s \in Scripts, NEW copy \in Scripts, DuplicateScript(s, copy)
        PROVE  SubmittedStays
    BY <2>1, <2>3 DEF DuplicateScript
  <2>4. ASSUME versions' = versions
        PROVE  SubmittedStays
    BY <2>4 DEF SubmittedStays
  <2>5. ASSUME NEW x \in Sessions, NEW s \in Scripts, Request(x, s)
        PROVE  versions' = versions
    BY <2>5 DEF Request, UpdateScript, CreateVersion, UpdateVersion, SubmitVersion,
                ApproveVersion, RejectVersion, ActivateVersion, VersionRead, Begin, rows
  <2>6. ASSUME NEW x \in Sessions, Flush(x) \/ Refuse(x) \/ Abandon(x)
        PROVE  versions' = versions
    BY <2>6 DEF Flush, Refuse, Abandon, rows
  <2>7. ASSUME NEW x \in Sessions,
               \/ \E k \in Campaigns : CampaignRequest(x, k)
               \/ CheckVersion(x) \/ CommitCampaign(x) \/ EndEdit(x)
        PROVE  versions' = versions
    BY <2>7 DEF CampaignRequest, UpdateCampaign, BindScript, BeginEdit, CheckVersion,
                CommitCampaign, EndEdit, rows
  <2>8. ASSUME NEW k \in Campaigns, NEW b, CreateCampaign(k, b)
        PROVE  versions' = versions
    BY <2>8 DEF CreateCampaign
  <2>9. QED
    BY <2>2, <2>3, <2>4, <2>5, <2>6, <2>7, <2>8, CommitFreezes DEF Next
<1>2. QED
  BY <1>1, Inductive, PTL DEF Spec, FrozenOnceSubmitted

-----------------------------------------------------------------------------
(* Requests that come one at a time. *)

OneSession == \E x : Sessions = {x}

\* What the only request has read is what the rows still say.  approve reads
\* the script with its second SELECT.
ReadAsIs(x) ==
  LET r == tx[x]
      v == versions[r.script][r.n]
  IN  r # NoRequest =>
        /\ r.op \in DOMAIN NewStatus \cup {"update_version"} => r.seen[r.n] = v
        /\ r.op = "activate" => /\ r.seen = versions[r.script]
                                /\ v.status \in {"approved", "active"}
        /\ r.op \in {"approve", "reject"} => v.status = "pending_approval"
        /\ r.op \in {"submit", "update_version"} => v.status = "draft"
        /\ r.op = "create_version" => r.n = Following(r.script)
        /\ \/ r.op \in {"update_script", "create_version", "activate"}
           \/ r.phase = "flushed"
           => r.row = scripts[r.script]

\* A version past its approval reads as its approver read it.
SignedAsRead ==
  \A s \in Scripts : \A n \in Numbers :
    versions[s][n].status \in Past => versions[s][n].text = versions[s][n].signed

SerialInv ==
  /\ OneSession /\ IInv /\ Lifecycle /\ SignedAsRead
  /\ \A x \in Sessions : ReadAsIs(x)

\* While scripts and versions stay, only what has been read of them is to be shown.
LEMMA SerialRowsUnchanged ==
  ASSUME SerialInv, IInv', UNCHANGED <<scripts, versions>>,
         \A x \in Sessions : ReadAsIs(x)'
  PROVE  SerialInv'
<1>1. ASSUME NEW s \in Scripts
      PROVE  Live(s)' = Live(s)
  BY DEF Live
<1>2. Lifecycle'
  BY <1>1 DEF SerialInv, Lifecycle
<1>3. SignedAsRead'
  BY DEF SerialInv, SignedAsRead
<1>4. QED
  BY <1>2, <1>3 DEF SerialInv

\* What a request reads as it begins is what the rows say.
LEMMA SerialBegin ==
  ASSUME SerialInv, IInv', NEW x \in Sessions, NEW op \in Operations, NEW s \in Scripts,
         NEW n \in Numbers, NEW text, NEW k, NEW row, NEW seen,
         Begin(x, op, s, n, text, k, row, seen),
         op \in DOMAIN NewStatus \cup {"update_version"} => seen[n] = versions[s][n],
         op = "activate" => /\ seen = versions[s]
                            /\ versions[s][n].status \in {"approved", "active"},
         op \in {"approve", "reject"} => versions[s][n].status = "pending_approval",
         op \in {"submit", "update_version"} => versions[s][n].status = "draft",
         op = "create_version" => n = Following(s),
         op \in {"update_script", "create_version", "activate"} => row = scripts[s]
  PROVE  SerialInv'
<1>1. /\ tx'[x].op = op /\ tx'[x].phase = "read" /\ tx'[x].script = s
      /\ tx'[x].n = n /\ tx'[x].row = row /\ tx'[x].seen = seen
  BY DEF Begin, SerialInv, IInv, TypeOK
<1>2. UNCHANGED <<scripts, versions>>
  BY DEF Begin, rows
<1>3. ReadAsIs(x)'
  BY <1>1, <1>2 DEF ReadAsIs, Following
<1>4. \A y \in Sessions : y = x
  BY DEF SerialInv, OneSession
<1>5. QED
  BY <1>2, <1>3, <1>4, SerialRowsUnchanged

\* Every kind of request.
LEMMA SerialRequest ==
  ASSUME SerialInv, IInv', NEW x \in Sessions, NEW s \in Scripts, Request(x, s)
  PROVE  SerialInv'
<1> USE DEF Operations, NewStatus
<1>1. CASE UpdateScript(x, s)
  <2>1. 1 \in Numbers
    BY VersionAssumption DEF Numbers
  <2>2. QED
    BY <1>1, <2>1, SerialBegin DEF UpdateScript
<1>2. ASSUME NEW text \in Texts, CreateVersion(x, s, text)
      PROVE  SerialInv'
  BY <1>2, SerialBegin DEF CreateVersion
<1>3. ASSUME NEW n \in Numbers, NEW op \in {"update_version", "submit", "approve", "reject"},
             NEW text, VersionRead(x, op, s, n, text),
             op \in {"approve", "reject"} => versions[s][n].status = "pending_approval",
             op \in {"submit", "update_version"} => versions[s][n].status = "draft"
      PROVE  SerialInv'
  <2>1. Only(s, n)[n] = versions[s][n]
    BY DEF Only
  <2>2. QED
    BY <1>3, <2>1, SerialBegin DEF VersionRead
<1>4. ASSUME NEW n \in Numbers, NEW text \in Texts, UpdateVersion(x, s, n, text)
      PROVE  SerialInv'
  BY <1>3, <1>4 DEF UpdateVersion, CanEditVersion
<1>5. ASSUME NEW n \in Numbers, SubmitVersion(x, s, n)
      PROVE  SerialInv'
  BY <1>3, <1>5 DEF SubmitVersion, CanTransition, Allowed
<1>6. ASSUME NEW n \in Numbers, ApproveVersion(x, s, n)
      PROVE  SerialInv'
  BY <1>3, <1>6 DEF ApproveVersion, CanTransition, Allowed
<1>7. ASSUME NEW n \in Numbers, RejectVersion(x, s, n)
      PROVE  SerialInv'
  BY <1>3, <1>7 DEF RejectVersion, CanTransition, Allowed
<1>8. ASSUME NEW n \in Numbers, NEW k \in campaigns \cup {NoCampaign},
             ActivateVersion(x, s, n, k)
      PROVE  SerialInv'
  <2>1. versions[s][n].status \in {"approved", "active"}
    BY <1>8 DEF ActivateVersion, CanTransition, Allowed
  <2>2. QED
    BY <1>8, <2>1, SerialBegin DEF ActivateVersion
<1>9. QED
  BY <1>1, <1>2, <1>4, <1>5, <1>6, <1>7, <1>8 DEF Request

\* The second SELECT of approve and of activate.
LEMMA SerialFlush ==
  ASSUME SerialInv, IInv', NEW x \in Sessions, Flush(x)
  PROVE  SerialInv'
<1> DEFINE r == tx[x]
<1>1. r \in Requests /\ r # NoRequest /\ r.op \in {"approve", "activate"}
  BY InHand DEF Flush, TwoReads, SerialInv, IInv
<1>2. UNCHANGED <<scripts, versions>>
  BY DEF Flush, rows
<1>3. /\ tx'[x].op = r.op /\ tx'[x].script = r.script /\ tx'[x].n = r.n
      /\ tx'[x].seen = r.seen
      /\ tx'[x].row = IF r.op = "approve" THEN scripts[r.script] ELSE r.row
  BY <1>1 DEF Flush, SerialInv, IInv, TypeOK, Requests
<1>4. ReadAsIs(x)
  BY DEF SerialInv
<1>5. ReadAsIs(x)'
  BY <1>1, <1>2, <1>3, <1>4 DEF ReadAsIs
<1>6. \A y \in Sessions : y = x
  BY DEF SerialInv, OneSession
<1>7. QED
  BY <1>2, <1>5, <1>6, SerialRowsUnchanged

\* A request that ends has read nothing.
LEMMA SerialEnd ==
  ASSUME SerialInv, NEW x \in Sessions, tx' = [tx EXCEPT ![x] = NoRequest]
  PROVE  \A y \in Sessions : ReadAsIs(y)'
BY DEF SerialInv, OneSession, IInv, TypeOK, ReadAsIs

\* A script that is created has no live version, and no request has read it.
LEMMA SerialInsert ==
  ASSUME SerialInv, IInv', NEW s \in Scripts, NEW text, NEW event, Insert(s, text, event)
  PROVE  SerialInv'
<1>1. ASSUME NEW t \in Scripts, t # s
      PROVE  versions'[t] = versions[t] /\ scripts'[t] = scripts[t]
  BY <1>1 DEF Insert, SerialInv, IInv, TypeOK
<1>2. ASSUME NEW n \in Numbers
      PROVE  versions[s][n].status = "absent"
  BY NothingBeforeExists DEF Insert, SerialInv, Present
<1>3. ASSUME NEW n \in Numbers
      PROVE  versions'[s][n].status \in {"absent", "draft"}
  <2>1. versions'[s][n] \in {Draft(text), versions[s][n]}
    BY DEF Insert, SerialInv, IInv, TypeOK
  <2>2. QED
    BY <1>2, <2>1 DEF Draft
<1>4. scripts'[s] = NewScript
  BY DEF Insert, SerialInv, IInv, TypeOK
<1>5. Lifecycle'
  <2>1. ASSUME NEW t \in Scripts
        PROVE  LET a == scripts'[t].active IN
               /\ Live(t)' = {n \in {a} : a # 0}
               /\ scripts'[t].status = "active" <=> a # 0
               /\ a # 0 => versions'[t][a].text = versions'[t][a].signed
    <3>1. CASE t = s
      <4>1. Live(s)' = {}
        BY <1>3 DEF Live
      <4>2. scripts'[s].active = 0 /\ scripts'[s].status = "draft"
        BY <1>4 DEF NewScript
      <4>3. QED
        BY <3>1, <4>1, <4>2
    <3>2. CASE t # s
      BY <1>1, <3>2 DEF SerialInv, Lifecycle, Live
    <3>3. QED
      BY <3>1, <3>2
  <2>2. QED
    BY <2>1 DEF Lifecycle
<1>6. SignedAsRead'
  BY <1>1, <1>3 DEF SerialInv, SignedAsRead, Past
<1>7. ASSUME NEW x \in Sessions
      PROVE  ReadAsIs(x)'
  <2> SUFFICES ASSUME tx[x] # NoRequest PROVE ReadAsIs(x)'
    BY DEF ReadAsIs, Insert
  <2>1. tx[x] \in Requests
    BY InHand DEF SerialInv, IInv
  <2>2. tx[x].script \in Scripts /\ tx[x].script # s
    BY <2>1 DEF SerialInv, IInv, RequestOK, Insert, Exists, Requests
  <2>3. PICK t \in Scripts : t = tx[x].script
    BY <2>2
  <2>4. tx' = tx /\ versions'[t] = versions[t] /\ scripts'[t] = scripts[t]
    BY <1>1, <2>2, <2>3 DEF Insert
  <2>5. ReadAsIs(x)
    BY DEF SerialInv
  <2>6. QED
    BY <2>3, <2>4, <2>5 DEF ReadAsIs, Following
<1>8. QED
  BY <1>5, <1>6, <1>7 DEF SerialInv

-----------------------------------------------------------------------------
(* The commit of a request that came alone. *)

\* What becomes of a version: it is live afterwards if it is the one activated,
\* or if nothing is activated and it was; and it is not past its approval with
\* another text than signed.
LEMMA SerialVersionAfter ==
  ASSUME SerialInv, NEW x \in Sessions, tx[x] # NoRequest, NEW n \in Numbers
  PROVE  LET r == tx[x]
             v == versions[r.script][n]
             w == VersionAfter(x, n)
         IN  /\ w.status = "active" <=>
                  IF r.op = "activate" THEN n = r.n ELSE v.status = "active"
             /\ w.status \in Past => w.text = w.signed
<1> DEFINE r == tx[x]
           v == versions[r.script][n]
           w == VersionAfter(x, n)
<1>1. r \in Requests /\ ReadAsIs(x)
  BY InHand DEF SerialInv, IInv
<1>2. r.script \in Scripts /\ r.n \in Numbers /\ r.op \in Operations
  BY <1>1 DEF Requests
<1>3. v \in VersionRows /\ (v.status \in Past => v.text = v.signed)
  BY <1>2 DEF SerialInv, IInv, TypeOK, SignedAsRead
<1>4. CASE n # r.n
  <2>1. w = [status |-> IF n \in Archives(x) THEN "archived" ELSE v.status,
             text |-> v.text, signed |-> v.signed]
    BY <1>4 DEF VersionAfter
  <2>2. n \in Archives(x) => r.op = "activate" /\ v.status = "active"
    BY <1>1 DEF Archives, ReadAsIs
  <2>3. r.op = "activate" /\ v.status = "active" => n \in Archives(x)
    <3> SUFFICES ASSUME r.op = "activate", v.status = "active" PROVE n \in Archives(x)
      OBVIOUS
    <3>1. n \in Live(r.script)
      BY DEF Live
    <3>2. r.n \notin Live(r.script)
      BY <1>2, <1>4, <3>1 DEF SerialInv, Lifecycle
    <3>3. Seen(x).status # "active" /\ r.seen[n] = v
      BY <1>1, <1>2, <3>2 DEF Live, Seen, ReadAsIs
    <3>4. QED
      BY <1>4, <3>3 DEF Archives, Moves, NewStatus
  <2>4. QED
    BY <1>3, <1>4, <2>1, <2>2, <2>3 DEF Past
<1>5. CASE n = r.n
  <2>1. n \notin Archives(x)
    BY <1>5 DEF Archives
  <2>2. CASE r.op = "create_version"
    <3>1. v.status = "absent"
      <4>1. n = scripts[r.script].current + 1
        BY <1>1, <1>5, <2>2 DEF ReadAsIs, Following
      <4>2. ~(n <= scripts[r.script].current)
        BY <1>2, <4>1, VersionAssumption DEF SerialInv, IInv, TypeOK, ScriptRows
      <4>3. QED
        BY <1>2, <4>2 DEF SerialInv, IInv, VersionsNumbered, Present
    <3>2. w.status = "draft"
      BY <1>5, <2>1, <2>2 DEF VersionAfter
    <3>3. QED
      BY <2>2, <3>1, <3>2 DEF Past
  <2>3. CASE r.op \in {"update_version", "update_script"}
    <3>1. ~Moves(x)
      BY <2>3 DEF Moves, NewStatus
    <3>2. w.status = v.status /\ w.signed = v.signed
          /\ (r.op = "update_script" => w.text = v.text)
      BY <1>5, <2>1, <2>3, <3>1 DEF VersionAfter, Rewrites
    <3>3. r.op = "update_version" => v.status = "draft"
      BY <1>1, <1>5 DEF ReadAsIs
    <3>4. QED
      BY <1>3, <2>3, <3>2, <3>3 DEF Past
  <2>4. CASE r.op \in DOMAIN NewStatus
    <3>1. r.seen[n] = v
      BY <1>1, <1>5, <2>4 DEF ReadAsIs
    <3>2. w.status = NewStatus[r.op]
      BY <1>5, <2>1, <2>4, <3>1 DEF VersionAfter, Moves, Seen, NewStatus
    <3>3. /\ w.text = v.text
          /\ w.signed = IF r.op = "approve" THEN v.text ELSE v.signed
      BY <1>5, <2>4, <3>1 DEF VersionAfter, Rewrites, NewStatus
    <3>4. /\ r.op = "activate" => v.status \in Past
          /\ r.op # "activate" => v.status \in {"draft", "pending_approval"}
      BY <1>1, <1>5, <2>4 DEF ReadAsIs, NewStatus, Past
    <3>5. r.op \in {"submit", "approve", "reject", "activate"}
      BY <2>4 DEF NewStatus
    <3>6. CASE r.op = "activate"
      BY <1>3, <1>5, <3>2, <3>3, <3>4, <3>6 DEF NewStatus, Past
    <3>7. CASE r.op \in {"submit", "reject"}
      BY <1>3, <1>5, <3>2, <3>3, <3>4, <3>7 DEF NewStatus, Past
    <3>8. CASE r.op = "approve"
      BY <1>3, <1>5, <3>2, <3>3, <3>4, <3>8 DEF NewStatus, Past
    <3>9. QED
      BY <3>5, <3>6, <3>7, <3>8
  <2>5. QED
    BY <1>2, <2>2, <2>3, <2>4 DEF Operations, NewStatus
<1>6. QED
  BY <1>4, <1>5

\* The commit points the script at the version that is live from now on.
LEMMA SerialCommit ==
  ASSUME SerialInv, IInv', NEW x \in Sessions, Commit(x)
  PROVE  SerialInv'
<1> DEFINE r == tx[x]
           t == r.script
<1>1. r # NoRequest /\ r \in Requests /\ ReadAsIs(x) /\ Ready(x)
  BY InHand DEF SerialInv, IInv, Commit, Ready
<1>2. t \in Scripts /\ r.n \in Numbers /\ r.n # 0 /\ r.op \in Operations
  BY <1>1 DEF Requests, Numbers
<1>3. ASSUME NEW s \in Scripts, NEW n \in Numbers
      PROVE  versions'[s][n] = IF s = t THEN VersionAfter(x, n) ELSE versions[s][n]
  BY <1>2 DEF Commit, SerialInv, IInv, TypeOK
<1>4. ASSUME NEW s \in Scripts
      PROVE  scripts'[s] = IF s = t THEN ScriptAfter(x) ELSE scripts[s]
  BY <1>2 DEF Commit, SerialInv, IInv, TypeOK
<1>5. SignedAsRead'
  BY <1>1, <1>3, SerialVersionAfter DEF SerialInv, SignedAsRead
<1>6. ASSUME NEW s \in Scripts
      PROVE  Live(s)' = IF s = t /\ r.op = "activate" THEN {r.n} ELSE Live(s)
  BY <1>1, <1>2, <1>3, SerialVersionAfter DEF Live
<1>7. ASSUME NEW s \in Scripts
      PROVE  IF s = t /\ r.op = "activate"
             THEN scripts'[s].active = r.n /\ scripts'[s].status = "active"
             ELSE /\ scripts'[s].active = scripts[s].active
                  /\ scripts'[s].status = "active" <=> scripts[s].status = "active"
  <2>1. CASE s = t /\ r.op = "activate"
    BY <1>1, <1>4, <2>1 DEF ScriptAfter, Column, ReadAsIs
  <2>2. CASE s = t /\ r.op = "approve"
    <3>1. r.row = scripts[t]
      BY <1>1, <2>2 DEF ReadAsIs, Ready, TwoReads
    <3>2. QED
      BY <1>4, <2>2, <3>1 DEF ScriptAfter
  <2>3. CASE s = t /\ r.op \notin {"activate", "approve"}
    BY <1>4, <2>3 DEF ScriptAfter
  <2>4. CASE s # t
    BY <1>4, <2>4
  <2>5. QED
    BY <2>1, <2>2, <2>3, <2>4
<1>8. Lifecycle'
  <2>1. ASSUME NEW s \in Scripts
        PROVE  LET a == scripts'[s].active IN
               /\ Live(s)' = {n \in {a} : a # 0}
               /\ scripts'[s].status = "active" <=> a # 0
               /\ a # 0 => versions'[s][a].text = versions'[s][a].signed
    <3> DEFINE a == scripts'[s].active
    <3>1. /\ Live(s)' = {n \in {a} : a # 0}
          /\ scripts'[s].status = "active" <=> a # 0
      BY <1>2, <1>6, <1>7 DEF SerialInv, Lifecycle
    <3>2. a # 0 => a \in Live(s)'
      BY <3>1
    <3>3. a # 0 => a \in Numbers /\ versions'[s][a].status = "active"
      BY <3>2 DEF Live
    <3>4. QED
      BY <1>5, <3>1, <3>3 DEF SignedAsRead, Past
  <2>2. QED
    BY <2>1 DEF Lifecycle
<1>9. \A y \in Sessions : ReadAsIs(y)'
  BY SerialEnd DEF Commit
<1>10. QED
  BY <1>5, <1>8, <1>9 DEF SerialInv

-----------------------------------------------------------------------------
\* Every step keeps it.
LEMMA SerialNext == SerialInv /\ [Next]_vars => SerialInv'
<1> SUFFICES ASSUME SerialInv, [Next]_vars PROVE SerialInv'
  OBVIOUS
<1>1. IInv'
  BY NextKeeps DEF SerialInv
<1>2. ASSUME NEW s \in Scripts, NEW text, NEW event, Insert(s, text, event)
      PROVE  SerialInv'
  BY <1>1, <1>2, SerialInsert
<1>3. ASSUME NEW s \in Scripts, NEW text \in Texts, CreateScript(s, text)
      PROVE  SerialInv'
  BY <1>2, <1>3 DEF CreateScript
<1>4. ASSUME NEW s \in Scripts, NEW copy \in Scripts, DuplicateScript(s, copy)
      PROVE  SerialInv'
  BY <1>2, <1>4 DEF DuplicateScript
<1>5. ASSUME NEW x \in Sessions, NEW s \in Scripts, Request(x, s)
      PROVE  SerialInv'
  BY <1>1, <1>5, SerialRequest
<1>6. ASSUME NEW x \in Sessions, Flush(x)
      PROVE  SerialInv'
  BY <1>1, <1>6, SerialFlush
<1>7. ASSUME NEW x \in Sessions, Commit(x)
      PROVE  SerialInv'
  BY <1>1, <1>7, SerialCommit
<1>8. ASSUME NEW x \in Sessions, Refuse(x) \/ Abandon(x)
      PROVE  SerialInv'
  BY <1>1, <1>8, SerialEnd, SerialRowsUnchanged DEF Refuse, Abandon, rows
<1>9. ASSUME UNCHANGED <<scripts, versions, tx>>
      PROVE  SerialInv'
  <2>1. \A x \in Sessions : ReadAsIs(x)'
    BY <1>9 DEF SerialInv, ReadAsIs, Following
  <2>2. QED
    BY <1>1, <1>9, <2>1, SerialRowsUnchanged
<1>10. ASSUME NEW x \in Sessions,
              \/ \E k \in Campaigns : CampaignRequest(x, k)
              \/ CheckVersion(x) \/ CommitCampaign(x) \/ EndEdit(x)
       PROVE  UNCHANGED <<scripts, versions, tx>>
  BY <1>10 DEF CampaignRequest, UpdateCampaign, BindScript, BeginEdit, CheckVersion,
               CommitCampaign, EndEdit, rows
<1>11. ASSUME NEW k \in Campaigns, NEW b, CreateCampaign(k, b)
       PROVE  UNCHANGED <<scripts, versions, tx>>
  BY <1>11 DEF CreateCampaign
<1>12. UNCHANGED vars => UNCHANGED <<scripts, versions, tx>>
  BY DEF vars, rows
<1>13. QED
  BY <1>3, <1>4, <1>5, <1>6, <1>7, <1>8, <1>9, <1>10, <1>11, <1>12 DEF Next

\* The only refusal left to a database built from the metadata is a number
\* already taken, and the number create_version has counted is free.
LEMMA SerialSafe == SerialInv => SerialSafety
<1> SUFFICES ASSUME SerialInv, NEW x \in Sessions, schema = "metadata", Ready(x)
             PROVE  ~Refused(x)
  BY DEF SerialInv, SerialSafety, NeverRefused
<1>1. tx[x] # NoRequest /\ tx[x] \in Requests /\ ReadAsIs(x)
  BY InHand DEF SerialInv, IInv, Ready
<1>2. tx[x].script \in Scripts /\ tx[x].n \in Numbers
  BY <1>1 DEF Requests
<1>3. tx[x].op = "create_version" => ~(tx[x].n <= scripts[tx[x].script].current)
  BY <1>1, <1>2, VersionAssumption
  DEF ReadAsIs, Following, SerialInv, IInv, TypeOK, ScriptRows
<1>4. tx[x].op = "create_version" => versions[tx[x].script][tx[x].n].status = "absent"
  BY <1>2, <1>3 DEF SerialInv, IInv, VersionsNumbered, Present
<1>5. QED
  BY <1>4 DEF Refused

\* Requests that come one at a time keep the life of a script and are answered
\* as the policy promises, for any number of scripts, campaigns and versions
\* (the whole of scripts/service.py and the writers of bindings in
\* campaigns/service.py, with whichever requests are abandoned).
THEOREM SerialLifeTheorem == OneSession /\ Spec => []SerialSafety
<1>1. OneSession /\ Init => SerialInv
  <2> SUFFICES ASSUME OneSession, Init PROVE SerialInv
    OBVIOUS
  <2>1. IInv
    BY InitOK
  <2>2. /\ \A s \in Scripts : /\ Live(s) = {} /\ scripts[s].active = 0
                              /\ scripts[s].status = "absent"
        /\ \A s \in Scripts : \A n \in Numbers : versions[s][n].status = "absent"
        /\ \A x \in Sessions : tx[x] = NoRequest
    BY DEF Init, NoScript, NoVersion, Live
  <2>3. Lifecycle
    BY <2>2 DEF Lifecycle
  <2>4. SignedAsRead
    BY <2>2 DEF SignedAsRead, Past
  <2>5. QED
    BY <2>1, <2>2, <2>3, <2>4 DEF SerialInv, ReadAsIs
<1>2. QED
  BY <1>1, SerialNext, SerialSafe, PTL DEF Spec

-----------------------------------------------------------------------------
(* Lists on the desk.  The rows at some positions of a list, in their order, *)
(* are a list of just these rows: the positions have as many ranks as there  *)
(* are of them.                                                             *)

Less == {p \in Nat \X Nat : p[1] < p[2]}

\* Every set of numbers has a least one.
LEMMA LeastNumber ==
  ASSUME NEW T, T \subseteq Nat, T # {}
  PROVE  \E x \in T : \A y \in T : x <= y
<1>1. IsWellFoundedOn(Less, Nat)
  BY NatLessThanWellFounded DEF OpToRel, Less
<1>2. PICK x \in T : \A y \in T : <<y, x>> \notin Less
  BY <1>1, WFMin
<1>3. \A y \in T : y < x => <<y, x>> \in Less
  BY DEF Less
<1>4. \A y \in T : ~(y < x)
  BY <1>2, <1>3
<1>5. \A y \in T : y \in Int /\ x \in Int
  OBVIOUS
<1>6. QED
  BY <1>4, <1>5

UpTo(at, m) == {j \in at : j <= m}
Rank(at, m) == Cardinality(UpTo(at, m))

LEMMA Ranks ==
  ASSUME NEW n \in Nat, NEW at, at \subseteq 1..n
  PROVE  /\ IsFiniteSet(at) /\ Cardinality(at) \in Nat
         /\ \A m \in Nat : IsFiniteSet(UpTo(at, m)) /\ Rank(at, m) \in Nat
                           /\ Rank(at, m) <= Cardinality(at)
         /\ Rank(at, 0) = 0 /\ Rank(at, n) = Cardinality(at)
         /\ \A i \in at : Rank(at, i) > 0 /\ Rank(at, i) = Rank(at, i - 1) + 1
         /\ \A m \in 1..n : m \notin at => Rank(at, m) = Rank(at, m - 1)
<1>1. IsFiniteSet(1..n)
  BY FS_Interval
<1>2. IsFiniteSet(at) /\ Cardinality(at) \in Nat
  BY <1>1, FS_Subset, FS_CardinalityType
<1>3. ASSUME NEW m \in Nat
      PROVE  IsFiniteSet(UpTo(at, m)) /\ Rank(at, m) \in Nat /\ Rank(at, m) <= Cardinality(at)
  <2>1. UpTo(at, m) \subseteq at
    BY DEF UpTo
  <2>2. QED
    BY <1>2, <2>1, FS_Subset, FS_CardinalityType DEF Rank
<1>4. Rank(at, 0) = 0
  <2>1. \A j \in at : j \in Nat /\ 1 <= j
    OBVIOUS
  <2>2. \A j \in at : ~(j <= 0)
    BY <2>1
  <2>3. UpTo(at, 0) = {}
    BY <2>2 DEF UpTo
  <2>4. QED
    BY <2>3, FS_EmptySet DEF Rank
<1>5. Rank(at, n) = Cardinality(at)
  <2>1. \A j \in at : j <= n
    OBVIOUS
  <2>2. UpTo(at, n) = at
    BY <2>1 DEF UpTo
  <2>3. QED
    BY <2>2 DEF Rank
<1>6. ASSUME NEW i \in at PROVE Rank(at, i) > 0 /\ Rank(at, i) = Rank(at, i - 1) + 1
  <2>1. i \in Int /\ i - 1 \in Nat /\ \A j \in at : j \in Int
    OBVIOUS
  <2>2. ~(i <= i - 1) /\ i <= i /\ \A j \in at : j <= i <=> j <= i - 1 \/ j = i
    BY <2>1
  <2>3. UpTo(at, i) = UpTo(at, i - 1) \cup {i} /\ i \notin UpTo(at, i - 1)
    BY <2>2 DEF UpTo
  <2>4. IsFiniteSet(UpTo(at, i - 1)) /\ Rank(at, i - 1) \in Nat
    BY <1>3, <2>1
  <2>5. Rank(at, i) = Rank(at, i - 1) + 1
    BY <2>3, <2>4, FS_AddElement DEF Rank
  <2>6. QED
    BY <2>4, <2>5
<1>7. ASSUME NEW m \in 1..n, m \notin at PROVE Rank(at, m) = Rank(at, m - 1)
  <2>1. m \in Int /\ \A j \in at : j \in Int /\ j # m
    BY <1>7
  <2>2. \A j \in at : j <= m <=> j <= m - 1
    BY <2>1
  <2>3. UpTo(at, m) = UpTo(at, m - 1)
    BY <2>2 DEF UpTo
  <2>4. QED
    BY <2>3 DEF Rank
<1>8. QED
  BY <1>2, <1>3, <1>4, <1>5, <1>6, <1>7

\* Every rank is that of one position.
LEMMA OneOfEachRank ==
  ASSUME NEW n \in Nat, NEW at, at \subseteq 1..n
  PROVE  /\ \A k \in 1..Cardinality(at) : \E i \in at : Rank(at, i) = k
         /\ \A i, j \in at : Rank(at, i) = Rank(at, j) => i = j
<1>1. Cardinality(at) \in Nat /\ Rank(at, 0) = 0 /\ Rank(at, n) = Cardinality(at)
  BY Ranks
<1>2. \A m \in Nat : Rank(at, m) \in Nat /\ IsFiniteSet(UpTo(at, m))
  BY Ranks
<1>3. ASSUME NEW k \in 1..Cardinality(at) PROVE \E i \in at : Rank(at, i) = k
  <2> DEFINE T == {m \in Nat : Rank(at, m) >= k}
  <2>1. k \in Nat /\ k > 0 /\ Cardinality(at) >= k
    BY <1>1
  <2>2. n \in T
    BY <1>1, <2>1
  <2>3. PICK m \in T : \A l \in T : m <= l
    <3>1. T \subseteq Nat /\ T # {}
      BY <2>2
    <3> HIDE DEF T
    <3>2. QED
      BY <3>1, LeastNumber
  <2>4. m \in Nat /\ m <= n /\ Rank(at, m) >= k
    BY <2>2, <2>3
  <2>5. m # 0
    BY <1>1, <2>1, <2>4
  <2>6. m \in 1..n /\ m - 1 \in Nat /\ ~(m <= m - 1)
    BY <2>4, <2>5
  <2>7. m - 1 \notin T
    BY <2>3, <2>6
  <2>8. Rank(at, m - 1) < k
    BY <1>2, <2>1, <2>6, <2>7
  <2>9. m \in at
    <3>1. Rank(at, m) # Rank(at, m - 1)
      BY <1>2, <2>1, <2>4, <2>6, <2>8
    <3>2. \A l \in 1..n : l \notin at => Rank(at, l) = Rank(at, l - 1)
      BY Ranks
    <3>3. QED
      BY <2>6, <3>1, <3>2
  <2>10. Rank(at, m) = Rank(at, m - 1) + 1
    BY <2>9, Ranks
  <2>11. Rank(at, m) = k
    BY <1>2, <2>1, <2>4, <2>6, <2>8, <2>10
  <2>12. QED
    BY <2>9, <2>11
<1>4. ASSUME NEW i \in at, NEW j \in at, i < j PROVE Rank(at, i) # Rank(at, j)
  <2>1. i \in Nat /\ j \in Nat /\ \A l \in at : l \in Int
    OBVIOUS
  <2>2. ~(j <= i) /\ j <= j /\ \A l \in at : l <= i => l <= j
    BY <1>4, <2>1
  <2>3. UpTo(at, i) \in SUBSET UpTo(at, j) /\ j \in UpTo(at, j) /\ j \notin UpTo(at, i)
    BY <2>2 DEF UpTo
  <2>4. IsFiniteSet(UpTo(at, j))
    BY <1>2, <2>1
  <2>5. Cardinality(UpTo(at, j)) # Cardinality(UpTo(at, i))
    BY <2>3, <2>4, FS_Subset
  <2>6. QED
    BY <2>5 DEF Rank
<1>5. \A i, j \in at : i = j \/ i < j \/ j < i
  <2>1. \A i \in at : i \in Int
    OBVIOUS
  <2>2. QED
    BY <2>1
<1>6. QED
  BY <1>3, <1>4, <1>5

LEMMA AmongRows ==
  ASSUME NEW R, NEW list \in Seq(R), NEW at, at \subseteq DOMAIN list
  PROVE  /\ Among(list, at) \in Seq(R)
         /\ \A k \in DOMAIN Among(list, at) : \E i \in at : Among(list, at)[k] = list[i]
         /\ \A i \in at : \E k \in DOMAIN Among(list, at) : Among(list, at)[k] = list[i]
<1> DEFINE n == Len(list)
           Of(k) == CHOOSE i \in at : Rank(at, i) = k
<1>1. n \in Nat /\ at \subseteq 1..n
  OBVIOUS
<1> HIDE DEF n
<1>2. Among(list, at) = [k \in 1..Cardinality(at) |-> list[Of(k)]]
  BY DEF Among, Rank, UpTo
<1>3. Cardinality(at) \in Nat
  BY <1>1, Ranks
<1>4. \A k \in 1..Cardinality(at) : Of(k) \in at /\ Rank(at, Of(k)) = k
  BY <1>1, OneOfEachRank
<1>5. \A i \in at : Rank(at, i) \in 1..Cardinality(at) /\ Of(Rank(at, i)) = i
  <2> TAKE i \in at
  <2>1. i \in Nat /\ Rank(at, i) \in 1..Cardinality(at)
    BY <1>1, <1>3, Ranks
  <2>2. QED
    BY <1>1, <1>4, <2>1, OneOfEachRank
<1> HIDE DEF Of
<1>6. \A k \in 1..Cardinality(at) : list[Of(k)] \in R
  BY <1>4
<1>7. Among(list, at) \in Seq(R)
  BY <1>2, <1>3, <1>6
<1>8. DOMAIN Among(list, at) = 1..Cardinality(at)
  BY <1>2
<1>9. QED
  BY <1>2, <1>4, <1>5, <1>7, <1>8

-----------------------------------------------------------------------------
(* What the handlers do to the rows of the desk.                            *)

\* Rows whose newest version comes first.
Headed == {r \in Row : 1 \in DOMAIN r.history /\ r.history[1].n = r.n}

\* A list whose rows carry on rows of another.
Follows(after, before) ==
  \A m \in DOMAIN after : \E k \in DOMAIN before : CarriesOn(after[m], before[k])

LEMMA HeadedRow ==
  ASSUME NEW r \in Headed
  PROVE  /\ r \in Row /\ r.id \in Ids /\ r.status \in Statuses /\ r.text \in Wordings
         /\ r.n \in 1..MaxVersion /\ r.n \in Nat /\ r.history \in Seq(Version)
         /\ 1 \in DOMAIN r.history /\ r.history[1].n = r.n
BY BoundsAssumption DEF Headed, Row

LEMMA HeadedAreRows == Seq(Headed) \subseteq Seq(Row)
<1>1. Headed \subseteq Row
  BY DEF Headed
<1>2. QED
  BY <1>1

\* A snapshot is read from the entries that were written on the desk.
Reading(at, history) ==
  IF at = {} THEN None ELSE history[CHOOSE v \in at : \A u \in at : v <= u].text

LEMMA Told ==
  ASSUME NEW r, NEW n
  PROVE  Snapshot(r, n) = Reading(WrittenHere(r, n), r.history)
BY DEF Snapshot, Reading

\* A row whose snapshots are those of an earlier one shows what that one showed,
\* but for those that are blank.
LEMMA SnapshotsCarry ==
  ASSUME NEW q, NEW r, q.id = r.id, q.n >= r.n,
         \A n \in 1..(r.n - 1) : WrittenHere(r, n) # {} => Snapshot(q, n) = Snapshot(r, n)
  PROVE  CarriesOn(q, r)
<1>1. ASSUME NEW n \in 1..(r.n - 1), Snapshot(r, n) # None
      PROVE  Snapshot(q, n) = Snapshot(r, n)
  BY <1>1 DEF Snapshot
<1>2. ASSUME NEW n \in 1..(r.n - 1), Snapshot(r, n) # None, Snapshot(r, n) # Blank
      PROVE  VersionView(q, n) = VersionView(r, n)
  BY <1>1, <1>2 DEF VersionView
<1>3. QED
  BY <1>1, <1>2 DEF CarriesOn

LEMMA CarriesOnItself ==
  ASSUME NEW r \in Headed, NEW q, q.id = r.id, q.n = r.n, q.text = r.text, q.history = r.history
  PROVE  CarriesOn(q, r)
<1>1. \A n : WrittenHere(q, n) = WrittenHere(r, n)
  BY DEF WrittenHere
<1>2. \A n : Snapshot(q, n) = Snapshot(r, n)
  BY <1>1, Told
<1>3. q.n >= r.n
  BY HeadedRow
<1>4. QED
  BY <1>2, <1>3, SnapshotsCarry

LEMMA FollowsItself == ASSUME NEW list \in Seq(Headed) PROVE Follows(list, list)
<1>1. \A k \in DOMAIN list : list[k] \in Headed
  OBVIOUS
<1>2. \A k \in DOMAIN list : CarriesOn(list[k], list[k])
  BY <1>1, CarriesOnItself
<1>3. QED
  BY <1>2 DEF Follows

\* Nothing comes with rows that carry on others.
LEMMA FollowsIds ==
  ASSUME NEW after, NEW before, Follows(after, before)
  PROVE  RowIds(after) \subseteq RowIds(before)
BY DEF Follows, CarriesOn, RowIds

LEMMA UndeletedRows ==
  ASSUME NEW list \in Seq(Headed), NEW gone
  PROVE  /\ Undeleted(list, gone) \in Seq(Headed)
         /\ RowIds(Undeleted(list, gone)) \cap gone = {}
         /\ Follows(Undeleted(list, gone), list)
<1> DEFINE at == {k \in DOMAIN list : list[k].id \notin gone}
           new == Among(list, at)
<1>1. at \subseteq DOMAIN list /\ \A i \in at : i \in DOMAIN list /\ list[i].id \notin gone
  OBVIOUS
<1>2. Undeleted(list, gone) = new
  BY DEF Undeleted
<1> HIDE DEF at
<1>3. new \in Seq(Headed) /\ \A k \in DOMAIN new : \E i \in at : new[k] = list[i]
  BY <1>1, AmongRows
<1> HIDE DEF new
<1>4. RowIds(new) \cap gone = {}
  BY <1>1, <1>3 DEF RowIds
<1>5. Follows(new, list)
  <2>1. \A k \in DOMAIN list : CarriesOn(list[k], list[k])
    <3>1. \A k \in DOMAIN list : list[k] \in Headed
      OBVIOUS
    <3>2. QED
      BY <3>1, CarriesOnItself
  <2>2. QED
    BY <1>1, <1>3, <2>1 DEF Follows
<1>6. QED
  BY <1>2, <1>3, <1>4, <1>5

\* What a merge has under a deleted id is a local row.
LEMMA MergedScripts ==
  ASSUME NEW got \in Seq(Headed), NEW local \in Seq(Headed), NEW gone
  PROVE  /\ Merge(got, local, gone) \in Seq(Headed)
         /\ RowIds(Merge(got, local, gone)) \cap gone \subseteq RowIds(local)
<1> DEFINE mine == Undeleted(got, gone)
           at == {k \in DOMAIN local : /\ local[k].id \notin RowIds(mine)
                                       /\ \A j \in 1..(k - 1) : local[j].id # local[k].id}
           rest == Among(local, at)
<1>1. Merge(got, local, gone) = mine \o rest
  BY DEF Merge, LocalOnly
<1>2. at \subseteq DOMAIN local
  OBVIOUS
<1> HIDE DEF at
<1>3. rest \in Seq(Headed) /\ \A k \in DOMAIN rest : \E i \in at : rest[k] = local[i]
  BY <1>2, AmongRows
<1>4. mine \in Seq(Headed) /\ RowIds(mine) \cap gone = {}
  BY UndeletedRows
<1> HIDE DEF mine, rest
<1>5. mine \o rest \in Seq(Headed)
  BY <1>3, <1>4
<1>6. RowIds(mine \o rest) \subseteq RowIds(mine) \cup RowIds(local)
  <2>1. ASSUME NEW k \in DOMAIN (mine \o rest)
        PROVE  (mine \o rest)[k].id \in RowIds(mine) \cup RowIds(local)
    <3>1. /\ Len(mine) \in Nat /\ Len(rest) \in Nat /\ k \in 1..(Len(mine) + Len(rest))
          /\ DOMAIN mine = 1..Len(mine) /\ DOMAIN rest = 1..Len(rest)
      BY <1>3, <1>4
    <3>2. CASE k <= Len(mine)
      <4>1. k \in DOMAIN mine /\ (mine \o rest)[k] = mine[k]
        BY <1>3, <1>4, <3>1, <3>2
      <4>2. QED
        BY <4>1 DEF RowIds
    <3>3. CASE k > Len(mine)
      <4>1. k - Len(mine) \in DOMAIN rest /\ (mine \o rest)[k] = rest[k - Len(mine)]
        BY <1>3, <1>4, <3>1, <3>3
      <4>2. QED
        BY <1>2, <1>3, <4>1 DEF RowIds
    <3>4. QED
      BY <3>1, <3>2, <3>3
  <2>2. QED
    BY <2>1 DEF RowIds
<1>7. QED
  BY <1>1, <1>4, <1>5, <1>6

\* The script of a page is one of the list.
LEMMA ActiveRow ==
  ASSUME NEW list \in Seq(Headed), list # <<>>, NEW r
  PROVE  /\ ActiveScript(list, r) \in Headed
         /\ \E k \in DOMAIN list : ActiveScript(list, r) = list[k]
<1> DEFINE match == {k \in DOMAIN list : list[k].id = r.script}
           at == IF match = {} THEN 1 ELSE CHOOSE k \in match : \A j \in match : k <= j
<1>1. ActiveScript(list, r) = list[at]
  BY DEF ActiveScript
<1>2. at \in DOMAIN list
  <2>1. CASE match = {}
    BY <2>1
  <2>2. CASE match # {}
    <3>1. match \subseteq Nat /\ match \subseteq DOMAIN list
      OBVIOUS
    <3> HIDE DEF match
    <3>2. \E k \in match : \A j \in match : k <= j
      BY <2>2, <3>1, LeastNumber
    <3>3. QED
      BY <2>2, <3>1, <3>2
  <2>3. QED
    BY <2>1, <2>2
<1> HIDE DEF at
<1>3. QED
  BY <1>1, <1>2

LEMMA StatusRows ==
  ASSUME NEW list \in Seq(Headed), NEW i, NEW status \in Statuses
  PROVE  /\ SetStatus(list, i, status) \in Seq(Headed)
         /\ Follows(SetStatus(list, i, status), list)
<1> DEFINE new == SetStatus(list, i, status)
           set(r) == [r EXCEPT !.status = status]
<1>1. /\ Len(list) \in Nat /\ DOMAIN list = 1..Len(list) /\ DOMAIN new = 1..Len(list)
      /\ \A k \in DOMAIN list : list[k] \in Headed
  BY DEF SetStatus
<1>2. \A k \in DOMAIN list : new[k] = set(list[k]) \/ new[k] = list[k]
  BY DEF SetStatus
<1>3. \A r \in Headed : /\ set(r) \in Headed /\ set(r).id = r.id /\ set(r).n = r.n
                        /\ set(r).text = r.text /\ set(r).history = r.history
  BY DEF Headed, Row
<1> HIDE DEF set
<1>4. \A k \in DOMAIN list : /\ new[k] \in Headed /\ new[k].id = list[k].id
                             /\ new[k].n = list[k].n /\ new[k].text = list[k].text
                             /\ new[k].history = list[k].history
  BY <1>1, <1>2, <1>3
<1>5. new \in Seq(Headed)
  BY <1>1, <1>4 DEF SetStatus
<1> HIDE DEF new
<1>6. \A k \in DOMAIN list : CarriesOn(new[k], list[k])
  BY <1>1, <1>4, CarriesOnItself
<1>7. QED
  BY <1>1, <1>5, <1>6 DEF Follows, new

\* The entries before a new one are told as they were.
LEMMA ReadingBehind ==
  ASSUME NEW h, NEW g, NEW at \in SUBSET Nat, at # {},
         \A v \in at : g[v + 1] = h[v],
         NEW on, \A v \in at : v + 1 \in on, \A u \in on : \E v \in at : u = v + 1
  PROVE  Reading(on, g) = Reading(at, h)
<1>1. PICK x \in at : \A u \in at : x <= u
  BY LeastNumber
<1>2. x \in Nat /\ \A u \in at : u \in Nat
  BY <1>1
<1>3. (CHOOSE v \in at : \A u \in at : v <= u) = x
  <2>1. \A v \in at : (\A u \in at : v <= u) => v = x
    <3>1. ASSUME NEW v \in at, \A u \in at : v <= u PROVE v = x
      <4>1. v <= x /\ x <= v
        BY <1>1, <3>1
      <4>2. QED
        BY <1>2, <4>1
    <3>2. QED
      BY <3>1
  <2>2. QED
    BY <1>1, <2>1
<1>4. x + 1 \in on /\ \A u \in on : x + 1 <= u
  BY <1>1, <1>2
<1>5. (CHOOSE v \in on : \A u \in on : v <= u) = x + 1
  <2>1. \A u \in on : u \in Nat
    BY <1>2
  <2>2. \A v \in on : (\A u \in on : v <= u) => v = x + 1
    <3>1. ASSUME NEW v \in on, \A u \in on : v <= u PROVE v = x + 1
      <4>1. v <= x + 1 /\ x + 1 <= v /\ v \in Nat
        BY <1>4, <2>1, <3>1
      <4>2. QED
        BY <1>2, <4>1
    <3>2. QED
      BY <3>1
  <2>3. QED
    BY <1>4, <2>2
<1>6. on # {}
  BY <1>4
<1>7. Reading(at, h) = h[x].text
  BY <1>3 DEF Reading
<1>8. Reading(on, g) = g[x + 1].text
  BY <1>5, <1>6 DEF Reading
<1>9. QED
  BY <1>1, <1>7, <1>8

\* A live script's edit is its next version, before all others.
LEMMA SavedLive ==
  ASSUME NEW r \in Headed, NEW text \in Wordings, NEW status \in Statuses,
         r.status \in {"active", "approved"},
         Saved(r, text, status).n <= MaxVersion
  PROVE  Saved(r, text, status) \in Headed /\ CarriesOn(Saved(r, text, status), r)
<1> DEFINE n1 == r.n + 1
           e == [n |-> n1, status |-> status, text |-> text]
           g == <<e>> \o r.history
           q == [id |-> r.id, status |-> status, text |-> text, n |-> n1, history |-> g]
<1>1. /\ r.id \in Ids /\ r.status \in Statuses /\ r.n \in Nat /\ r.history \in Seq(Version)
      /\ r.n >= 1 /\ r = [id |-> r.id, status |-> r.status, text |-> r.text, n |-> r.n,
                          history |-> r.history]
  <2>1. r \in Row /\ r.n \in 1..MaxVersion
    BY HeadedRow
  <2>2. r = [id |-> r.id, status |-> r.status, text |-> r.text, n |-> r.n, history |-> r.history]
    BY <2>1 DEF Row
  <2>3. QED
    BY <2>1, <2>2, HeadedRow
<1>2. Saved(r, text, status) = q
  <2>1. Saved(r, text, status) = [r EXCEPT !.n = n1, !.text = text, !.status = status, !.history = g]
    BY DEF Saved
  <2> HIDE DEF g, n1
  <2>2. QED
    BY <1>1, <2>1
<1>3. n1 \in 1..MaxVersion
  <2>1. n1 <= MaxVersion
    BY <1>2
  <2>2. QED
    BY <1>1, <2>1, BoundsAssumption
<1>4. e \in Version
  BY <1>1, <1>3 DEF Version, EntryStatuses
<1> HIDE DEF e
<1>5. /\ g \in Seq(Version) /\ 1 \in DOMAIN g /\ g[1] = e
      /\ Len(r.history) \in Nat /\ DOMAIN r.history = 1..Len(r.history)
      /\ DOMAIN g = 1..(Len(r.history) + 1)
      /\ \A v \in DOMAIN r.history : g[v + 1] = r.history[v]
  BY <1>1, <1>4
<1>6. q \in Headed
  <2>1. e.n = n1
    BY DEF e
  <2> HIDE DEF g, n1
  <2>2. q \in Row
    BY <1>1, <1>3, <1>5 DEF Row
  <2>3. QED
    BY <1>5, <2>1, <2>2 DEF Headed
<1>7. ASSUME NEW n \in 1..(r.n - 1), WrittenHere(r, n) # {}
      PROVE  Snapshot(q, n) = Snapshot(r, n)
  <2> DEFINE at == WrittenHere(r, n)
             on == {v + 1 : v \in at}
  <2>1. at \in SUBSET Nat /\ \A v \in at : v \in DOMAIN r.history
    BY <1>5 DEF WrittenHere
  <2>2. \A v \in at : g[v + 1] = r.history[v]
    BY <1>5, <2>1
  <2>3. WrittenHere(q, n) = on
    <3>1. e.n # n
      BY <1>1 DEF e
    <3>2. q.history = g
      OBVIOUS
    <3>3. ASSUME NEW v \in DOMAIN r.history
          PROVE  v + 1 \in WrittenHere(q, n) <=> v \in at
      <4>1. v + 1 \in DOMAIN g /\ g[v + 1] = r.history[v]
        BY <1>5
      <4> HIDE DEF g
      <4>2. QED
        BY <3>2, <4>1 DEF WrittenHere
    <3>4. \A u \in WrittenHere(q, n) : u \in DOMAIN g /\ g[u].n = n
      <4> HIDE DEF g
      <4>1. QED
        BY <3>2 DEF WrittenHere
    <3>5. \A u \in WrittenHere(q, n) : \E v \in DOMAIN r.history : u = v + 1
      <4>1. ASSUME NEW u \in WrittenHere(q, n) PROVE u - 1 \in DOMAIN r.history /\ u = (u - 1) + 1
        <5>1. u \in 1..(Len(r.history) + 1) /\ u # 1
          BY <1>5, <3>1, <3>4
        <5>2. QED
          BY <1>5, <5>1
      <4>2. QED
        BY <4>1
    <3> HIDE DEF at, g, q
    <3>6. \A u \in WrittenHere(q, n) : u \in on
      BY <3>3, <3>5
    <3>7. \A u \in on : u \in WrittenHere(q, n)
      BY <2>1, <3>3
    <3>8. QED
      BY <3>6, <3>7
  <2>4. Snapshot(q, n) = Reading(on, g)
    <3>1. q.history = g /\ q.text = text
      OBVIOUS
    <3> HIDE DEF on, g, q
    <3>2. QED
      BY <2>3, <3>1, Told
  <2>5. Snapshot(r, n) = Reading(at, r.history)
    BY Told
  <2> HIDE DEF at, g, q
  <2>6. Reading(on, g) = Reading(at, r.history)
    <3>1. at # {}
      BY <1>7 DEF at
    <3>2. (\A v \in at : v + 1 \in on) /\ \A u \in on : \E v \in at : u = v + 1
      OBVIOUS
    <3> HIDE DEF on
    <3>3. QED
      BY <2>1, <2>2, <3>1, <3>2, ReadingBehind
  <2>7. QED
    BY <2>4, <2>5, <2>6
<1>8. q.id = r.id /\ q.n >= r.n
  BY <1>1
<1> HIDE DEF q
<1>9. QED
  BY <1>2, <1>6, <1>7, <1>8, SnapshotsCarry

\* A draft's edit changes the entry of its version and the newest one, which is
\* the same or one more of that version.
LEMMA SavedDraft ==
  ASSUME NEW r \in Headed, NEW text \in Wordings, NEW status \in Statuses,
         r.status \notin {"active", "approved"}
  PROVE  Saved(r, text, status) \in Headed /\ CarriesOn(Saved(r, text, status), r)
<1> DEFINE edited(v) == [r.history[v] EXCEPT !.text = text, !.status = status]
           g == [v \in DOMAIN r.history |->
                    IF v = 1 \/ r.history[v].n = r.n THEN edited(v) ELSE r.history[v]]
           q == [id |-> r.id, status |-> status, text |-> text, n |-> r.n, history |-> g]
<1>1. /\ r.id \in Ids /\ r.status \in Statuses /\ r.n \in 1..MaxVersion /\ r.n \in Nat
      /\ r.history \in Seq(Version) /\ 1 \in DOMAIN r.history /\ r.history[1].n = r.n
      /\ r = [id |-> r.id, status |-> r.status, text |-> r.text, n |-> r.n, history |-> r.history]
  <2>1. r \in Row
    BY HeadedRow
  <2>2. r = [id |-> r.id, status |-> r.status, text |-> r.text, n |-> r.n, history |-> r.history]
    BY <2>1 DEF Row
  <2>3. QED
    BY <2>2, HeadedRow
<1>2. Saved(r, text, status) = q
  <2>1. Saved(r, text, status) = [r EXCEPT !.text = text, !.status = status, !.history = g]
    BY DEF Saved
  <2> HIDE DEF g
  <2>2. QED
    BY <1>1, <2>1
<1>3. \A v \in DOMAIN r.history : /\ r.history[v] \in Version
                                  /\ edited(v) \in Version /\ edited(v).n = r.history[v].n
  <2>1. \A h \in Version : LET d == [h EXCEPT !.text = text, !.status = status] IN
                           d \in Version /\ d.n = h.n
    BY <1>1 DEF Version, EntryStatuses
  <2>2. TAKE v \in DOMAIN r.history
  <2>3. r.history[v] \in Version
    BY <1>1
  <2>4. QED
    BY <2>1, <2>3
<1>4. /\ DOMAIN g = DOMAIN r.history
      /\ \A v \in DOMAIN r.history : /\ g[v] \in Version /\ g[v].n = r.history[v].n
                                     /\ v # 1 /\ r.history[v].n # r.n => g[v] = r.history[v]
  <2> HIDE DEF edited
  <2>1. QED
    BY <1>3
<1>5. g \in Seq(Version)
  <2>1. DOMAIN r.history = 1..Len(r.history) /\ Len(r.history) \in Nat
    BY <1>1
  <2>2. g = [v \in 1..Len(r.history) |-> g[v]]
    BY <2>1
  <2> HIDE DEF g
  <2>3. QED
    BY <1>4, <2>1, <2>2
<1> HIDE DEF g, edited
<1>6. q \in Headed
  <2>1. q \in Row
    BY <1>1, <1>5 DEF Row
  <2>2. QED
    BY <1>1, <1>4, <2>1 DEF Headed
<1>7. ASSUME NEW n \in 1..(r.n - 1), WrittenHere(r, n) # {}
      PROVE  Snapshot(q, n) = Snapshot(r, n)
  <2> DEFINE at == WrittenHere(r, n)
  <2>1. n # r.n /\ q.history = g /\ q.text = text
    BY <1>1
  <2>2. \A v \in DOMAIN r.history : r.history[v].n = n => g[v] = r.history[v]
    BY <1>1, <1>4, <2>1
  <2>3. at \in SUBSET Nat /\ \A v \in at : v \in DOMAIN r.history /\ r.history[v].n = n
    BY <1>1 DEF WrittenHere
  <2>4. \A v \in at : g[v] = r.history[v]
    BY <2>2, <2>3
  <2>5. WrittenHere(q, n) = at
    BY <1>4, <2>1, <2>2 DEF WrittenHere
  <2>6. Snapshot(q, n) = Reading(at, g) /\ Snapshot(r, n) = Reading(at, r.history)
    BY <2>1, <2>5, Told
  <2> HIDE DEF at, q
  <2>7. Reading(at, g) = Reading(at, r.history)
    <3>1. at # {}
      BY <1>7 DEF at
    <3>2. (CHOOSE v \in at : \A u \in at : v <= u) \in at
      BY <2>3, <3>1, LeastNumber
    <3>3. QED
      BY <2>4, <3>1, <3>2 DEF Reading
  <2>8. QED
    BY <2>6, <2>7
<1>8. q.id = r.id /\ q.n >= r.n
  BY <1>1
<1> HIDE DEF q
<1>9. QED
  BY <1>2, <1>6, <1>7, <1>8, SnapshotsCarry

LEMMA EditedScripts ==
  ASSUME NEW list \in Seq(Headed), NEW i, NEW text \in Wordings, NEW status \in Statuses,
         \A k \in DOMAIN list : list[k].id = i => Saved(list[k], text, status).n <= MaxVersion
  PROVE  /\ Edited(list, i, text, status) \in Seq(Headed)
         /\ Follows(Edited(list, i, text, status), list)
<1> DEFINE new == Edited(list, i, text, status)
<1>1. /\ Len(list) \in Nat /\ DOMAIN list = 1..Len(list) /\ DOMAIN new = 1..Len(list)
      /\ \A k \in DOMAIN list : list[k] \in Headed
  BY DEF Edited
<1>2. \A k \in DOMAIN list : new[k] = IF list[k].id = i THEN Saved(list[k], text, status) ELSE list[k]
  BY DEF Edited
<1>3. ASSUME NEW k \in DOMAIN list PROVE new[k] \in Headed /\ CarriesOn(new[k], list[k])
  <2> HIDE DEF new
  <2>1. CASE list[k].id = i
    BY <1>1, <1>2, <2>1, SavedLive, SavedDraft
  <2>2. CASE list[k].id # i
    BY <1>1, <1>2, <2>2, CarriesOnItself
  <2>3. QED
    BY <2>1, <2>2
<1>4. new \in Seq(Headed)
  BY <1>1, <1>3 DEF Edited
<1> HIDE DEF new
<1>5. QED
  BY <1>1, <1>3, <1>4 DEF Follows, new

-----------------------------------------------------------------------------
(* The desk's invariant.                                                    *)

Address == [mode : Modes, script : Ids \cup {None}]

Screen == /\ shown \in Seq(Headed) /\ route \in Address
          /\ typed \in Wordings \cup {None} /\ (shown # <<>> => typed \in Wordings)

Storage == server \in Seq(ServerScript) /\ stored \in Seq(Headed) /\ deleted \subseteq Ids

SimOK == /\ sim \in [step : 0..2, of : Ids \cup {None}, outcome : Outcomes \cup {None}]
         /\ (sim.outcome = "qualified" => sim.step = 2) /\ (sim.step = 0) = (sim.of = None)

HeadedCalls ==
  [kind : Kinds, phase : {"idle", "sent", "served"}, ok : BOOLEAN, script : Ids \cup {None},
   temp : Temps \cup {None}, step : 0..2, local : Seq(Headed), gone : SUBSET Ids,
   got : Seq(Headed), desk : {"here", "left", "gone"}]

\* The local rows a fetch began with are those that were not deleted then.
CallOK(c) == c \in HeadedCalls /\ (c.kind = "fetch" => RowIds(c.local) \cap c.gone = {})

CallsOK == net \in [Slots -> HeadedCalls] /\ \A s \in Slots : CallOK(net[s])

Visit == person \in [parts : {v.parts : v \in Visits}, left : Nat] /\ lost \in 0..MaxLost

DeskInv == Screen /\ Storage /\ SimOK /\ CallsOK /\ Visit

LEMMA DeskInvIsTyped == DeskInv => DeskTypeOK
<1> SUFFICES ASSUME DeskInv PROVE DeskTypeOK
  OBVIOUS
<1>1. HeadedCalls \subseteq CallType
  BY HeadedAreRows DEF HeadedCalls, CallType
<1>2. shown \in Seq(Row) /\ stored \in Seq(Row)
  BY HeadedAreRows DEF DeskInv, Screen, Storage
<1>3. net \in [Slots -> CallType]
  BY <1>1 DEF DeskInv, CallsOK
<1>4. QED
  BY <1>2, <1>3 DEF DeskInv, Screen, Storage, SimOK, Visit, Address, DeskTypeOK

LEMMA Clicked == ASSUME Visit, NEW part, Click(part), lost' = lost PROVE Visit'
<1>1. person' = [person EXCEPT !.left = person.left - 1]
  BY DEF Click
<1>2. person.left \in Nat /\ person.left > 0
  BY DEF Visit, Click
<1>3. person.left - 1 \in Nat
  BY <1>2
<1>4. QED
  BY <1>1, <1>3 DEF Visit

\* The screen is given other rows, or another page.
LEMMA Screened ==
  ASSUME Screen, NEW list \in Seq(Headed), NEW r \in Address, Show(list, r) \/ ShowAnew(list, r)
  PROVE  Screen' /\ shown' = list
<1>1. shown' = list /\ route' = r
  BY DEF Show, ShowAnew
<1>2. CASE typed' = typed /\ (list = <<>> \/ shown # <<>>)
  BY <1>1, <1>2 DEF Screen
<1>3. CASE list # <<>> /\ typed' = ActiveScript(list, r).text
  <2>1. ActiveScript(list, r).text \in Wordings
    BY <1>3, ActiveRow, HeadedRow
  <2>2. QED
    BY <1>1, <1>3, <2>1 DEF Screen
<1>4. QED
  BY <1>2, <1>3 DEF Show, ShowAnew

LEMMA SlotGiven ==
  ASSUME CallsOK, NEW s \in Slots, NEW c, CallOK(c), net' = [net EXCEPT ![s] = c]
  PROVE  CallsOK'
BY DEF CallsOK, CallOK

LEMMA NoCall == CallOK(Idle)
BY DEF CallOK, HeadedCalls, Idle, Kinds

LEMMA CallMade ==
  ASSUME NEW kind \in Kinds \ {"fetch"}, NEW i \in Ids \cup {None}
  PROVE  LET c == Call(kind, i) IN
         CallOK(c) /\ c.kind = kind /\ c.script = i /\ c.desk = "here"
<1> DEFINE c == Call(kind, i)
<1>1. Idle \in HeadedCalls
  BY NoCall DEF CallOK
<1>2. c = [Idle EXCEPT !.kind = kind, !.phase = "sent", !.script = i]
  BY DEF Call
<1>3. c \in HeadedCalls /\ c.kind = kind /\ c.script = i /\ c.desk = Idle.desk
  BY <1>1, <1>2 DEF HeadedCalls
<1>4. Idle.desk = "here"
  BY DEF Idle
<1> HIDE DEF c
<1>5. QED
  BY <1>3, <1>4 DEF CallOK, c

LEMMA FetchMade ==
  ASSUME Storage, NEW i \in Ids \cup {None}
  PROVE  CallOK(Fetch(i)) /\ \A desk \in {"here", "left", "gone"} :
                                CallOK([Fetch(i) EXCEPT !.desk = desk])
<1> DEFINE local == Undeleted(stored, deleted)
           c == Fetch(i)
<1>1. Idle \in HeadedCalls
  BY NoCall DEF CallOK
<1>2. local \in Seq(Headed) /\ RowIds(local) \cap deleted = {} /\ deleted \in SUBSET Ids
  BY UndeletedRows DEF Storage
<1>3. c = [[Idle EXCEPT !.kind = "fetch", !.phase = "sent", !.script = i]
             EXCEPT !.local = local, !.gone = deleted]
  BY DEF Fetch, Call
<1> HIDE DEF local
<1>4. c \in HeadedCalls /\ c.local = local /\ c.gone = deleted
  BY <1>1, <1>2, <1>3 DEF HeadedCalls, Kinds
<1> HIDE DEF c
<1>5. ASSUME NEW desk \in {"here", "left", "gone"}
      PROVE  LET d == [c EXCEPT !.desk = desk] IN
             d \in HeadedCalls /\ d.local = local /\ d.gone = deleted
  BY <1>4 DEF HeadedCalls
<1>6. QED
  BY <1>2, <1>4, <1>5 DEF CallOK, c

LEMMA CallStarted ==
  ASSUME CallsOK, NEW c, CallOK(c), Start(c)
  PROVE  CallsOK'
<1>1. PICK s \in Slots : net' = [net EXCEPT ![s] = c]
  BY DEF Start, Free
<1>2. QED
  BY <1>1, SlotGiven

LEMMA ListedRows ==
  ASSUME NEW i, i \in Listed
  PROVE  i \in RowIds(shown)
BY DEF Listed, FilteredScripts, RowIds

-----------------------------------------------------------------------------
(* The server and the network.                                              *)

LEMMA AnswerGiven ==
  ASSUME CallsOK, NEW s \in Slots, NEW ok \in BOOLEAN, NEW got \in Seq(Headed),
         NEW i \in Ids \cup {None},
         net' = [net EXCEPT ![s] = IF net[s].desk = "gone" THEN Idle
                                   ELSE [net[s] EXCEPT !.phase = "served", !.ok = ok,
                                                       !.got = got, !.script = i]]
  PROVE  CallsOK'
<1> DEFINE c == net[s]
           d == [c EXCEPT !.phase = "served", !.ok = ok, !.got = got, !.script = i]
<1>1. CASE c.desk = "gone"
  <2>1. net' = [net EXCEPT ![s] = Idle]
    BY <1>1
  <2>2. QED
    BY <2>1, NoCall, SlotGiven
<1>2. CASE c.desk # "gone"
  <2>1. net' = [net EXCEPT ![s] = d]
    BY <1>2
  <2>2. CallOK(c) /\ c \in HeadedCalls
    BY DEF CallsOK, CallOK
  <2>3. d \in HeadedCalls /\ d.kind = c.kind /\ d.local = c.local /\ d.gone = c.gone
    BY <2>2 DEF HeadedCalls
  <2> HIDE DEF c, d
  <2>4. CallOK(d)
    BY <2>2, <2>3 DEF CallOK
  <2>5. QED
    BY <2>1, <2>4, SlotGiven
<1>3. QED
  BY <1>1, <1>2

LEMMA Reviewed ==
  ASSUME server \in Seq(ServerScript), NEW k \in DOMAIN server,
         NEW to \in {"pending_approval", "approved"},
         server' = [server EXCEPT ![k].first = to,
                        ![k].status = IF to = "approved" /\ @ = "draft" THEN to ELSE @]
  PROVE  server' \in Seq(ServerScript)
<1> DEFINE w == server[k]
           status == IF to = "approved" /\ w.status = "draft" THEN to ELSE w.status
           d == [w EXCEPT !.first = to, !.status = status]
<1>1. w \in ServerScript
  OBVIOUS
<1>2. status \in Statuses
  BY <1>1 DEF ServerScript, Statuses
<1>3. server' = [server EXCEPT ![k] = d]
  BY <1>1 DEF ServerScript
<1> HIDE DEF status
<1>4. d \in ServerScript
  BY <1>1, <1>2 DEF ServerScript, EntryStatuses, Statuses
<1> HIDE DEF d
<1>5. /\ Len(server) \in Nat /\ DOMAIN server = 1..Len(server)
      /\ \A j \in DOMAIN server : server[j] \in ServerScript
  OBVIOUS
<1> DEFINE after == [j \in 1..Len(server) |-> IF j = k THEN d ELSE server[j]]
<1>6. server' = after
  BY <1>3, <1>5
<1>7. \A j \in 1..Len(server) : after[j] \in ServerScript
  BY <1>4, <1>5
<1>8. after \in Seq(ServerScript)
  BY <1>5, <1>7
<1>9. QED
  BY <1>6, <1>8

LEMMA ServerRowHeaded ==
  ASSUME NEW w \in ServerScript
  PROVE  ServerRow(w) \in Headed
<1>1. w.id \in Ids /\ w.status \in Statuses /\ w.first \in EntryStatuses /\ w.text \in Wordings
  BY DEF ServerScript, Worded
<1>2. 1 \in 1..MaxVersion
  BY BoundsAssumption
<1> DEFINE e == [n |-> 1, status |-> w.first, text |-> None]
<1>3. e \in Version /\ e.n = 1
  BY <1>1, <1>2 DEF Version
<1>4. ServerRow(w) = [id |-> w.id, status |-> w.status, text |-> w.text, n |-> 1, history |-> <<e>>]
  BY DEF ServerRow
<1> HIDE DEF e
<1>5. <<e>> \in Seq(Version) /\ 1 \in DOMAIN <<e>> /\ <<e>>[1] = e
  BY <1>3
<1>6. QED
  BY <1>1, <1>2, <1>3, <1>4, <1>5 DEF Headed, Row

LEMMA ServerRowsHeaded ==
  ASSUME NEW list \in Seq(ServerScript)
  PROVE  [k \in DOMAIN list |-> ServerRow(list[k])] \in Seq(Headed)
<1>1. \A k \in DOMAIN list : ServerRow(list[k]) \in Headed
  <2>1. \A k \in DOMAIN list : list[k] \in ServerScript
    OBVIOUS
  <2>2. QED
    BY <2>1, ServerRowHeaded
<1>2. DOMAIN list = 1..Len(list) /\ Len(list) \in Nat
  OBVIOUS
<1>3. QED
  BY <1>1, <1>2

LEMMA ScriptServed == ASSUME DeskInv, NEW s \in Slots, Serve(s) PROVE DeskInv' /\ shown' = shown
<1> DEFINE c == net[s]
           answer(ok, got, i) ==
             net' = [net EXCEPT ![s] = IF c.desk = "gone" THEN Idle
                                       ELSE [c EXCEPT !.phase = "served", !.ok = ok,
                                                      !.got = got, !.script = i]]
           listed == [k \in DOMAIN server |-> ServerRow(server[k])]
           made(i, t) == [id |-> i, status |-> "draft", first |-> "draft", text |-> t]
           review(k, to) ==
             server' = [server EXCEPT ![k].first = to,
                            ![k].status = IF to = "approved" /\ @ = "draft" THEN to ELSE @]
<1>1. UNCHANGED <<shown, stored, deleted, route, typed, sim, person, lost>>
  BY DEF Serve
<1>2. \/ answer(TRUE, listed, c.script) /\ UNCHANGED server
      \/ \E i \in New \ RowIds(server), t \in Worded :
            server' = <<made(i, t)>> \o server /\ answer(TRUE, <<>>, i)
      \/ \E k \in DOMAIN server, to \in {"pending_approval", "approved"} :
            review(k, to) /\ answer(TRUE, <<>>, c.script)
      \/ answer(FALSE, <<>>, c.script) /\ UNCHANGED server
  BY DEF Serve
<1>3. /\ CallsOK /\ server \in Seq(ServerScript) /\ c.script \in Ids \cup {None}
      /\ <<>> \in Seq(Headed) /\ listed \in Seq(Headed)
  <2>1. CallsOK /\ server \in Seq(ServerScript) /\ CallOK(c)
    BY DEF DeskInv, Storage, CallsOK
  <2>2. c.script \in Ids \cup {None}
    BY <2>1 DEF CallOK, HeadedCalls
  <2>3. QED
    BY <2>1, <2>2, ServerRowsHeaded
<1> HIDE DEF listed, made
<1>4. CallsOK' /\ server' \in Seq(ServerScript)
  <2>1. CASE answer(TRUE, listed, c.script) /\ UNCHANGED server
    BY <1>3, <2>1, AnswerGiven
  <2>2. ASSUME NEW i \in New \ RowIds(server), NEW t \in Worded,
               server' = <<made(i, t)>> \o server, answer(TRUE, <<>>, i)
        PROVE  CallsOK' /\ server' \in Seq(ServerScript)
    <3>1. i \in Ids \ Temps
      BY IdsAssumption DEF Ids
    <3>2. CallsOK'
      BY <1>3, <2>2, <3>1, AnswerGiven
    <3>3. made(i, t) \in ServerScript
      BY <3>1 DEF made, ServerScript, Statuses, EntryStatuses
    <3>4. QED
      BY <1>3, <2>2, <3>2, <3>3
  <2>3. ASSUME NEW k \in DOMAIN server, NEW to \in {"pending_approval", "approved"},
               review(k, to), answer(TRUE, <<>>, c.script)
        PROVE  CallsOK' /\ server' \in Seq(ServerScript)
    BY <1>3, <2>3, AnswerGiven, Reviewed
  <2>4. CASE answer(FALSE, <<>>, c.script) /\ UNCHANGED server
    BY <1>3, <2>4, AnswerGiven
  <2>5. QED
    BY <1>2, <2>1, <2>2, <2>3, <2>4
<1>5. QED
  BY <1>1, <1>4 DEF DeskInv, Screen, Storage, SimOK, Visit

LEMMA CallLost == ASSUME DeskInv, NEW s \in Slots, Lose(s) PROVE DeskInv' /\ shown' = shown
<1> DEFINE c == net[s]
           d == [c EXCEPT !.phase = "served", !.ok = FALSE, !.got = <<>>]
<1>1. /\ UNCHANGED <<server, shown, stored, deleted, route, typed, sim, person>>
      /\ lost < MaxLost /\ lost' = lost + 1
  BY DEF Lose
<1>2. CallsOK /\ CallOK(c) /\ c \in HeadedCalls
  BY DEF DeskInv, CallsOK, CallOK
<1>3. net' = [net EXCEPT ![s] = d]
  BY <1>2 DEF Lose, CallsOK, HeadedCalls
<1>4. d \in HeadedCalls /\ d.kind = c.kind /\ d.local = c.local /\ d.gone = c.gone
  <2>1. <<>> \in Seq(Headed)
    OBVIOUS
  <2>2. QED
    BY <1>2, <2>1 DEF HeadedCalls
<1> HIDE DEF d
<1>5. CallsOK'
  <2>1. CallOK(d)
    BY <1>2, <1>4 DEF CallOK
  <2>2. QED
    BY <1>2, <1>3, <2>1, SlotGiven
<1>6. lost' \in 0..MaxLost
  BY <1>1, BoundsAssumption DEF DeskInv, Visit
<1>7. QED
  BY <1>1, <1>5, <1>6 DEF DeskInv, Screen, Storage, SimOK, Visit

\* An answered fetch shows the server's rows that were not deleted when it
\* began, and local rows that were not.
LEMMA FetchShown ==
  ASSUME DeskInv, NEW s \in Slots, FetchAnswered(s)
  PROVE  DeskInv' /\ RowIds(shown') \cap net[s].gone \subseteq RowIds(shown)
<1> DEFINE c == net[s]
           merged == Merge(c.got, c.local, c.gone)
           then == IF c.script = None THEN route ELSE Overview(c.script)
           list == IF c.ok THEN merged ELSE c.local
<1>1. /\ c.kind = "fetch"
      /\ IF c.desk = "here" /\ (c.ok \/ c.local # <<>>) THEN ShowAnew(list, then)
                                                        ELSE Show(shown, then)
      /\ stored' = IF c.ok THEN merged ELSE stored
      /\ net' = [net EXCEPT ![s] = Idle]
      /\ UNCHANGED <<server, deleted, sim, person, lost>>
  BY DEF FetchAnswered, Arrives
<1>2. /\ Screen /\ Storage /\ CallsOK /\ CallOK(c)
      /\ c.got \in Seq(Headed) /\ c.local \in Seq(Headed) /\ c.script \in Ids \cup {None}
      /\ RowIds(c.local) \cap c.gone = {}
  <2>1. Screen /\ Storage /\ CallsOK /\ CallOK(c)
    BY DEF DeskInv, CallsOK
  <2>2. QED
    BY <1>1, <2>1 DEF CallOK, HeadedCalls
<1>3. merged \in Seq(Headed) /\ RowIds(merged) \cap c.gone = {}
  <2>1. RowIds(merged) \cap c.gone \subseteq RowIds(c.local)
    BY <1>2, MergedScripts
  <2>2. QED
    BY <1>2, <2>1, MergedScripts
<1>4. then \in Address
  BY <1>2 DEF Screen, Address, Overview, Modes
<1>5. list \in Seq(Headed) /\ RowIds(list) \cap c.gone = {}
  BY <1>2, <1>3
<1>6. Screen' /\ (shown' = list \/ shown' = shown)
  <2>1. shown \in Seq(Headed)
    BY <1>2 DEF Screen
  <2> HIDE DEF list, then
  <2>2. QED
    BY <1>1, <1>2, <1>4, <1>5, <2>1, Screened
<1>7. CallsOK'
  BY <1>1, <1>2, NoCall, SlotGiven
<1>8. DeskInv'
  BY <1>1, <1>2, <1>3, <1>6, <1>7 DEF DeskInv, Storage, SimOK, Visit
<1>9. QED
  BY <1>5, <1>6, <1>8

-----------------------------------------------------------------------------
(* The library, the new script and the overview.                           *)

\* Where the rows stay, or are rows that carry on those of before.
Continues == Follows(shown', shown)

LEMMA SameRows == ASSUME Screen, shown' = shown PROVE Continues
BY FollowsItself DEF Screen, Continues

\* A step of the person, or an answer, that leaves the rows and the storage.
LEMMA Navigated ==
  ASSUME DeskInv, NEW r \in Address, Navigate(r)
  PROVE  DeskInv' /\ Continues
<1>1. Screen /\ shown \in Seq(Headed)
  BY DEF DeskInv, Screen
<1>2. Show(shown, r) /\ UNCHANGED <<server, stored, deleted, sim, net, person, lost>>
  BY DEF Navigate
<1>3. Screen' /\ shown' = shown
  BY <1>1, <1>2, Screened
<1>4. QED
  BY <1>1, <1>2, <1>3, SameRows DEF DeskInv, Storage, SimOK, CallsOK, CallOK, Visit

LEMMA OverviewAddress ==
  ASSUME NEW i \in Ids \cup {None}
  PROVE  Overview(i) \in Address
BY DEF Overview, Address, Modes

\* The rows of the creation: a draft under the made-up id, then the others.
LEMMA Created ==
  ASSUME DeskInv, NEW t \in Temps, HandleCreateScript(t)
  PROVE  /\ DeskInv' /\ RowIds(shown') = RowIds(shown) \cup {t}
         /\ \A m \in DOMAIN shown' : m = 1 \/ \E k \in DOMAIN shown : CarriesOn(shown'[m], shown[k])
<1> DEFINE entry(text) == [n |-> 1, status |-> "draft", text |-> text]
           new(text) == [id |-> t, status |-> "draft", text |-> text, n |-> 1,
                         history |-> <<entry(text)>>]
           list(text) == <<new(text)>> \o shown
           c == [Call("create", t) EXCEPT !.temp = t]
<1>1. /\ Click("new") /\ stored' = shown' /\ Start(c) /\ UNCHANGED <<server, deleted, sim, lost>>
      /\ \E text \in Wordings : Show(list(text), route)
  BY DEF HandleCreateScript, Worded
<1>2. PICK text \in Wordings : Show(list(text), route)
  BY <1>1
<1>3. /\ Screen /\ Storage /\ CallsOK /\ Visit /\ SimOK
      /\ shown \in Seq(Headed) /\ route \in Address /\ t \in Ids
  BY DEF DeskInv, Screen, Ids
<1>4. new(text) \in Headed /\ new(text).id = t
  <2>1. 1 \in 1..MaxVersion
    BY BoundsAssumption
  <2>2. entry(text) \in Version /\ entry(text).n = 1
    BY <2>1 DEF Version, EntryStatuses, Statuses
  <2> HIDE DEF entry
  <2>3. <<entry(text)>> \in Seq(Version) /\ 1 \in DOMAIN <<entry(text)>> /\ <<entry(text)>>[1] = entry(text)
    BY <2>2
  <2>4. QED
    BY <1>3, <2>1, <2>2, <2>3 DEF Headed, Row, Statuses
<1> HIDE DEF new
<1>5. /\ list(text) \in Seq(Headed) /\ Len(shown) \in Nat /\ DOMAIN shown = 1..Len(shown)
      /\ DOMAIN list(text) = 1..(Len(shown) + 1) /\ list(text)[1] = new(text)
      /\ \A k \in DOMAIN shown : k + 1 \in DOMAIN list(text) /\ list(text)[k + 1] = shown[k]
  BY <1>3, <1>4
<1> HIDE DEF list
<1>6. Screen' /\ shown' = list(text)
  BY <1>2, <1>3, <1>5, Screened
<1>7. \A m \in DOMAIN list(text) : m = 1 \/ \E k \in DOMAIN shown : list(text)[m] = shown[k]
  <2> SUFFICES ASSUME NEW m \in DOMAIN list(text), m # 1
               PROVE  \E k \in DOMAIN shown : list(text)[m] = shown[k]
    OBVIOUS
  <2>1. m - 1 \in DOMAIN shown /\ (m - 1) + 1 = m
    BY <1>5
  <2>2. QED
    BY <1>5, <2>1
<1>8. RowIds(list(text)) = RowIds(shown) \cup {t}
  <2>1. 1 \in DOMAIN list(text)
    BY <1>5
  <2>2. QED
    BY <1>4, <1>5, <1>7, <2>1 DEF RowIds
<1>9. \A k \in DOMAIN shown : CarriesOn(shown[k], shown[k])
  <2>1. \A k \in DOMAIN shown : shown[k] \in Headed
    BY <1>3
  <2>2. QED
    BY <2>1, CarriesOnItself
<1>10. CallOK(c)
  <2> DEFINE b == Call("create", t)
  <2>1. CallOK(b) /\ b.kind = "create"
    BY <1>3, CallMade DEF Kinds
  <2>2. b \in HeadedCalls
    BY <2>1 DEF CallOK
  <2> HIDE DEF b
  <2>3. LET d == [b EXCEPT !.temp = t] IN d \in HeadedCalls /\ d.kind = b.kind
    BY <2>2 DEF HeadedCalls
  <2>4. QED
    BY <2>1, <2>3 DEF CallOK, b
<1>11. CallsOK'
  BY <1>1, <1>3, <1>10, CallStarted
<1>12. Visit'
  BY <1>1, <1>3, Clicked
<1>13. Storage'
  BY <1>1, <1>3, <1>5, <1>6 DEF Storage
<1>14. QED
  BY <1>1, <1>3, <1>6, <1>7, <1>8, <1>9, <1>11, <1>12, <1>13 DEF DeskInv, SimOK

LEMMA CreationAnswered ==
  ASSUME DeskInv, NEW s \in Slots, CreateAnswered(s)
  PROVE  DeskInv' /\ Continues
<1> DEFINE c == net[s]
<1>1. /\ UNCHANGED <<server, stored, deleted, sim, person, lost>>
      /\ \/ /\ net' = [net EXCEPT ![s] = [Fetch(c.script) EXCEPT !.desk = c.desk]]
            /\ UNCHANGED <<shown, route, typed>>
         \/ net' = [net EXCEPT ![s] = Idle] /\ Show(shown, Overview(c.temp))
  BY DEF CreateAnswered
<1>2. Screen /\ Storage /\ CallsOK /\ CallOK(c) /\ shown \in Seq(Headed)
  BY DEF DeskInv, CallsOK, Screen
<1>3. /\ c.script \in Ids \cup {None} /\ c.temp \in Ids \cup {None}
      /\ c.desk \in {"here", "left", "gone"}
  BY <1>2 DEF CallOK, HeadedCalls, Ids
<1>4. Screen' /\ shown' = shown /\ CallsOK'
  <2>1. CASE /\ net' = [net EXCEPT ![s] = [Fetch(c.script) EXCEPT !.desk = c.desk]]
             /\ UNCHANGED <<shown, route, typed>>
    <3>1. CallOK([Fetch(c.script) EXCEPT !.desk = c.desk])
      BY <1>2, <1>3, FetchMade
    <3>2. CallsOK'
      BY <1>2, <2>1, <3>1, SlotGiven
    <3>3. QED
      BY <1>2, <2>1, <3>2 DEF Screen
  <2>2. CASE net' = [net EXCEPT ![s] = Idle] /\ Show(shown, Overview(c.temp))
    <3>1. CallsOK'
      BY <1>2, <2>2, NoCall, SlotGiven
    <3>2. QED
      BY <1>2, <1>3, <2>2, <3>1, OverviewAddress, Screened
  <2>3. QED
    BY <1>1, <2>1, <2>2
<1>5. QED
  BY <1>1, <1>2, <1>4, SameRows DEF DeskInv, Storage, SimOK, Visit

LEMMA Activated ==
  ASSUME DeskInv, NEW i \in Ids, Activate(i)
  PROVE  DeskInv' /\ Continues
<1> DEFINE list == SetStatus(shown, i, "active")
           b == Call("review", i)
           c == [b EXCEPT !.step = 1]
<1>1. /\ Click("overview") /\ Show(list, route) /\ stored' = shown' /\ Start(c)
      /\ UNCHANGED <<server, deleted, sim, lost>>
  BY DEF Activate
<1>2. Screen /\ Storage /\ CallsOK /\ Visit /\ shown \in Seq(Headed) /\ route \in Address
  BY DEF DeskInv, Screen
<1>3. list \in Seq(Headed) /\ Follows(list, shown)
  BY <1>2, StatusRows DEF Statuses
<1> HIDE DEF list
<1>4. Screen' /\ shown' = list
  BY <1>1, <1>2, <1>3, Screened
<1>5. CallOK(c)
  <2>1. CallOK(b) /\ b.kind = "review" /\ b \in HeadedCalls
    BY CallMade DEF Kinds, CallOK
  <2> HIDE DEF b
  <2>2. c \in HeadedCalls /\ c.kind = b.kind
    BY <2>1 DEF HeadedCalls
  <2>3. QED
    BY <2>1, <2>2 DEF CallOK
<1> HIDE DEF c
<1>6. CallsOK' /\ Visit'
  BY <1>1, <1>2, <1>5, CallStarted, Clicked
<1>7. QED
  BY <1>1, <1>2, <1>3, <1>4, <1>6 DEF DeskInv, Storage, SimOK, Continues

\* The next of the requests that follow one another.
LEMMA SentAgain ==
  ASSUME NEW c \in HeadedCalls, NEW step \in 0..2, NEW desk \in {"here", "left", "gone"}
  PROVE  /\ [c EXCEPT !.step = step, !.desk = desk] \in HeadedCalls
         /\ [c EXCEPT !.step = step, !.desk = desk].kind = c.kind
BY DEF HeadedCalls

LEMMA ReviewReturned ==
  ASSUME DeskInv, NEW s \in Slots, ReviewAnswered(s)
  PROVE  DeskInv' /\ Continues
<1> DEFINE c == net[s]
           b == Call("review", c.script)
           d == [b EXCEPT !.step = 2, !.desk = c.desk]
<1>1. UNCHANGED <<server, shown, stored, deleted, route, typed, sim, person, lost>>
  BY DEF ReviewAnswered
<1>2. Screen /\ CallsOK /\ CallOK(c)
  BY DEF DeskInv, CallsOK
<1>3. net' = [net EXCEPT ![s] = d] \/ net' = [net EXCEPT ![s] = Idle]
  BY <1>2 DEF ReviewAnswered, CallsOK
<1>4. c.script \in Ids \cup {None} /\ c.desk \in {"here", "left", "gone"}
  BY <1>2 DEF CallOK, HeadedCalls
<1> HIDE DEF c
<1>5. CallOK(d)
  <2>1. CallOK(b) /\ b.kind = "review" /\ b \in HeadedCalls
    BY <1>4, CallMade DEF Kinds, CallOK
  <2> HIDE DEF b
  <2>2. [b EXCEPT !.step = 2, !.desk = c.desk] \in HeadedCalls
        /\ [b EXCEPT !.step = 2, !.desk = c.desk].kind = b.kind
    <3>1. 2 \in 0..2 /\ b \in HeadedCalls
      BY <2>1
    <3>2. QED
      BY <1>4, <3>1, SentAgain, Zenon
  <2>3. QED
    BY <2>1, <2>2 DEF CallOK
<1> HIDE DEF d
<1>6. CallsOK'
  BY <1>2, <1>3, <1>5, NoCall, SlotGiven
<1>7. QED
  BY <1>1, <1>2, <1>6, SameRows DEF DeskInv, Screen, Storage, SimOK, Visit

LEMMA Deactivated ==
  ASSUME DeskInv, NEW i \in Ids, Deactivate(i)
  PROVE  DeskInv' /\ Continues
<1> DEFINE list == SetStatus(shown, i, "draft")
<1>1. /\ Click("overview") /\ Show(list, route) /\ stored' = shown'
      /\ UNCHANGED <<server, deleted, sim, net, lost>>
  BY DEF Deactivate
<1>2. Screen /\ Storage /\ CallsOK /\ Visit /\ shown \in Seq(Headed) /\ route \in Address
  BY DEF DeskInv, Screen
<1>3. list \in Seq(Headed) /\ Follows(list, shown)
  BY <1>2, StatusRows DEF Statuses
<1> HIDE DEF list
<1>4. Screen' /\ shown' = list /\ Visit'
  BY <1>1, <1>2, <1>3, Screened, Clicked
<1>5. QED
  BY <1>1, <1>2, <1>3, <1>4 DEF DeskInv, Storage, SimOK, CallsOK, CallOK, Continues

LEMMA ScriptDeleted ==
  ASSUME DeskInv, NEW i \in Ids, DeleteScript(i)
  PROVE  DeskInv' /\ Continues
<1> DEFINE list == Undeleted(shown, {i})
           c == Call("delete", i)
<1>1. /\ Click("overview") /\ Show(list, route) /\ stored' = shown' /\ Start(c)
      /\ deleted' = deleted \cup {i} /\ UNCHANGED <<server, sim, lost>>
  BY DEF DeleteScript
<1>2. Screen /\ Storage /\ CallsOK /\ Visit /\ shown \in Seq(Headed) /\ route \in Address
  BY DEF DeskInv, Screen
<1>3. list \in Seq(Headed) /\ Follows(list, shown)
  BY <1>2, UndeletedRows
<1> HIDE DEF list
<1>4. Screen' /\ shown' = list
  BY <1>1, <1>2, <1>3, Screened
<1>5. CallOK(c)
  BY CallMade DEF Kinds
<1> HIDE DEF c
<1>6. CallsOK' /\ Visit'
  BY <1>1, <1>2, <1>5, CallStarted, Clicked
<1>7. QED
  BY <1>1, <1>2, <1>3, <1>4, <1>6 DEF DeskInv, Storage, SimOK, Continues

LEMMA DeletionAnswered ==
  ASSUME DeskInv, NEW s \in Slots, DeleteAnswered(s)
  PROVE  DeskInv' /\ Continues
<1> DEFINE library == [mode |-> "library", script |-> None]
<1>1. /\ net' = [net EXCEPT ![s] = Idle] /\ Show(shown, library)
      /\ UNCHANGED <<server, stored, deleted, sim, person, lost>>
  BY DEF DeleteAnswered
<1>2. Screen /\ CallsOK /\ shown \in Seq(Headed) /\ library \in Address
  BY DEF DeskInv, Screen, Address, Modes
<1> HIDE DEF library
<1>3. Screen' /\ shown' = shown
  BY <1>1, <1>2, Screened
<1>4. CallsOK'
  BY <1>1, <1>2, NoCall, SlotGiven
<1>5. QED
  BY <1>1, <1>2, <1>3, <1>4, SameRows DEF DeskInv, Storage, SimOK, Visit

-----------------------------------------------------------------------------
(* The editor and the simulator.                                           *)

LEMMA Typing ==
  ASSUME DeskInv, NEW text \in Wordings, Type(text)
  PROVE  DeskInv' /\ Continues
BY SameRows DEF Type, DeskInv, Screen, Storage, SimOK, CallsOK, CallOK, Visit

LEMMA EditsSaved ==
  ASSUME DeskInv, NEW activate \in BOOLEAN, SaveEdits(activate)
  PROVE  DeskInv' /\ Continues
<1> DEFINE i == ActiveScript(shown, route).id
           status == ActiveScript(shown, route).status
           list == Edited(shown, i, typed, status)
           kind == IF activate THEN "saveActivate" ELSE "save"
           c == Call(kind, i)
<1>1. /\ shown # <<>> /\ Click("edit")
      /\ \A k \in DOMAIN shown : shown[k].id = i => Saved(shown[k], typed, status).n <= MaxVersion
      /\ Show(list, route) /\ stored' = shown' /\ Start(c)
      /\ UNCHANGED <<server, deleted, sim, lost>>
  BY DEF SaveEdits, EditorOffered
<1>2. /\ Screen /\ Storage /\ CallsOK /\ Visit /\ shown \in Seq(Headed) /\ route \in Address
      /\ typed \in Wordings
  BY <1>1 DEF DeskInv, Screen
<1>3. i \in Ids /\ status \in Statuses
  BY <1>1, <1>2, ActiveRow, HeadedRow
<1> HIDE DEF i, status
<1>4. list \in Seq(Headed) /\ Follows(list, shown)
  BY <1>1, <1>2, <1>3, EditedScripts
<1> HIDE DEF list
<1>5. Screen' /\ shown' = list
  BY <1>1, <1>2, <1>4, Screened
<1>6. kind \in Kinds \ {"fetch"}
  BY DEF Kinds
<1> HIDE DEF kind
<1>7. CallOK(c)
  BY <1>3, <1>6, CallMade
<1> HIDE DEF c
<1>8. CallsOK' /\ Visit'
  BY <1>1, <1>2, <1>7, CallStarted, Clicked
<1>9. QED
  BY <1>1, <1>2, <1>4, <1>5, <1>8 DEF DeskInv, Storage, SimOK, Continues

LEMMA SavingAnswered ==
  ASSUME DeskInv, NEW s \in Slots, SaveAnswered(s)
  PROVE  DeskInv' /\ Continues
<1> DEFINE c == net[s]
           i == c.script
           b == Call("review", i)
           d == [b EXCEPT !.step = 1, !.desk = c.desk]
           list == SetStatus(shown, i, "active")
           left == SetStatus(c.local, i, "active")
<1>1. /\ UNCHANGED <<server, deleted, sim, person, lost>>
      /\ ShowAnew(list, Overview(i)) \/ Show(shown, Overview(i))
      /\ stored' \in {shown', stored, left}
      /\ net' = [net EXCEPT ![s] = d] \/ net' = [net EXCEPT ![s] = Idle]
  BY DEF SaveAnswered
<1>2. Screen /\ Storage /\ CallsOK /\ CallOK(c) /\ shown \in Seq(Headed)
  BY DEF DeskInv, CallsOK, Screen
<1>3. /\ i \in Ids \cup {None} /\ c.desk \in {"here", "left", "gone"}
      /\ c.local \in Seq(Headed)
  BY <1>2 DEF CallOK, HeadedCalls
<1>4. list \in Seq(Headed) /\ Follows(list, shown) /\ left \in Seq(Headed)
  BY <1>2, <1>3, StatusRows DEF Statuses
<1>5. CallOK(d)
  <2>1. CallOK(b) /\ b.kind = "review" /\ b \in HeadedCalls
    BY <1>3, CallMade DEF Kinds, CallOK
  <2> HIDE DEF b, c
  <2>2. [b EXCEPT !.step = 1, !.desk = c.desk] \in HeadedCalls
        /\ [b EXCEPT !.step = 1, !.desk = c.desk].kind = b.kind
    <3>1. 1 \in 0..2 /\ b \in HeadedCalls
      BY <2>1
    <3>2. QED
      BY <1>3, <3>1, SentAgain, Zenon
  <2>3. QED
    BY <2>1, <2>2 DEF CallOK
<1> HIDE DEF list, left, i, d
<1>6. Overview(i) \in Address
  BY <1>3, OverviewAddress
<1>7. Screen' /\ shown' \in {list, shown}
  BY <1>1, <1>2, <1>4, <1>6, Screened
<1>8. CallsOK'
  BY <1>1, <1>2, <1>5, NoCall, SlotGiven
<1>9. Continues
  <2>1. shown' = shown => Continues
    BY <1>2, SameRows
  <2>2. shown' = list => Continues
    BY <1>4 DEF Continues
  <2>3. QED
    BY <1>7, <2>1, <2>2
<1>10. Storage'
  BY <1>1, <1>2, <1>4, <1>7 DEF Storage
<1>11. QED
  BY <1>1, <1>7, <1>8, <1>9, <1>10 DEF DeskInv, SimOK, Visit

LEMMA Simulated ==
  ASSUME DeskInv, StartSimulator \/ Respond
  PROVE  DeskInv' /\ Continues
<1>1. /\ UNCHANGED <<server, shown, stored, deleted, route, typed, net, lost>>
      /\ Screen /\ shown \in Seq(Headed) /\ Visit /\ SimOK
  BY DEF DeskInv, Screen, StartSimulator, Respond
<1>2. SimOK' /\ Visit'
  <2>1. CASE StartSimulator
    <3>1. /\ shown # <<>> /\ Click("preview")
          /\ sim' = [step |-> 1, of |-> ActiveScript(shown, route).id, outcome |-> None]
      BY <2>1 DEF StartSimulator
    <3>2. ActiveScript(shown, route).id \in Ids
      BY <1>1, <3>1, ActiveRow, HeadedRow
    <3>3. Visit'
      BY <1>1, <3>1, Clicked
    <3>4. QED
      BY <3>1, <3>2, <3>3, IdsAssumption DEF SimOK, Outcomes
  <2>2. CASE Respond
    <3>1. Visit'
      BY <1>1, <2>2 DEF Respond, Visit
    <3>2. CASE SimulatorAsks(1) /\ sim' = [sim EXCEPT !.step = 2]
      <4>1. sim.outcome = None /\ sim.step = 1
        BY <3>2 DEF SimulatorAsks
      <4>2. QED
        BY <1>1, <3>1, <3>2, <4>1, IdsAssumption DEF SimOK, Outcomes
    <3>3. CASE (SimulatorAsks(1) \/ SimulatorAsks(2)) /\ sim' = [sim EXCEPT !.outcome = "disqualified"]
      <4>1. sim.outcome = None /\ sim.step \in {1, 2}
        BY <3>3 DEF SimulatorAsks
      <4>2. QED
        BY <1>1, <3>1, <3>3, <4>1 DEF SimOK, Outcomes
    <3>4. CASE SimulatorAsks(2) /\ sim' = [sim EXCEPT !.outcome = "qualified"]
      <4>1. sim.outcome = None /\ sim.step = 2
        BY <3>4 DEF SimulatorAsks
      <4>2. QED
        BY <1>1, <3>1, <3>4, <4>1 DEF SimOK, Outcomes
    <3>5. QED
      BY <2>2, <3>2, <3>3, <3>4 DEF Respond
  <2>3. QED
    BY <2>1, <2>2
<1>3. QED
  BY <1>1, <1>2, SameRows DEF DeskInv, Screen, Storage, CallsOK, CallOK

-----------------------------------------------------------------------------
(* The desk is opened.                                                      *)

LEMMA Opened ==
  ASSUME DeskInv, NEW carried \in [Slots -> HeadedCalls], \A s \in Slots : CallOK(carried[s]),
         Open(carried), NEW part, Click(part)
  PROVE  DeskInv' /\ RowIds(shown') \cap deleted = {}
<1> DEFINE list == Undeleted(stored, deleted)
<1>1. Screen /\ Storage /\ CallsOK /\ Visit
  BY DEF DeskInv
<1>2. /\ UNCHANGED <<server, stored, deleted, lost>> /\ sim' = NoSim
      /\ shown' = list
      /\ typed' = IF list = <<>> THEN None ELSE ActiveScript(list, route').text
      /\ \E r \in [mode : {"library", "overview"}, script : Ids \cup {None}] : route' = r
      /\ \E s \in Slots : net' = [carried EXCEPT ![s] = Fetch(None)]
  BY DEF Open
<1>3. list \in Seq(Headed) /\ RowIds(list) \cap deleted = {}
  BY <1>1, UndeletedRows DEF Storage
<1>4. route' \in Address
  BY <1>2 DEF Address, Modes
<1> HIDE DEF list
<1>5. Screen'
  <2>1. list # <<>> => typed' \in Wordings
    BY <1>2, <1>3, ActiveRow, HeadedRow
  <2>2. list = <<>> => typed' = None
    BY <1>2
  <2>3. QED
    BY <1>2, <1>3, <1>4, <2>1, <2>2 DEF Screen
<1>6. CallsOK'
  <2>1. PICK s \in Slots : net' = [carried EXCEPT ![s] = Fetch(None)]
    BY <1>2
  <2>2. CallOK(Fetch(None))
    BY <1>1, FetchMade
  <2>3. Fetch(None) \in HeadedCalls
    BY <2>2 DEF CallOK
  <2>4. \A r \in Slots : CallOK(net'[r])
    BY <2>1, <2>2
  <2>5. net' \in [Slots -> HeadedCalls]
    BY <2>1, <2>3
  <2>6. QED
    BY <2>4, <2>5 DEF CallsOK
<1>7. SimOK'
  BY <1>2, IdsAssumption DEF SimOK, NoSim, Outcomes
<1>8. Visit'
  BY <1>1, <1>2, Clicked
<1>9. QED
  BY <1>1, <1>2, <1>3, <1>5, <1>6, <1>7, <1>8 DEF DeskInv, Storage

\* A call that goes on without its desk.
LEMMA CallCarried ==
  ASSUME NEW c, CallOK(c), NEW desk \in {"here", "left", "gone"}
  PROVE  /\ CallOK([c EXCEPT !.desk = desk])
         /\ \A list \in Seq(Headed) : c.kind = "saveActivate" =>
               CallOK([c EXCEPT !.desk = desk, !.local = list])
<1>1. c \in HeadedCalls
  BY DEF CallOK
<1> DEFINE d == [c EXCEPT !.desk = desk]
           e(list) == [c EXCEPT !.desk = desk, !.local = list]
<1>2. d \in HeadedCalls /\ d.kind = c.kind /\ d.local = c.local /\ d.gone = c.gone
  BY <1>1 DEF HeadedCalls
<1>3. \A list \in Seq(Headed) : e(list) \in HeadedCalls /\ e(list).kind = c.kind
  BY <1>1 DEF HeadedCalls
<1> HIDE DEF d, e
<1>4. CallOK(d) /\ \A list \in Seq(Headed) : c.kind = "saveActivate" => CallOK(e(list))
  BY <1>2, <1>3 DEF CallOK
<1>5. QED
  BY <1>4 DEF d, e

LEMMA OpenedAgain ==
  ASSUME DeskInv, LeaveAndReturn \/ Reload
  PROVE  DeskInv' /\ RowIds(shown') \cap deleted = {}
<1>1. CallsOK /\ shown \in Seq(Headed)
  BY DEF DeskInv, Screen
<1>2. CASE LeaveAndReturn
  <2> DEFINE kept(s) ==
               CASE net[s].desk = "here" /\ net[s].kind = "saveActivate" ->
                      [net[s] EXCEPT !.desk = "left", !.local = shown]
                 [] net[s].desk = "here" /\ net[s].kind \notin {"idle", "saveActivate"} ->
                      [net[s] EXCEPT !.desk = "left"]
                 [] OTHER -> net[s]
             carried == [s \in Slots |-> kept(s)]
  <2>1. Open(carried) /\ \E part \in person.parts : Click(part)
    BY <1>2 DEF LeaveAndReturn
  <2>2. ASSUME NEW s \in Slots PROVE CallOK(kept(s))
    <3>1. CallOK(net[s])
      BY <1>1 DEF CallsOK
    <3>2. CASE net[s].desk = "here" /\ net[s].kind = "saveActivate"
      <4>1. kept(s) = [net[s] EXCEPT !.desk = "left", !.local = shown]
        BY <3>2
      <4>2. CallOK([net[s] EXCEPT !.desk = "left", !.local = shown])
        BY <1>1, <3>1, <3>2, CallCarried
      <4>3. QED
        BY <4>1, <4>2
    <3>3. CASE net[s].desk = "here" /\ net[s].kind \notin {"idle", "saveActivate"}
      <4>1. kept(s) = [net[s] EXCEPT !.desk = "left"]
        BY <3>3
      <4>2. CallOK([net[s] EXCEPT !.desk = "left"])
        BY <3>1, CallCarried
      <4>3. QED
        BY <4>1, <4>2
    <3>4. CASE ~(net[s].desk = "here" /\ net[s].kind # "idle")
      <4>1. kept(s) = net[s]
        BY <3>4
      <4>2. QED
        BY <3>1, <4>1
    <3>5. QED
      BY <3>2, <3>3, <3>4
  <2> HIDE DEF kept
  <2>3. carried \in [Slots -> HeadedCalls] /\ \A s \in Slots : CallOK(carried[s])
    BY <2>2 DEF CallOK
  <2> HIDE DEF carried
  <2>4. QED
    BY <2>1, <2>3, Opened
<1>3. CASE Reload
  <2> DEFINE kept(s) == IF net[s].phase = "sent" /\ net[s].kind \in {"create", "review"}
                        THEN [net[s] EXCEPT !.desk = "gone"] ELSE Idle
             carried == [s \in Slots |-> kept(s)]
  <2>1. Open(carried) /\ \E part \in person.parts : Click(part)
    BY <1>3 DEF Reload
  <2>2. ASSUME NEW s \in Slots PROVE CallOK(kept(s))
    <3>1. CallOK([net[s] EXCEPT !.desk = "gone"])
      BY <1>1, CallCarried DEF CallsOK
    <3>2. QED
      BY <3>1, NoCall
  <2> HIDE DEF kept
  <2>3. carried \in [Slots -> HeadedCalls] /\ \A s \in Slots : CallOK(carried[s])
    BY <2>2 DEF CallOK
  <2> HIDE DEF carried
  <2>4. QED
    BY <2>1, <2>3, Opened
<1>4. QED
  BY <1>2, <1>3

-----------------------------------------------------------------------------
(* The theorems about the desk.                                            *)

LEMMA DeskStarts == DeskInit => DeskInv
<1> SUFFICES ASSUME DeskInit PROVE DeskInv
  OBVIOUS
<1>1. /\ server = Known /\ shown = stored /\ deleted = {} /\ sim = NoSim
      /\ stored \in {[k \in DOMAIN Known |-> ServerRow(Known[k])], <<>>}
      /\ route = [mode |-> "library", script |-> None]
      /\ typed = IF shown = <<>> THEN None ELSE Head(shown).text
      /\ net = [s \in Slots |-> IF s = 1 THEN Fetch(None) ELSE Idle]
      /\ person \in Visits /\ lost = 0
  BY DEF DeskInit
<1>2. [k \in DOMAIN Known |-> ServerRow(Known[k])] \in Seq(Headed) /\ <<>> \in Seq(Headed)
  BY KnownAssumption, ServerRowsHeaded
<1>3. Storage /\ shown \in Seq(Headed)
  BY <1>1, <1>2, KnownAssumption DEF Storage
<1>4. Screen
  <2>1. CASE shown = <<>>
    BY <1>1, <1>3, <2>1 DEF Screen, Address, Modes
  <2>2. CASE shown # <<>>
    <3>1. Head(shown) \in Headed
      BY <1>3, <2>2
    <3>2. typed \in Wordings
      BY <1>1, <2>2, <3>1, HeadedRow
    <3>3. QED
      BY <1>1, <1>3, <3>2 DEF Screen, Address, Modes
  <2>3. QED
    BY <2>1, <2>2
<1>5. SimOK
  BY <1>1, IdsAssumption DEF SimOK, NoSim, Outcomes
<1>6. CallsOK
  <2>1. CallOK(Fetch(None)) /\ CallOK(Idle)
    BY <1>3, FetchMade, NoCall
  <2>2. \A s \in Slots : net[s] = Fetch(None) \/ net[s] = Idle
    BY <1>1
  <2>3. Fetch(None) \in HeadedCalls /\ Idle \in HeadedCalls
    BY <2>1 DEF CallOK
  <2>4. net \in [Slots -> HeadedCalls]
    BY <1>1, <2>3
  <2>5. QED
    BY <2>1, <2>2, <2>4 DEF CallsOK
<1>7. Visit
  BY <1>1, VisitsAssumption, BoundsAssumption DEF Visit
<1>8. QED
  BY <1>3, <1>4, <1>5, <1>6, <1>7 DEF DeskInv

\* A step is a fetch answered, a creation, the desk opened again, or leaves rows
\* that carry on those of before.
LEMMA DeskSteps ==
  ASSUME DeskInv, [DeskNext]_deskVars
  PROVE  /\ DeskInv'
         /\ \/ \E s \in Slots : /\ FetchAnswered(s)
                                /\ RowIds(shown') \cap net[s].gone \subseteq RowIds(shown)
            \/ \E t \in Temps :
                  /\ HandleCreateScript(t) /\ RowIds(shown') = RowIds(shown) \cup {t}
                  /\ \A m \in DOMAIN shown' :
                        m = 1 \/ \E k \in DOMAIN shown : CarriesOn(shown'[m], shown[k])
            \/ (LeaveAndReturn \/ Reload) /\ RowIds(shown') \cap deleted = {}
            \/ Continues
<1>1. Screen
  BY DEF DeskInv
<1>2. CASE UNCHANGED deskVars
  <2>1. DeskInv' /\ shown' = shown
    BY <1>2 DEF deskVars, DeskInv, Screen, Storage, SimOK, CallsOK, CallOK, Visit
  <2>2. QED
    BY <1>1, <2>1, SameRows
<1>3. ASSUME NEW s \in Slots, Serve(s) \/ Lose(s) PROVE DeskInv' /\ Continues
  BY <1>1, <1>3, ScriptServed, CallLost, SameRows
<1>4. ASSUME NEW s \in Slots, CreateAnswered(s) \/ ReviewAnswered(s) \/ DeleteAnswered(s) \/ SaveAnswered(s)
      PROVE  DeskInv' /\ Continues
  BY <1>4, CreationAnswered, ReviewReturned, DeletionAnswered, SavingAnswered
<1>5. ASSUME NEW s \in Slots, FetchAnswered(s)
      PROVE  DeskInv' /\ RowIds(shown') \cap net[s].gone \subseteq RowIds(shown)
  BY <1>5, FetchShown
<1>6. ASSUME NEW r \in Address, Navigate(r) PROVE DeskInv' /\ Continues
  BY <1>6, Navigated
<1>7. ASSUME NEW t \in Temps, HandleCreateScript(t)
      PROVE  /\ DeskInv' /\ RowIds(shown') = RowIds(shown) \cup {t}
             /\ \A m \in DOMAIN shown' :
                   m = 1 \/ \E k \in DOMAIN shown : CarriesOn(shown'[m], shown[k])
  BY <1>7, Created
<1>8. ASSUME NEW i \in Ids, Activate(i) \/ Deactivate(i) \/ DeleteScript(i)
      PROVE  DeskInv' /\ Continues
  BY <1>8, Activated, Deactivated, ScriptDeleted
<1>9. ASSUME NEW text \in Wordings, Type(text) PROVE DeskInv' /\ Continues
  BY <1>9, Typing
<1>10. ASSUME NEW activate \in BOOLEAN, SaveEdits(activate) PROVE DeskInv' /\ Continues
  BY <1>10, EditsSaved
<1>11. CASE StartSimulator \/ Respond
  BY <1>11, Simulated
<1>12. CASE LeaveAndReturn \/ Reload
  BY <1>12, OpenedAgain
<1>13. CASE DeskNext
  BY <1>3, <1>4, <1>5, <1>6, <1>7, <1>8, <1>9, <1>10, <1>11, <1>12, <1>13 DEF DeskNext, Address
<1>14. QED
  BY <1>2, <1>13

LEMMA DeskStays == DeskSpec => []DeskInv
<1>1. DeskInv /\ [DeskNext]_deskVars => DeskInv'
  BY DeskSteps
<1>2. QED
  BY <1>1, DeskStarts, PTL DEF DeskSpec

\* Rows on the screen and in storage, the page, the editor, the simulator and
\* every call keep their types: a wording is there to edit wherever a script is,
\* versions stay within their bound, and a simulated call qualifies only after
\* both questions.
THEOREM DeskTypes == DeskSpec => []DeskTypeOK
BY DeskStays, DeskInvIsTyped, PTL

\* A script that was deleted on the desk comes back only with the answer to a
\* fetch that began before the deletion, or under an id made up again.
THEOREM DeletedStaysDeleted == DeskSpec => TombstonesHold
<1> DEFINE Step == \A i \in (deleted \cap RowIds(shown')) \ RowIds(shown) :
                      \/ HandleCreateScript(i)
                      \/ \E s \in Slots : FetchAnswered(s) /\ i \notin net[s].gone
<1>1. DeskInv /\ [DeskNext]_deskVars => [Step]_deskVars
  <2> SUFFICES ASSUME DeskInv, [DeskNext]_deskVars,
                      NEW i \in (deleted \cap RowIds(shown')) \ RowIds(shown)
               PROVE  \/ HandleCreateScript(i)
                      \/ \E s \in Slots : FetchAnswered(s) /\ i \notin net[s].gone
    OBVIOUS
  <2>1. CASE \E s \in Slots : /\ FetchAnswered(s)
                              /\ RowIds(shown') \cap net[s].gone \subseteq RowIds(shown)
    BY <2>1
  <2>2. CASE \E t \in Temps : HandleCreateScript(t) /\ RowIds(shown') = RowIds(shown) \cup {t}
    BY <2>2
  <2>3. CASE RowIds(shown') \cap deleted = {}
    BY <2>3
  <2>4. CASE Continues
    <3>1. RowIds(shown') \subseteq RowIds(shown)
      BY <2>4, FollowsIds DEF Continues
    <3>2. QED
      BY <3>1
  <2>5. QED
    BY <2>1, <2>2, <2>3, <2>4, DeskSteps
<1> HIDE DEF Step
<1>2. DeskSpec => [][Step]_deskVars
  BY <1>1, DeskStays, PTL DEF DeskSpec
<1>3. QED
  BY <1>2 DEF Step, TombstonesHold

\* The snapshot of a version that was written on the desk and that its script has
\* left behind stays as it is, whatever is done to the script, and though two
\* scripts share an id; unless it is blank the read-only view goes on showing it
\* (handleSaveDraftEdits).
THEOREM FrozenStaysFrozen == DeskSpec => SnapshotsFrozen
<1> DEFINE Step == \/ \E s \in Slots : FetchAnswered(s)
                   \/ LeaveAndReturn \/ Reload
                   \/ \A m \in DOMAIN shown' :
                         \/ m = 1 /\ \E t \in Temps : HandleCreateScript(t)
                         \/ \E k \in DOMAIN shown : CarriesOn(shown'[m], shown[k])
<1>1. DeskInv /\ [DeskNext]_deskVars => [Step]_deskVars
  <2> SUFFICES ASSUME DeskInv, [DeskNext]_deskVars PROVE Step
    OBVIOUS
  <2>1. CASE \E s \in Slots : FetchAnswered(s)
    BY <2>1
  <2>2. CASE \E t \in Temps :
                /\ HandleCreateScript(t)
                /\ \A m \in DOMAIN shown' :
                      m = 1 \/ \E k \in DOMAIN shown : CarriesOn(shown'[m], shown[k])
    BY <2>2
  <2>3. CASE LeaveAndReturn \/ Reload
    BY <2>3
  <2>4. CASE Continues
    BY <2>4 DEF Continues, Follows
  <2>5. QED
    BY <2>1, <2>2, <2>3, <2>4, DeskSteps
<1> HIDE DEF Step
<1>2. DeskSpec => [][Step]_deskVars
  BY <1>1, DeskStays, PTL DEF DeskSpec
<1>3. QED
  BY <1>2 DEF Step, SnapshotsFrozen
=============================================================================
