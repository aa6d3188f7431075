---------------------------- MODULE LeadDeskProofs ----------------------------
(***************************************************************************)
(* Proofs about LeadDesk, for any lists, files, suppression keys, visits,   *)
(* and any number of calls under way or lost.                               *)
(***************************************************************************)
EXTENDS LeadDesk, TLAPS

-----------------------------------------------------------------------------
(* The calls.  A call that was sent, or answered well, carries what its      *)
(* handler reads of it; of a failure only the kind is left, and the list of  *)
(* a read.                                                                 *)

Kinds == {"leads", "registry", "register", "add", "upload", "mapping", "commit",
          "edit", "run", "delete"}
Queries == [page : 1..2, narrow : BOOLEAN]
Tables == [Lists -> Row \cup {None}]

Intact(c) == c.phase = "sent" \/ c.ok

CallOK(c) ==
  /\ DOMAIN c = DOMAIN Idle
  /\ c.kind \in Kinds \cup {"idle"} /\ c.phase \in {"idle", "sent", "served"}
  /\ c.kind = "idle" <=> c.phase = "idle"
  /\ c.ok \in BOOLEAN /\ c.dead \in BOOLEAN /\ c.seen \in Nat
  /\ c.ok => c.phase = "served"
  /\ c.phase = "served" => ~c.dead
  /\ c.list \in Lists \cup {None}
  /\ Intact(c) =>
       /\ c.kind \in {"mapping", "commit", "edit", "run", "delete"} => c.list \in Lists
       /\ c.kind = "upload" => c.arg \in Files
       /\ c.kind = "mapping" => c.arg \in Mappings
       /\ c.kind = "run" => c.arg \in [on : BOOLEAN, chosen : BOOLEAN]
       /\ c.kind = "delete" => c.arg \in BOOLEAN
  /\ c.phase = "sent" => /\ c.kind = "edit" => c.arg \in BOOLEAN
                         /\ c.kind = "leads" => c.arg \in Queries
  /\ c.ok => /\ c.kind = "leads" => c.got \subseteq Lists
             /\ c.kind = "registry" => c.got \in Tables
             /\ c.kind = "upload" => c.got \in Lists
             /\ c.kind = "run" => c.got \in Row

NetOK == DOMAIN net = Slots /\ \A s \in Slots : CallOK(net[s])

-----------------------------------------------------------------------------
(* The table.  What the desk has not been told yet may be a few deletions,   *)
(* whose answers are under way: then the table shows the registry but for    *)
(* their rows.                                                             *)

Told(s, kinds) == net[s].kind \in kinds /\ net[s].ok

OnlyDeletions(v) ==
  \A n \in (v + 1)..version : \E s \in Slots : Told(s, {"delete"}) /\ net[s].seen = n

Deleted(l, v) == \E s \in Slots : Told(s, {"delete"}) /\ net[s].seen > v /\ net[s].list = l

Shows(b, v) == \A l \in Lists : b[l] = Registry[l] \/ (Registry[l] = None /\ Deleted(l, v))

SeenOK ==
  /\ version >= 1
  /\ \A s \in Slots : Told(s, {"registry"}) => net[s].seen <= version
  /\ \A s \in Slots : Told(s, {"run", "delete"}) => net[s].seen \in 2..version
  /\ \A s, r \in Slots :
       Told(s, {"run", "delete"}) /\ Told(r, {"run", "delete"}) /\ net[s].seen = net[r].seen
         => s = r
  /\ \A s \in Slots : Told(s, {"delete"}) => jobs[net[s].list].at = "gone"

AnswersTrue ==
  /\ \A s \in Slots : Told(s, {"registry"}) /\ OnlyDeletions(net[s].seen) =>
                        Shows(net[s].got, net[s].seen)
  /\ \A s \in Slots : Told(s, {"run"}) /\ OnlyDeletions(net[s].seen) =>
                        \/ jobs[net[s].list].at = "gone"
                        \/ net[s].got.dial = jobs[net[s].list].dial

TableInv == /\ SeenOK /\ AnswersTrue
            /\ OnlyDeletions(synced) => Shows(batches, synced)

-----------------------------------------------------------------------------
(* The wizard.  As long as no call has outlived its wizard, at most one call  *)
(* is of the wizard, it is the one the wizard waits for, and it is about what *)
(* the wizard shows.                                                       *)

IsOwn(c) == ~c.dead /\ (c.kind \in WizardCalls \/ (c.kind = "registry" /\ c.list # None))
Own(s) == IsOwn(net[s])

Imported(l) == l \in Lists /\ jobs[l].at \in {"done", "gone"}

OwnCall(c) ==
  /\ c.kind = "upload" => wizard.busy = "upload" /\ wizard.step = 1
                          /\ wizard.checked = None /\ wizard.result = None
  /\ c.kind = "mapping" => /\ wizard.busy = "mapping" /\ wizard.step = 2
                           /\ Intact(c) => c.list = wizard.job
                                           /\ (~meddled => c.arg = wizard.map)
  /\ c.kind = "commit" => /\ wizard.busy = "commit" /\ wizard.step = 3
                          /\ Intact(c) => c.list = wizard.job
                          /\ c.ok => Imported(c.list)
  /\ c.kind = "registry" => /\ wizard.busy = "commit" /\ wizard.step = 3
                            /\ c.list = wizard.job /\ wizard.result = wizard.job

WizardInv ==
  ~crossed =>
    /\ \A s, r \in Slots : Own(s) /\ Own(r) => s = r
    /\ \A s \in Slots : Own(s) => OwnCall(net[s])
    /\ wizard.busy # None => \E s \in Slots : Own(s)
    /\ wizard.checked # None /\ ~meddled => wizard.checked = [job |-> wizard.job,
                                                              map |-> wizard.map]
    /\ wizard.result # None => wizard.result = wizard.job /\ Imported(wizard.job)

-----------------------------------------------------------------------------
(* The types, by the parts of the state.                                    *)

JobRows == [at : {"none", "mapping", "ready", "done", "gone"},
            dial : BOOLEAN, run : BOOLEAN, map : Mappings]
WizardRows == [step : 1..3, busy : {None, "upload", "mapping", "commit"},
               job : Lists \cup {None}, map : Mappings,
               checked : {None} \cup [job : Lists, map : Mappings],
               result : Lists \cup {None}, error : BOOLEAN]

ServerOK == jobs \in [Lists -> JobRows] /\ version \in Nat
TableOK == synced \in 0..version /\ batches \in Tables
ScreenOK == /\ view \in {"desk", "import"} /\ {selected, busyRun} \subseteq Lists \cup {None}
            /\ rows \subseteq Lists /\ query \in Queries
WizardOK == wizard \in WizardRows /\ {crossed, meddled} \subseteq BOOLEAN
DncOK == dnc \subseteq Entries /\ kept \subseteq Entries /\ imported \subseteq Keys /\ folder \in BOOLEAN
PersonOK == person \in [parts : {v.parts : v \in Visits}, left : Nat] /\ lost \in 0..MaxLost

Typed == ServerOK /\ TableOK /\ ScreenOK /\ WizardOK /\ DncOK /\ PersonOK /\ NetOK

LEMMA TypedIsTypeOK == Typed => TypeOK
BY DEF Typed, TypeOK, ServerOK, TableOK, ScreenOK, WizardOK, DncOK, PersonOK, NetOK, CallOK,
       JobRows, WizardRows, Tables, Queries

\* A free slot, and what a call that was never sent carries.
LEMMA IdleFields ==
  /\ Idle.kind = "idle" /\ Idle.phase = "idle" /\ Idle.list = None /\ ~Idle.ok
  /\ Idle.ok \in BOOLEAN /\ Idle.dead \in BOOLEAN /\ ~Idle.dead /\ Idle.seen = 0
BY DEF Idle

LEMMA IdleOK == CallOK(Idle)
<1>1. /\ Idle.kind \in Kinds \cup {"idle"} /\ Idle.phase \in {"idle", "sent", "served"}
      /\ Idle.list \in Lists \cup {None} /\ Idle.seen \in Nat
  BY IdleFields DEF Kinds
<1>2. ~Intact(Idle) /\ Idle.phase # "sent" /\ Idle.phase # "served"
  BY IdleFields DEF Intact
<1>3. QED
  BY <1>1, <1>2, IdleFields DEF CallOK

\* One slot changes.
LEMMA OneSlot ==
  ASSUME NetOK, NEW s \in Slots, NEW c, net' = [net EXCEPT ![s] = c]
  PROVE  /\ net'[s] = c /\ \A r \in Slots \ {s} : net'[r] = net[r]
         /\ CallOK(c) => NetOK'
<1>1. DOMAIN net' = Slots /\ net'[s] = c /\ \A r \in Slots \ {s} : net'[r] = net[r]
  BY DEF NetOK
<1>2. ASSUME CallOK(c) PROVE NetOK'
  <2>1. \A r \in Slots : CallOK(net[r])
    BY DEF NetOK
  <2>2. ASSUME NEW r \in Slots PROVE CallOK(net'[r])
    BY <2>1, <1>1, <1>2, Zenon
  <2>3. QED
    BY <2>2, <1>1 DEF NetOK
<1>3. QED
  BY <1>1, <1>2

LEMMA Started ==
  ASSUME NetOK, NEW kind, NEW l, NEW a, Start(Call(kind, l, a))
  PROVE  \E s \in Slots : /\ net[s].kind = "idle"
                          /\ net' = [net EXCEPT ![s] = Call(kind, l, a)]
BY DEF Start, Free

\* The extraction keeps the types and what a file brought in.
LEMMA Extracted ==
  ASSUME DncOK, NEW r \in SUBSET Lists, Extract(r), UNCHANGED <<folder, imported>>
  PROVE  DncOK' /\ (ImportedKept => ImportedKept')
<1> DEFINE files == {e \in dnc : e.by = "file"}
           found == {[key |-> k, by |-> "auto"] : k \in Suppressed(r) \ KeysOf(files)}
<1>1. dnc' = files \cup found /\ kept' = files \cup found
  BY DEF Extract
<1>2. Suppressed(r) \subseteq Keys
  BY DEF Suppressed, Keys
<1>3. ASSUME NEW e \in found PROVE e \in Entries
  <2>1. PICK k \in Suppressed(r) : e = [key |-> k, by |-> "auto"]
    OBVIOUS
  <2>2. QED
    BY <1>2, <2>1 DEF Entries
<1>4. files \subseteq Entries /\ found \subseteq Entries
  BY <1>3 DEF DncOK
<1> HIDE DEF found
<1>5. DncOK'
  BY <1>1, <1>4 DEF DncOK
<1>6. ASSUME ImportedKept, NEW k \in imported
      PROVE  [key |-> k, by |-> "file"] \in files
  <2>1. [key |-> k, by |-> "file"] \in dnc
    BY <1>6 DEF ImportedKept
  <2>2. QED
    BY <2>1
<1> HIDE DEF files
<1>7. QED
  BY <1>1, <1>5, <1>6 DEF ImportedKept

-----------------------------------------------------------------------------
(* The table, while the server stands still: answers that are used up or     *)
(* lost leave less that is under way, and what was shown stays true.         *)

ToldKinds == {"registry", "run", "delete"}
NothingTold == \A s \in Slots : Told(s, ToldKinds)' => net'[s] = net[s]

LEMMA Forgotten ==
  ASSUME NetOK, NetOK', SeenOK, UNCHANGED server, NothingTold
  PROVE  /\ SeenOK'
         /\ \A v \in Nat : OnlyDeletions(v)' =>
              OnlyDeletions(v) /\ \A l \in Lists : Deleted(l, v) => Deleted(l, v)'
<1>1. \A s \in Slots : \A k \in SUBSET ToldKinds : Told(s, k)' => net'[s] = net[s] /\ Told(s, k)
  BY DEF NothingTold, Told
<1>2. \A s \in Slots : (Told(s, {"registry"})' => net'[s] = net[s] /\ Told(s, {"registry"}))
                    /\ (Told(s, {"delete"})' => net'[s] = net[s] /\ Told(s, {"delete"}))
                    /\ (Told(s, {"run", "delete"})' => net'[s] = net[s] /\ Told(s, {"run", "delete"}))
  BY <1>1 DEF ToldKinds
<1>3. SeenOK'
  BY <1>2 DEF SeenOK, server
<1>4. ASSUME NEW v \in Nat, OnlyDeletions(v)' PROVE OnlyDeletions(v)
  BY <1>2, <1>4 DEF OnlyDeletions, server
<1>5. ASSUME NEW v \in Nat, OnlyDeletions(v)', NEW l \in Lists, Deleted(l, v)
      PROVE  Deleted(l, v)'
  <2>1. PICK s \in Slots : Told(s, {"delete"}) /\ net[s].seen > v /\ net[s].list = l
    BY <1>5 DEF Deleted
  <2>2. net[s].seen \in (v + 1)..version'
    BY <2>1 DEF SeenOK, Told, server
  <2>3. PICK r \in Slots : Told(r, {"delete"})' /\ net'[r].seen = net[s].seen
    BY <2>2, <1>5 DEF OnlyDeletions
  <2>4. Told(r, {"delete"}) /\ net'[r] = net[r]
    BY <2>3, <1>2
  <2>5. r = s
    BY <2>1, <2>3, <2>4 DEF SeenOK, Told
  <2>6. QED
    BY <2>1, <2>3, <2>4, <2>5 DEF Deleted
<1>6. QED
  BY <1>3, <1>4, <1>5

LEMMA StillShows ==
  ASSUME NetOK, NetOK', SeenOK, UNCHANGED server, NothingTold, NEW b, NEW v \in Nat,
         OnlyDeletions(v)', OnlyDeletions(v) => Shows(b, v)
  PROVE  Shows(b, v)'
<1>1. OnlyDeletions(v) /\ \A l \in Lists : Deleted(l, v) => Deleted(l, v)'
  BY Forgotten
<1>2. Registry' = Registry
  BY DEF Registry, server
<1>3. QED
  BY <1>1, <1>2 DEF Shows

LEMMA StillTrue ==
  ASSUME NetOK, NetOK', SeenOK, AnswersTrue, UNCHANGED server, NothingTold
  PROVE  SeenOK' /\ AnswersTrue'
<1>1. SeenOK' /\ \A v \in Nat : OnlyDeletions(v)' => OnlyDeletions(v)
  BY Forgotten
<1>2. ASSUME NEW s \in Slots, Told(s, {"registry"})', OnlyDeletions(net[s].seen)'
      PROVE  Shows(net[s].got, net[s].seen)'
  <2>1. PICK b, v : b = net[s].got /\ v = net[s].seen
    OBVIOUS
  <2>2. net'[s] = net[s] /\ Told(s, {"registry"})
    BY <1>2 DEF NothingTold, Told, ToldKinds
  <2>3. v \in Nat
    BY <2>1 DEF NetOK, CallOK
  <2>4. OnlyDeletions(v)'
    BY <1>2, <2>1, <2>2 DEF OnlyDeletions
  <2>5. OnlyDeletions(v) => Shows(b, v)
    BY <2>1, <2>2 DEF AnswersTrue
  <2>6. Shows(b, v)'
    BY <2>3, <2>4, <2>5, StillShows
  <2>7. QED
    BY <2>1, <2>2, <2>6 DEF Shows, Deleted
<1>3. ASSUME NEW s \in Slots, Told(s, {"run"})', OnlyDeletions(net[s].seen)'
      PROVE  \/ jobs'[net'[s].list].at = "gone"
             \/ net'[s].got.dial = jobs'[net'[s].list].dial
  <2>1. PICK v : v = net[s].seen
    OBVIOUS
  <2>2. net'[s] = net[s] /\ Told(s, {"run"})
    BY <1>3 DEF NothingTold, Told, ToldKinds
  <2>3. v \in Nat
    BY <2>1 DEF NetOK, CallOK
  <2>4. OnlyDeletions(v)'
    BY <1>3, <2>1, <2>2 DEF OnlyDeletions
  <2>5. OnlyDeletions(net[s].seen)
    BY <2>1, <2>3, <2>4, <1>1
  <2>6. QED
    BY <2>2, <2>5 DEF AnswersTrue, server
<1>4. QED
  BY <1>1, <1>2, <1>3 DEF AnswersTrue

\* A step that leaves the table alone too.
LEMMA TableStays ==
  ASSUME NetOK, NetOK', TableInv, TableOK, ServerOK, UNCHANGED <<server, table>>, NothingTold
  PROVE  TableInv'
<1>1. PICK b, v : b = batches /\ v = synced
  OBVIOUS
<1>2. v \in Nat /\ batches' = b /\ synced' = v
  BY <1>1 DEF TableOK, ServerOK, table
<1>3. ASSUME OnlyDeletions(synced)' PROVE Shows(batches, synced)'
  <2>1. OnlyDeletions(v)'
    BY <1>2, <1>3 DEF OnlyDeletions
  <2>2. OnlyDeletions(v) => Shows(b, v)
    BY <1>1 DEF TableInv
  <2>3. Shows(b, v)'
    BY <1>2, <2>1, <2>2, StillShows DEF TableInv
  <2>4. QED
    BY <1>2, <2>3 DEF Shows, Deleted
<1>4. QED
  BY <1>3, StillTrue DEF TableInv

-----------------------------------------------------------------------------
(* The server's work on a call.                                             *)

\* What is gone stays gone, what is imported stays imported.
Keeps == \A k \in Lists : /\ jobs[k].at = "gone" => jobs'[k].at = "gone"
                          /\ Imported(k) => Imported(k)'

GotOK(c, got) ==
  /\ c.kind = "leads" => got \subseteq Lists
  /\ c.kind = "registry" => got \in Tables
  /\ c.kind = "upload" => got \in Lists
  /\ c.kind = "run" => got \in Row

\* The four ways to take a call: nothing is written and no one will hear of the
\* registry; the registry is read; a write; a deletion.
Quiet(c, ok) == UNCHANGED server /\ (ok => c.kind \notin ToldKinds)
Reading(c, ok, got, v) ==
  UNCHANGED server /\ ok /\ c.kind = "registry" /\ got = Registry /\ v = version
Writing(c, ok, got, v) ==
  /\ version' = version + 1
  /\ ok => v = version + 1 /\ c.kind \notin {"registry", "delete"}
  /\ ok /\ c.kind = "run" => got.dial = jobs'[c.list].dial
Deleting(c, ok, v) ==
  /\ version' = version + 1 /\ ok /\ v = version + 1 /\ c.kind = "delete"
  /\ jobs'[c.list].at = "gone" /\ \A k \in Lists \ {c.list} : jobs'[k] = jobs[k]

Taken(s, ok, got, v) == net' = [net EXCEPT ![s] = Answer(net[s], ok, got, v)]

Wrote(s, job) == /\ jobs' = [jobs EXCEPT ![net[s].list] = job]
                 /\ version' = version + 1
                 /\ Taken(s, TRUE, [dial |-> job.dial, run |-> job.run], version + 1)

Work(c, ok, got, v) ==
  /\ ServerOK' /\ Keeps
  /\ ok => GotOK(c, got) /\ (c.kind = "commit" => jobs'[c.list].at \in {"done", "gone"})
  /\ \/ Quiet(c, ok) \/ Reading(c, ok, got, v) \/ Writing(c, ok, got, v) \/ Deleting(c, ok, v)

LEMMA Stands == ASSUME ServerOK, UNCHANGED server PROVE ServerOK' /\ Keeps
BY DEF ServerOK, Keeps, Imported, server

LEMMA Written ==
  ASSUME ServerOK, NEW l \in Lists, NEW job \in JobRows,
         jobs' = [jobs EXCEPT ![l] = job], version' = version + 1,
         jobs[l].at = "gone" => job.at = "gone",
         jobs[l].at \in {"done", "gone"} => job.at \in {"done", "gone"}
  PROVE  /\ ServerOK' /\ Keeps /\ jobs'[l] = job
         /\ \A k \in Lists \ {l} : jobs'[k] = jobs[k]
<1>1. ServerOK' /\ jobs'[l] = job /\ \A k \in Lists \ {l} : jobs'[k] = jobs[k]
  BY DEF ServerOK
<1>2. QED
  BY <1>1 DEF Keeps, Imported

LEMMA RegistryTyped == ServerOK => Registry \in Tables
<1>1. ASSUME ServerOK, NEW l \in Lists
      PROVE  [dial |-> jobs[l].dial, run |-> jobs[l].run] \in Row
  <2>1. jobs[l].dial \in BOOLEAN /\ jobs[l].run \in BOOLEAN
    BY <1>1 DEF ServerOK, JobRows
  <2>2. QED
    BY <2>1 DEF Row
<1>2. QED
  BY <1>1 DEF Registry, Tables

LEMMA ServeWorks ==
  ASSUME ServerOK, NetOK, NEW s \in Slots, Serve(s)
  PROVE  \E ok \in BOOLEAN, v \in Nat : \E got :
            Taken(s, ok, got, v) /\ Work(net[s], ok, got, v)
<1> DEFINE c == net[s]
           l == c.list
           answer(ok, got, v) == Taken(s, ok, got, v)
           write(job) == Wrote(s, job)
<1>0. /\ CallOK(c) /\ c.phase = "sent" /\ version \in Nat
      /\ c.kind \in {"mapping", "commit", "edit", "run", "delete"} => l \in Lists
  BY DEF Serve, NetOK, CallOK, Intact, ServerOK
<1>1. ASSUME NEW job \in JobRows, l \in Lists, write(job),
             jobs[l].at = "gone" => job.at = "gone",
             jobs[l].at \in {"done", "gone"} => job.at \in {"done", "gone"},
             c.kind \in {"mapping", "commit", "edit", "run"},
             c.kind = "commit" => job.at = "done"
      PROVE  \E ok \in BOOLEAN, v \in Nat : \E got :
                Taken(s, ok, got, v) /\ Work(net[s], ok, got, v)
  <2>1. PICK got : got = [dial |-> job.dial, run |-> job.run]
    OBVIOUS
  <2>2. /\ ServerOK' /\ Keeps /\ jobs'[l] = job
        /\ \A k \in Lists \ {l} : jobs'[k] = jobs[k]
    BY <1>1, Written DEF Wrote
  <2>3. GotOK(c, got) /\ got.dial = job.dial
    BY <1>1, <2>1 DEF GotOK, JobRows, Row
  <2>4. Writing(c, TRUE, got, version + 1)
    BY <1>1, <2>2, <2>3 DEF Writing, Wrote
  <2>5. c.kind = "commit" => jobs'[l].at \in {"done", "gone"}
    BY <1>1, <2>2 DEF Imported
  <2>6. Work(c, TRUE, got, version + 1)
    BY <2>2, <2>3, <2>4, <2>5 DEF Work
  <2>7. QED
    <3>1. Taken(s, TRUE, got, version + 1)
      BY <1>1, <2>1 DEF Wrote
    <3>2. version + 1 \in Nat
      BY <1>0
    <3>3. QED
      BY <2>6, <3>1, <3>2, Zenon
<1>2. ASSUME NEW ok \in BOOLEAN, NEW got, NEW v, UNCHANGED server, answer(ok, got, v),
             ok => GotOK(c, got) /\ c.kind \notin ToldKinds /\ (c.kind = "commit" => l \in Lists /\ jobs[l].at \in {"done", "gone"})
      PROVE  Work(c, ok, got, v)
  <2>1. ServerOK' /\ Keeps
    BY <1>2, Stands
  <2>2. ok /\ c.kind = "commit" => jobs'[l].at \in {"done", "gone"}
    BY <1>2, <2>1 DEF Keeps, Imported
  <2>3. QED
    BY <1>2, <2>1, <2>2 DEF Work, Quiet
<1>3. CASE /\ c.kind = "leads" /\ UNCHANGED server
           /\ answer(TRUE, {k \in Lists : /\ l \in {None, k} /\ jobs[k].at = "done"
                                          /\ (c.arg.page = 1 \/ ~c.arg.narrow)}, 0)
  <2>1. PICK got : got = {k \in Lists : /\ l \in {None, k} /\ jobs[k].at = "done"
                                        /\ (c.arg.page = 1 \/ ~c.arg.narrow)}
    OBVIOUS
  <2>2. GotOK(c, got) /\ c.kind \notin ToldKinds /\ c.kind # "commit"
    BY <1>3, <2>1 DEF GotOK, ToldKinds
  <2>3. answer(TRUE, got, 0)
    BY <1>3, <2>1
  <2>4. Work(c, TRUE, got, 0)
    BY <1>2, <1>3, <2>2, <2>3
  <2>5. QED
    BY <2>3, <2>4
<1>4. CASE c.kind = "registry" /\ answer(TRUE, Registry, version) /\ UNCHANGED server
  <2>1. GotOK(c, Registry)
    BY <1>4, RegistryTyped DEF GotOK
  <2>2. Work(c, TRUE, Registry, version)
    BY <1>4, <2>1, Stands DEF Work, Reading
  <2>3. QED
    BY <1>0, <1>4, <2>2
<1>5. CASE c.kind = "add" /\ answer(TRUE, None, 0) /\ UNCHANGED server
  <2>1. GotOK(c, None) /\ c.kind \notin ToldKinds /\ c.kind # "commit"
    BY <1>5 DEF GotOK, ToldKinds
  <2>2. Work(c, TRUE, None, 0)
    BY <1>2, <1>5, <2>1
  <2>3. QED
    BY <1>5, <2>2
<1>6. CASE /\ c.kind = "upload"
           /\ \E k \in Lists :
                 /\ jobs[k].at = "none"
                 /\ jobs' = [jobs EXCEPT ![k].at = "mapping"]
                 /\ version' = version + 1
                 /\ answer(TRUE, k, version + 1)
  <2>1. PICK k \in Lists : /\ jobs[k].at = "none"
                           /\ jobs' = [jobs EXCEPT ![k].at = "mapping"]
                           /\ version' = version + 1
                           /\ answer(TRUE, k, version + 1)
    BY <1>6
  <2>2. PICK job : job = [jobs[k] EXCEPT !.at = "mapping"]
    OBVIOUS
  <2>3. job \in JobRows /\ jobs' = [jobs EXCEPT ![k] = job]
    BY <2>1, <2>2 DEF ServerOK, JobRows
  <2>4. ServerOK' /\ Keeps
    BY <2>1, <2>3, Written
  <2>5. GotOK(c, k) /\ Writing(c, TRUE, k, version + 1) /\ c.kind # "commit"
    BY <1>6, <2>1 DEF GotOK, Writing
  <2>6. Work(c, TRUE, k, version + 1)
    BY <2>4, <2>5 DEF Work
  <2>7. version + 1 \in Nat
    BY <1>0
  <2>8. QED
    BY <2>1, <2>6, <2>7, Zenon
<1>7. CASE /\ c.kind = "mapping" /\ jobs[l].at \in {"mapping", "ready"}
           /\ write([jobs[l] EXCEPT !.at = "ready", !.map = c.arg])
  <2>1. PICK job : job = [jobs[l] EXCEPT !.at = "ready", !.map = c.arg]
    OBVIOUS
  <2>2. c.arg \in Mappings
    BY <1>0, <1>7 DEF CallOK, Intact
  <2>3. job \in JobRows
    BY <1>0, <1>7, <2>1, <2>2 DEF ServerOK, JobRows
  <2>4. QED
    BY <1>0, <1>1, <1>7, <2>1, <2>3
<1>8. CASE c.kind = "commit" /\ jobs[l].at = "ready" /\ write([jobs[l] EXCEPT !.at = "done"])
  <2>1. PICK job : job = [jobs[l] EXCEPT !.at = "done"]
    OBVIOUS
  <2>2. job \in JobRows /\ job.at = "done"
    BY <1>0, <1>8, <2>1 DEF ServerOK, JobRows
  <2>3. QED
    BY <1>0, <1>1, <1>8, <2>1, <2>2
<1>9. CASE /\ c.kind = "commit" /\ jobs[l].at = "done"
           /\ answer(TRUE, None, version) /\ UNCHANGED server
  <2>1. GotOK(c, None) /\ c.kind \notin ToldKinds /\ l \in Lists
    BY <1>0, <1>9 DEF GotOK, ToldKinds, Imported
  <2>2. Work(c, TRUE, None, version)
    BY <1>2, <1>9, <2>1
  <2>3. QED
    BY <1>0, <1>9, <2>2
<1>10. CASE c.kind = "edit" /\ jobs[l].at # "gone" /\ write([jobs[l] EXCEPT !.dial = c.arg])
  <2>1. PICK job : job = [jobs[l] EXCEPT !.dial = c.arg]
    OBVIOUS
  <2>2. c.arg \in BOOLEAN
    BY <1>0, <1>10 DEF CallOK
  <2>3. job \in JobRows /\ job.at = jobs[l].at
    BY <1>0, <1>10, <2>1, <2>2 DEF ServerOK, JobRows
  <2>4. QED
    BY <1>0, <1>1, <1>10, <2>1, <2>3
<1>11. CASE c.kind = "run" /\ jobs[l].at # "gone" /\ write([jobs[l] EXCEPT !.run = FALSE])
  <2>1. PICK job : job = [jobs[l] EXCEPT !.run = FALSE]
    OBVIOUS
  <2>2. job \in JobRows /\ job.at = jobs[l].at
    BY <1>0, <1>11, <2>1 DEF ServerOK, JobRows
  <2>3. QED
    BY <1>0, <1>1, <1>11, <2>1, <2>2
<1>12. CASE /\ c.kind = "run" /\ jobs[l].at = "done"
            /\ write([jobs[l] EXCEPT !.run = TRUE, !.dial = TRUE])
  <2>1. PICK job : job = [jobs[l] EXCEPT !.run = TRUE, !.dial = TRUE]
    OBVIOUS
  <2>2. job \in JobRows /\ job.at = jobs[l].at
    BY <1>0, <1>12, <2>1 DEF ServerOK, JobRows
  <2>3. QED
    BY <1>0, <1>1, <1>12, <2>1, <2>2
<1>13. CASE /\ c.kind = "run" /\ jobs[l].at = "done"
            /\ jobs' = [jobs EXCEPT ![l].run = FALSE, ![l].dial = TRUE]
            /\ version' = version + 1
            /\ answer(FALSE, None, 0)
  <2>1. PICK job : job = [jobs[l] EXCEPT !.run = FALSE, !.dial = TRUE]
    OBVIOUS
  <2>2. job \in JobRows /\ job.at = jobs[l].at
    BY <1>0, <1>13, <2>1 DEF ServerOK, JobRows
  <2>3. jobs' = [jobs EXCEPT ![l] = job]
    BY <1>0, <1>13, <2>1 DEF ServerOK, JobRows
  <2>4. ServerOK' /\ Keeps
    BY <1>0, <1>13, <2>2, <2>3, Written
  <2>5. Work(c, FALSE, None, 0)
    BY <1>13, <2>4 DEF Work, Writing
  <2>6. QED
    BY <1>13, <2>5
<1>14. CASE c.kind = "delete" /\ write([jobs[l] EXCEPT !.at = "gone", !.run = FALSE])
  <2>1. PICK job, got : /\ job = [jobs[l] EXCEPT !.at = "gone", !.run = FALSE]
                        /\ got = [dial |-> job.dial, run |-> job.run]
    OBVIOUS
  <2>2. job \in JobRows /\ job.at = "gone"
    BY <1>0, <1>14, <2>1 DEF ServerOK, JobRows
  <2>3. /\ ServerOK' /\ Keeps /\ jobs'[l] = job
        /\ \A k \in Lists \ {l} : jobs'[k] = jobs[k]
    BY <1>0, <1>14, <2>1, <2>2, Written DEF Wrote
  <2>4. GotOK(c, got) /\ Deleting(c, TRUE, version + 1)
    BY <1>14, <2>2, <2>3 DEF GotOK, Deleting, Wrote
  <2>5. Work(c, TRUE, got, version + 1)
    BY <1>14, <2>3, <2>4 DEF Work
  <2>6. QED
    <3>1. Taken(s, TRUE, got, version + 1)
      BY <1>14, <2>1 DEF Wrote
    <3>2. version + 1 \in Nat
      BY <1>0
    <3>3. QED
      BY <2>5, <3>1, <3>2, Zenon
<1>15. CASE answer(FALSE, None, 0) /\ UNCHANGED server
  <2>1. Work(c, FALSE, None, 0)
    BY <1>2, <1>15
  <2>2. QED
    BY <1>15, <2>1
<1>16. QED
  BY <1>3, <1>4, <1>5, <1>6, <1>7, <1>8, <1>9, <1>10, <1>11, <1>12, <1>13, <1>14, <1>15,
     ZenonT(60)
     DEF Serve, Taken, Wrote

LEMMA AnswerOK ==
  ASSUME NEW c, CallOK(c), c.kind # "idle", NEW ok \in BOOLEAN, NEW got, NEW v \in Nat,
         ok => c.phase = "sent" /\ GotOK(c, got)
  PROVE  CallOK(Answer(c, ok, got, v))
<1>a. PICK a : a = Answer(c, ok, got, v)
  OBVIOUS
<1>1. CASE c.dead
  BY <1>a, <1>1, IdleOK DEF Answer
<1>2. CASE ~c.dead
  <2>1. /\ DOMAIN a = DOMAIN Idle
        /\ a.kind = c.kind /\ a.phase = "served" /\ a.ok = ok /\ a.got = got
        /\ a.seen = v /\ a.dead = FALSE
        /\ ok \/ c.kind \in {"leads", "registry"} => a.list = c.list
        /\ ~ok /\ c.kind \notin {"leads", "registry"} => a.list = None
        /\ ok /\ c.kind \in {"upload", "mapping", "run", "delete"} => a.arg = c.arg
    BY <1>a, <1>2 DEF Answer, Idle
  <2>2. /\ c.kind \in Kinds /\ c.list \in Lists \cup {None}
        /\ ok => /\ c.kind \in {"mapping", "commit", "edit", "run", "delete"} => c.list \in Lists
                 /\ c.kind = "upload" => c.arg \in Files
                 /\ c.kind = "mapping" => c.arg \in Mappings
                 /\ c.kind = "run" => c.arg \in [on : BOOLEAN, chosen : BOOLEAN]
                 /\ c.kind = "delete" => c.arg \in BOOLEAN
    BY DEF CallOK, Intact
  <2>3. /\ a.kind \in Kinds /\ a.phase = "served" /\ a.list \in Lists \cup {None}
        /\ a.kind # "idle" /\ a.seen \in Nat /\ a.ok \in BOOLEAN /\ a.dead \in BOOLEAN /\ ~a.dead
    BY <2>1, <2>2 DEF Kinds
  <2>4. Intact(a) =>
          /\ a.kind \in {"mapping", "commit", "edit", "run", "delete"} => a.list \in Lists
          /\ a.kind = "upload" => a.arg \in Files
          /\ a.kind = "mapping" => a.arg \in Mappings
          /\ a.kind = "run" => a.arg \in [on : BOOLEAN, chosen : BOOLEAN]
          /\ a.kind = "delete" => a.arg \in BOOLEAN
    BY <2>1, <2>2 DEF Intact
  <2>5. a.ok => /\ a.kind = "leads" => a.got \subseteq Lists
                /\ a.kind = "registry" => a.got \in Tables
                /\ a.kind = "upload" => a.got \in Lists
                /\ a.kind = "run" => a.got \in Row
    BY <2>1 DEF GotOK
  <2>6. QED
    BY <1>a, <2>1, <2>3, <2>4, <2>5 DEF CallOK
<1>3. QED
  BY <1>1, <1>2 DEF CallOK

\* What an answer puts on its slot.
LEMMA TakenSlot ==
  ASSUME NetOK, NEW s \in Slots, net[s].phase = "sent", NEW ok \in BOOLEAN, NEW got,
         NEW v \in Nat, Taken(s, ok, got, v), Work(net[s], ok, got, v)
  PROVE  /\ NetOK'
         /\ \A r \in Slots \ {s} : net'[r] = net[r]
         /\ ~net[s].ok
         /\ net'[s].ok => /\ ok /\ ~net[s].dead /\ net'[s].kind = net[s].kind
                          /\ net'[s].got = got /\ net'[s].seen = v /\ net'[s].list = net[s].list
<1> DEFINE c == net[s]
<1>a. PICK a : a = Answer(c, ok, got, v)
  OBVIOUS
<1>1. CallOK(c) /\ c.kind # "idle" /\ ~c.ok
  BY DEF NetOK, CallOK
<1>2. net'[s] = a /\ (\A r \in Slots \ {s} : net'[r] = net[r]) /\ (CallOK(a) => NetOK')
  BY <1>a, OneSlot DEF Taken
<1>3. CallOK(a)
  BY <1>a, <1>1, AnswerOK DEF Work
<1>4. a.ok => /\ ok /\ ~c.dead /\ a.kind = c.kind /\ a.got = got /\ a.seen = v
              /\ a.list = c.list
  BY <1>a DEF Answer, Idle
<1>5. QED
  BY <1>1, <1>2, <1>3, <1>4

LEMMA ServeTable ==
  ASSUME NetOK, ServerOK, TableOK, TableInv, NEW s \in Slots, Serve(s)
  PROVE  NetOK' /\ ServerOK' /\ TableOK' /\ TableInv' /\ Keeps
<1>0. net[s].phase = "sent" /\ UNCHANGED table
  BY DEF Serve
<1>1. PICK ok \in BOOLEAN, v \in Nat : \E got : Taken(s, ok, got, v) /\ Work(net[s], ok, got, v)
  BY ServeWorks
<1>2. PICK got : Taken(s, ok, got, v) /\ Work(net[s], ok, got, v)
  BY <1>1
<1>3. ServerOK' /\ Keeps
  BY <1>2 DEF Work
<1>4. /\ NetOK'
      /\ \A r \in Slots \ {s} : net'[r] = net[r]
      /\ ~net[s].ok
      /\ net'[s].ok => /\ ok /\ ~net[s].dead /\ net'[s].kind = net[s].kind
                       /\ net'[s].got = got /\ net'[s].seen = v /\ net'[s].list = net[s].list
  BY <1>0, <1>2, TakenSlot
<1>5. ASSUME Quiet(net[s], ok) PROVE TableInv' /\ TableOK'
  <2>1. NothingTold
    BY <1>4, <1>5 DEF NothingTold, Told, Quiet, ToldKinds
  <2>2. TableInv'
    BY <1>0, <1>4, <1>5, <2>1, TableStays DEF Quiet
  <2>3. QED
    BY <1>0, <1>5, <2>2 DEF Quiet, TableOK, table, server
<1>6. ASSUME Reading(net[s], ok, got, v) PROVE TableInv' /\ TableOK'
  <2>1. /\ \A r \in Slots : /\ Told(r, {"delete"})' <=> Told(r, {"delete"})
                            /\ Told(r, {"run"})' <=> Told(r, {"run"})
                            /\ Told(r, {"run", "delete"})' <=> Told(r, {"run", "delete"})
                            /\ Told(r, {"run", "delete"}) => net'[r] = net[r]
                            /\ Told(r, {"run"}) => net'[r] = net[r]
                            /\ Told(r, {"delete"}) => net'[r] = net[r]
        /\ \A r \in Slots : Told(r, {"registry"})' =>
              \/ net'[r] = net[r] /\ Told(r, {"registry"})
              \/ net'[r].got = Registry /\ net'[r].seen = version
    BY <1>4, <1>6 DEF Told, Reading
  <2>2. \A r \in Slots : net[r].seen \in Nat /\ net'[r].seen \in Nat
    BY <1>4 DEF NetOK, CallOK
  <2>3. SeenOK'
    BY <1>6, <2>1, <2>2 DEF TableInv, SeenOK, Reading, server, ServerOK
  <2>4. \A n : (OnlyDeletions(n)' <=> OnlyDeletions(n)) /\ \A l : Deleted(l, n)' <=> Deleted(l, n)
    BY <1>6, <2>1 DEF OnlyDeletions, Deleted, Reading, server
  <2>5. Registry' = Registry
    BY <1>6 DEF Reading, Registry, server
  <2>6. \A b, n : Shows(b, n)' <=> Shows(b, n)
    BY <2>4, <2>5 DEF Shows
  <2>7. ASSUME NEW r \in Slots, Told(r, {"registry"})', OnlyDeletions(net[r].seen)'
        PROVE  Shows(net[r].got, net[r].seen)'
    <3>1. PICK b, n : b = net'[r].got /\ n = net'[r].seen
      OBVIOUS
    <3>2. OnlyDeletions(n)
      BY <2>4, <2>7, <3>1 DEF OnlyDeletions
    <3>3. Shows(b, n)
      BY <2>1, <2>7, <3>1, <3>2 DEF TableInv, AnswersTrue, Shows
    <3>4. Shows(b, n)'
      BY <2>6, <3>3
    <3>5. QED
      BY <3>1, <3>4 DEF Shows, Deleted
  <2>8. ASSUME NEW r \in Slots, Told(r, {"run"})', OnlyDeletions(net[r].seen)'
        PROVE  \/ jobs'[net'[r].list].at = "gone"
               \/ net'[r].got.dial = jobs'[net'[r].list].dial
    <3>1. PICK n : n = net'[r].seen
      OBVIOUS
    <3>2. OnlyDeletions(n)
      BY <2>4, <2>8, <3>1 DEF OnlyDeletions
    <3>3. net'[r] = net[r] /\ Told(r, {"run"}) /\ OnlyDeletions(net[r].seen)
      BY <2>1, <2>8, <3>1, <3>2
    <3>4. QED
      BY <1>6, <3>3 DEF TableInv, AnswersTrue, Reading, server
  <2>9. ASSUME OnlyDeletions(synced)' PROVE Shows(batches, synced)'
    <3>1. PICK b, n : b = batches /\ n = synced
      OBVIOUS
    <3>2. OnlyDeletions(n)
      BY <1>0, <2>4, <2>9, <3>1 DEF OnlyDeletions, table
    <3>3. Shows(b, n)'
      BY <2>6, <3>1, <3>2 DEF TableInv
    <3>4. QED
      BY <1>0, <3>1, <3>3 DEF Shows, Deleted, table
  <2>10. TableInv'
    BY <2>3, <2>7, <2>8, <2>9 DEF TableInv, AnswersTrue
  <2>11. QED
    BY <1>0, <1>6, <2>10 DEF TableOK, table, Reading, server
<1>7. ASSUME version' = version + 1,
             net'[s].ok => /\ net'[s].seen = version + 1 /\ net'[s].kind \notin {"registry", "delete"}
                           /\ net'[s].kind = "run" =>
                                net'[s].got.dial = jobs'[net'[s].list].dial
      PROVE  TableInv' /\ TableOK'
  <2>1. version \in Nat /\ version' = version + 1 /\ version >= 1
    BY <1>7 DEF ServerOK, TableInv, SeenOK
  <2>2. \A r \in Slots : net[r].seen \in Nat /\ net'[r].seen \in Nat
    BY <1>4 DEF NetOK, CallOK
  <2>3. \A r \in Slots :
          /\ Told(r, {"delete"})' => Told(r, {"delete"}) /\ net'[r] = net[r]
          /\ Told(r, {"registry"})' => Told(r, {"registry"}) /\ net'[r] = net[r]
          /\ Told(r, {"run", "delete"})' =>
               \/ Told(r, {"run", "delete"}) /\ net'[r] = net[r]
               \/ /\ r = s /\ net'[s].seen = version + 1 /\ net'[s].kind = "run"
    BY <1>4, <1>7 DEF Told
  <2>4. \A r \in Slots : /\ Told(r, {"delete"}) => net[r].seen <= version
                         /\ Told(r, {"run", "delete"}) => net[r].seen \in 2..version
                         /\ Told(r, {"registry"}) => net[r].seen <= version
    BY <2>1 DEF TableInv, SeenOK, Told
  <2>5. ASSUME NEW n \in Nat, OnlyDeletions(n)' PROVE n > version
    <3>1. SUFFICES ASSUME n <= version PROVE FALSE
      BY <2>1
    <3>2. version + 1 \in (n + 1)..version'
      BY <2>1, <3>1
    <3>3. PICK r \in Slots : Told(r, {"delete"})' /\ net'[r].seen = version + 1
      BY <2>5, <3>2 DEF OnlyDeletions
    <3>4. QED
      BY <2>1, <2>2, <2>3, <2>4, <3>3
  <2>6. \A r \in Slots : Told(r, {"delete"})' => net'[r].list \in Lists
                                               /\ jobs'[net'[r].list].at = "gone"
    <3>1. \A r \in Slots : Told(r, {"delete"}) => net[r].list \in Lists
      BY DEF NetOK, CallOK, Intact, Told
    <3>2. QED
      BY <1>3, <2>3, <3>1 DEF TableInv, SeenOK, Keeps
  <2>7. SeenOK'
    <3>1. /\ version' >= 1
          /\ \A r \in Slots : Told(r, {"registry"})' => net'[r].seen <= version'
          /\ \A r \in Slots : Told(r, {"run", "delete"})' => net'[r].seen \in 2..version'
      BY <2>1, <2>2, <2>3, <2>4
    <3>2. \A q, r \in Slots :
            Told(q, {"run", "delete"})' /\ Told(r, {"run", "delete"})'
            /\ net'[q].seen = net'[r].seen => q = r
      BY <2>1, <2>2, <2>3, <2>4 DEF TableInv, SeenOK
    <3>3. QED
      BY <2>6, <3>1, <3>2 DEF SeenOK
  <2>8. ASSUME NEW r \in Slots, Told(r, {"registry"})' PROVE ~OnlyDeletions(net[r].seen)'
    <3>1. PICK n : n = net'[r].seen
      OBVIOUS
    <3>2. n \in Nat /\ n <= version
      BY <2>2, <2>3, <2>4, <2>8, <3>1
    <3>3. ~OnlyDeletions(n)'
      BY <2>1, <2>5, <3>2
    <3>4. QED
      BY <3>1, <3>3 DEF OnlyDeletions
  <2>9. ASSUME NEW r \in Slots, Told(r, {"run"})', OnlyDeletions(net[r].seen)'
        PROVE  net'[r].got.dial = jobs'[net'[r].list].dial
    <3>1. PICK n : n = net'[r].seen
      OBVIOUS
    <3>2. OnlyDeletions(n)'
      BY <2>9, <3>1 DEF OnlyDeletions
    <3>3. n > version
      BY <2>2, <2>5, <3>1, <3>2
    <3>4. Told(r, {"run", "delete"})' /\ ~(net'[r].kind = "delete")
      BY <2>9 DEF Told
    <3>5. r = s /\ net'[s].ok /\ net'[s].kind = "run"
      BY <2>1, <2>2, <2>3, <2>4, <2>9, <3>1, <3>3, <3>4 DEF Told
    <3>6. QED
      BY <1>7, <3>5
  <2>10. ~OnlyDeletions(synced)'
    <3>1. PICK n : n = synced
      OBVIOUS
    <3>2. n \in Nat /\ n <= version /\ synced' = n
      BY <1>0, <2>1, <3>1 DEF TableOK, table
    <3>3. ~OnlyDeletions(n)'
      BY <2>1, <2>5, <3>2
    <3>4. QED
      BY <3>2, <3>3 DEF OnlyDeletions
  <2>11. TableInv'
    BY <2>7, <2>8, <2>9, <2>10 DEF TableInv, AnswersTrue
  <2>12. QED
    BY <1>0, <2>1, <2>11 DEF TableOK, table
<1>8. ASSUME Writing(net[s], ok, got, v) PROVE TableInv' /\ TableOK'
  BY <1>4, <1>7, <1>8 DEF Writing
<1>9. ASSUME Deleting(net[s], ok, v), ~net'[s].ok PROVE TableInv' /\ TableOK'
  BY <1>7, <1>9 DEF Deleting
<1>10. ASSUME Deleting(net[s], ok, v), net'[s].ok PROVE TableInv' /\ TableOK'
  <2>1. version \in Nat /\ version' = version + 1 /\ version >= 1
    BY <1>10 DEF Deleting, ServerOK, TableInv, SeenOK
  <2>2. \A r \in Slots : net[r].seen \in Nat /\ net'[r].seen \in Nat
    BY <1>4 DEF NetOK, CallOK
  <2>3. /\ ~Told(s, {"delete"}) /\ ~Told(s, {"run"}) /\ ~Told(s, {"registry"})
        /\ ~Told(s, {"run", "delete"})
        /\ Told(s, {"delete"})' /\ ~Told(s, {"run"})' /\ ~Told(s, {"registry"})'
        /\ net'[s].seen = version + 1 /\ net'[s].list = net[s].list /\ net[s].kind = "delete"
    BY <1>4, <1>10 DEF Told, Deleting
  <2>4. \A r \in Slots \ {s} : /\ net'[r] = net[r]
                               /\ Told(r, {"delete"})' <=> Told(r, {"delete"})
                               /\ Told(r, {"registry"})' <=> Told(r, {"registry"})
                               /\ Told(r, {"run"})' <=> Told(r, {"run"})
                               /\ Told(r, {"run", "delete"})' <=> Told(r, {"run", "delete"})
    BY <1>4 DEF Told
  <2>5. \A r \in Slots : /\ Told(r, {"delete"}) => net[r].seen <= version
                         /\ Told(r, {"run", "delete"}) => net[r].seen \in 2..version
                         /\ Told(r, {"registry"}) => net[r].seen <= version
    BY <2>1 DEF TableInv, SeenOK, Told
  <2>6. net[s].list \in Lists /\ jobs'[net[s].list].at = "gone"
        /\ \A l \in Lists \ {net[s].list} : jobs'[l] = jobs[l]
    BY <1>0, <1>10 DEF Deleting, NetOK, CallOK, Intact
  <2>7. ASSUME NEW n \in Nat, OnlyDeletions(n)', n <= version PROVE OnlyDeletions(n)
    <3>1. SUFFICES ASSUME NEW m \in (n + 1)..version
                   PROVE  \E r \in Slots : Told(r, {"delete"}) /\ net[r].seen = m
      BY DEF OnlyDeletions
    <3>2. m \in (n + 1)..version' /\ m # version + 1
      BY <2>1, <3>1
    <3>3. PICK r \in Slots : Told(r, {"delete"})' /\ net'[r].seen = m
      BY <2>7, <3>2 DEF OnlyDeletions
    <3>4. r # s
      BY <2>3, <3>2, <3>3
    <3>5. QED
      BY <2>4, <3>3, <3>4
  <2>8. ASSUME NEW b, NEW n \in Nat, n <= version, Shows(b, n) PROVE Shows(b, n)'
    <3>1. SUFFICES ASSUME NEW l \in Lists
                   PROVE  b[l] = Registry'[l] \/ (Registry'[l] = None /\ Deleted(l, n)')
      BY DEF Shows
    <3>2. CASE l = net[s].list
      <4>1. Registry'[l] = None
        BY <2>6, <3>2 DEF Registry
      <4>2. Deleted(l, n)'
        BY <2>1, <2>3, <2>8, <3>2 DEF Deleted
      <4>3. QED
        BY <4>1, <4>2
    <3>3. CASE l # net[s].list
      <4>1. Registry'[l] = Registry[l]
        BY <2>6, <3>3 DEF Registry
      <4>2. Deleted(l, n) => Deleted(l, n)'
        BY <2>3, <2>4 DEF Deleted
      <4>3. QED
        BY <2>8, <4>1, <4>2 DEF Shows
    <3>4. QED
      BY <3>2, <3>3
  <2>9. SeenOK'
    <3>1. /\ version' >= 1
          /\ \A r \in Slots : Told(r, {"registry"})' => net'[r].seen <= version'
          /\ \A r \in Slots : Told(r, {"run", "delete"})' => net'[r].seen \in 2..version'
      BY <2>1, <2>2, <2>3, <2>4, <2>5
    <3>2. \A q, r \in Slots :
            Told(q, {"run", "delete"})' /\ Told(r, {"run", "delete"})'
            /\ net'[q].seen = net'[r].seen => q = r
      <4>1. \A r \in Slots \ {s} : Told(r, {"run", "delete"})' => net'[r].seen # version + 1
        BY <2>1, <2>4, <2>5
      <4>2. \A q, r \in Slots \ {s} :
              Told(q, {"run", "delete"})' /\ Told(r, {"run", "delete"})'
              /\ net'[q].seen = net'[r].seen => q = r
        BY <2>4 DEF TableInv, SeenOK
      <4>3. QED
        BY <2>3, <4>1, <4>2
    <3>3. \A r \in Slots : Told(r, {"delete"}) => net[r].list \in Lists
      BY DEF NetOK, CallOK, Intact, Told
    <3>4. \A r \in Slots : Told(r, {"delete"})' => jobs'[net'[r].list].at = "gone"
      BY <1>3, <2>3, <2>4, <2>6, <3>3 DEF TableInv, SeenOK, Keeps
    <3>5. QED
      BY <3>1, <3>2, <3>4 DEF SeenOK
  <2>10. ASSUME NEW r \in Slots, Told(r, {"registry"})', OnlyDeletions(net[r].seen)'
         PROVE  Shows(net[r].got, net[r].seen)'
    <3>1. PICK b, n : b = net'[r].got /\ n = net'[r].seen
      OBVIOUS
    <3>2. r # s /\ net'[r] = net[r] /\ Told(r, {"registry"}) /\ n \in Nat /\ n <= version
      BY <2>2, <2>3, <2>4, <2>5, <2>10, <3>1
    <3>3. OnlyDeletions(n)'
      BY <2>10, <3>1 DEF OnlyDeletions
    <3>4. OnlyDeletions(n)
      BY <2>7, <3>2, <3>3
    <3>5. Shows(b, n)
      BY <3>1, <3>2, <3>4 DEF TableInv, AnswersTrue
    <3>6. Shows(b, n)'
      BY <2>8, <3>2, <3>5
    <3>7. QED
      BY <3>1, <3>6 DEF Shows, Deleted
  <2>11. ASSUME NEW r \in Slots, Told(r, {"run"})', OnlyDeletions(net[r].seen)'
         PROVE  \/ jobs'[net'[r].list].at = "gone"
                \/ net'[r].got.dial = jobs'[net'[r].list].dial
    <3>1. PICK n : n = net'[r].seen
      OBVIOUS
    <3>2. r # s /\ net'[r] = net[r] /\ Told(r, {"run"}) /\ n \in Nat /\ net[r].list \in Lists
      BY <2>2, <2>3, <2>4, <2>11, <3>1 DEF NetOK, CallOK, Intact, Told
    <3>3. n <= version
      BY <2>1, <2>5, <3>1, <3>2 DEF Told
    <3>4. OnlyDeletions(n)'
      BY <2>11, <3>1 DEF OnlyDeletions
    <3>5. OnlyDeletions(n)
      BY <2>7, <3>2, <3>3, <3>4
    <3>6. jobs[net[r].list].at = "gone" \/ net[r].got.dial = jobs[net[r].list].dial
      BY <3>1, <3>2, <3>5 DEF TableInv, AnswersTrue
    <3>7. QED
      BY <2>6, <3>2, <3>6
  <2>12. ASSUME OnlyDeletions(synced)' PROVE Shows(batches, synced)'
    <3>1. PICK b, n : b = batches /\ n = synced
      OBVIOUS
    <3>2. n \in Nat /\ n <= version /\ batches' = b /\ synced' = n
      BY <1>0, <2>1, <3>1 DEF TableOK, table
    <3>3. OnlyDeletions(n)'
      BY <2>12, <3>2 DEF OnlyDeletions
    <3>4. OnlyDeletions(n)
      BY <2>7, <3>2, <3>3
    <3>5. Shows(b, n)
      BY <3>1, <3>4 DEF TableInv
    <3>6. Shows(b, n)'
      BY <2>8, <3>2, <3>5
    <3>7. QED
      BY <3>2, <3>6 DEF Shows, Deleted
  <2>13. TableInv'
    BY <2>9, <2>10, <2>11, <2>12 DEF TableInv, AnswersTrue
  <2>14. QED
    BY <1>0, <2>1, <2>13 DEF TableOK, table
<1>11. QED
  BY <1>2, <1>3, <1>4, <1>5, <1>6, <1>8, <1>9, <1>10 DEF Work

-----------------------------------------------------------------------------
(* Every other step leaves the server alone, keeps the calls well formed, and *)
(* brings no answer about the table.                                        *)

Still == UNCHANGED server /\ NetOK' /\ NothingTold

LEMMA SentOK ==
  ASSUME NEW kind \in Kinds, NEW l \in Lists \cup {None}, NEW a,
         kind \in {"mapping", "commit", "edit", "run", "delete"} => l \in Lists,
         kind = "upload" => a \in Files,
         kind = "mapping" => a \in Mappings,
         kind = "run" => a \in [on : BOOLEAN, chosen : BOOLEAN],
         kind \in {"edit", "delete"} => a \in BOOLEAN,
         kind = "leads" => a \in Queries
  PROVE  CallOK(Call(kind, l, a)) /\ ~Call(kind, l, a).ok
<1>1. PICK c : c = Call(kind, l, a)
  OBVIOUS
<1>2. /\ DOMAIN c = DOMAIN Idle
      /\ c.kind = kind /\ c.phase = "sent" /\ c.list = l /\ c.arg = a
      /\ c.ok = FALSE /\ c.dead = FALSE /\ c.seen = 0
  BY <1>1 DEF Call, Idle
<1>3. /\ c.kind # "idle" /\ c.phase # "idle" /\ c.phase # "served"
      /\ c.phase \in {"idle", "sent", "served"}
  BY <1>2 DEF Kinds
<1>4. ~c.ok /\ c.ok \in BOOLEAN /\ c.dead \in BOOLEAN /\ c.seen \in Nat
  BY <1>1 DEF Call, Idle
<1>5. CallOK(c)
  BY <1>2, <1>3, <1>4 DEF CallOK
<1>6. QED
  BY <1>1, <1>4, <1>5

LEMMA Replaced ==
  ASSUME NetOK, NEW s \in Slots, NEW c, net' = [net EXCEPT ![s] = c], CallOK(c),
         ~c.ok \/ c.kind \notin ToldKinds
  PROVE  NetOK' /\ NothingTold
<1>1. NetOK' /\ net'[s] = c /\ \A r \in Slots \ {s} : net'[r] = net[r]
  BY OneSlot
<1>2. QED
  BY <1>1 DEF NothingTold, Told

LEMMA Freed ==
  ASSUME NetOK, NEW s \in Slots, Done(s)
  PROVE  NetOK' /\ NothingTold
<1>1. PICK c : c = Idle
  OBVIOUS
<1>2. CallOK(c) /\ ~c.ok
  BY <1>1, IdleOK, IdleFields
<1>3. QED
  BY <1>1, <1>2, Replaced DEF Done

LEMMA Begun ==
  ASSUME NetOK, NEW kind, NEW l, NEW a, Start(Call(kind, l, a)),
         CallOK(Call(kind, l, a)) /\ ~Call(kind, l, a).ok
  PROVE  NetOK' /\ NothingTold
<1>1. PICK s \in Slots : net' = [net EXCEPT ![s] = Call(kind, l, a)]
  BY Started
<1>2. PICK c : c = Call(kind, l, a)
  OBVIOUS
<1>3. QED
  BY <1>1, <1>2, Replaced

LEMMA SameCalls == ASSUME NetOK, UNCHANGED net PROVE NetOK' /\ NothingTold
BY DEF NetOK, NothingTold

\* Answers.
LEMMA AnsweredMoves ==
  ASSUME NetOK, ScreenOK, NEW s \in Slots, Lose(s) \/ Answered(s)
  PROVE  Still
<1> DEFINE c == net[s]
<1>0. CallOK(c)
  BY DEF NetOK
<1>1. CASE Lose(s)
  <2>1. c.kind # "idle" /\ UNCHANGED server
    BY <1>0, <1>1 DEF Lose, CallOK
  <2>2. PICK a : a = Answer(c, FALSE, None, 0)
    OBVIOUS
  <2>3. CallOK(a)
    BY <1>0, <2>1, <2>2, AnswerOK
  <2>4. ~a.ok
    BY <2>2, IdleFields DEF Answer, Idle
  <2>5. net' = [net EXCEPT ![s] = a]
    BY <1>1, <2>2 DEF Lose
  <2>6. QED
    BY <2>1, <2>3, <2>4, <2>5, Replaced DEF Still
<1>2. ASSUME NEW a, net' = [net EXCEPT ![s] = a], UNCHANGED server, CallOK(a) /\ ~a.ok
      PROVE  Still
  BY <1>2, Replaced DEF Still
<1>3. CallOK(Idle) /\ ~Idle.ok
  BY IdleOK, IdleFields
<1>4. \A l \in Lists \cup {None} : CallOK(Call("leads", l, query)) /\ ~Call("leads", l, query).ok
  BY SentOK DEF ScreenOK, Kinds
<1>5. \A l \in Lists \cup {None} : CallOK(Call("registry", l, None)) /\ ~Call("registry", l, None).ok
  BY SentOK DEF Kinds
<1>6. CASE RegistryAnswered(s)
  <2>1. PICK a : net' = [net EXCEPT ![s] = a] /\ (a = Call("leads", c.list, query) \/ a = Idle)
    BY <1>6 DEF RegistryAnswered
  <2>2. c.list \in Lists \cup {None} /\ UNCHANGED server
    BY <1>0, <1>6 DEF CallOK, RegistryAnswered
  <2>3. QED
    BY <1>2, <1>3, <1>4, <2>1, <2>2
<1>7. CASE EditAnswered(s)
  <2>1. PICK a : a = Call("registry", None, None)
    OBVIOUS
  <2>2. QED
    BY <1>2, <1>5, <1>7, <2>1 DEF EditAnswered
<1>8. CASE RunAnswered(s)
  <2>1. PICK a : net' = [net EXCEPT ![s] = a] /\ (a = Call("leads", selected, query) \/ a = Idle)
    BY <1>8 DEF RunAnswered
  <2>2. selected \in Lists \cup {None} /\ UNCHANGED server
    BY <1>8 DEF ScreenOK, RunAnswered
  <2>3. QED
    BY <1>2, <1>3, <1>4, <2>1, <2>2
<1>9. CASE DeleteAnswered(s)
  <2>1. PICK a : net' = [net EXCEPT ![s] = a] /\ (a = Call("leads", None, query) \/ a = Idle)
    BY <1>9 DEF DeleteAnswered
  <2>2. UNCHANGED server
    BY <1>9 DEF DeleteAnswered
  <2>3. QED
    BY <1>2, <1>3, <1>4, <2>1, <2>2
<1>10. CASE RowsAnswered(s)
  <2>1. PICK a : a = [Call("register", None, None) EXCEPT !.phase = "served", !.ok = TRUE]
    OBVIOUS
  <2>2. /\ DOMAIN a = DOMAIN Idle /\ a.kind = "register" /\ a.phase = "served" /\ a.ok = TRUE
        /\ a.dead = FALSE /\ a.seen = 0 /\ a.list = None
    BY <2>1 DEF Call, Idle
  <2>3. /\ a.kind \in Kinds /\ a.kind # "idle" /\ a.phase # "idle" /\ a.phase # "sent"
        /\ a.phase \in {"idle", "sent", "served"} /\ a.list \in Lists \cup {None}
        /\ a.kind \notin ToldKinds
        /\ a.kind \notin {"mapping", "commit", "edit", "run", "delete", "upload", "leads"}
    BY <2>2 DEF Kinds, ToldKinds
  <2>4. a.ok \in BOOLEAN /\ a.dead \in BOOLEAN /\ ~a.dead /\ a.seen \in Nat
    BY <2>1 DEF Call, Idle
  <2>5. CallOK(a)
    BY <2>2, <2>3, <2>4 DEF CallOK, ToldKinds
  <2>6. QED
    BY <1>10, <2>1, <2>3, <2>5, Replaced DEF RowsAnswered, Still
<1>11. CASE RegisterAnswered(s) \/ LeadAdded(s) \/ UploadAnswered(s) \/ MappingAnswered(s)
  BY <1>11, Freed DEF Still, RegisterAnswered, LeadAdded, UploadAnswered, MappingAnswered
<1>12. CASE CommitAnswered(s)
  <2>1. PICK a : net' = [net EXCEPT ![s] = a] /\ (a = Call("registry", c.list, None) \/ a = Idle)
    BY <1>12 DEF CommitAnswered
  <2>2. c.list \in Lists \cup {None} /\ UNCHANGED server
    BY <1>0, <1>12 DEF CallOK, CommitAnswered
  <2>3. QED
    BY <1>2, <1>3, <1>5, <2>1, <2>2
<1>13. QED
  BY <1>1, <1>6, <1>7, <1>8, <1>9, <1>10, <1>11, <1>12 DEF Answered

\* Clicks on the table, the rows and the wizard, by the call they make, if any.
Clicks ==
  \/ \E l \in Lists : ToggleRun(l) \/ DeleteList(l) \/ SelectList(l)
                      \/ \E value \in BOOLEAN : EditRow(l, value)
  \/ ClearSelected \/ Narrow \/ AddLead
  \/ OpenWizard \/ ValidateMapping \/ StartImport \/ StepBack \/ LeaveWizard
  \/ \E f \in Files : UploadFile(f)
  \/ \E f \in Files : \E i \in 1..Len(f) : \E t \in EditTo : EditMapping(i, t)
  \/ ImportFile \/ ImportDemo \/ DeleteFolder

LEMMA ClicksMove ==
  ASSUME NetOK, ScreenOK, WizardOK, Clicks
  PROVE  Still
<1>1. ASSUME NEW kind \in Kinds, NEW l \in Lists \cup {None}, NEW a, Start(Call(kind, l, a)),
             UNCHANGED server,
             kind \in {"mapping", "commit", "edit", "run", "delete"} => l \in Lists,
             kind = "upload" => a \in Files,
             kind = "mapping" => a \in Mappings,
             kind = "run" => a \in [on : BOOLEAN, chosen : BOOLEAN],
             kind \in {"edit", "delete"} => a \in BOOLEAN,
             kind = "leads" => a \in Queries
      PROVE  Still
  <2>1. CallOK(Call(kind, l, a)) /\ ~Call(kind, l, a).ok
    BY <1>1, SentOK
  <2>2. QED
    BY <1>1, <2>1, Begun DEF Still
<1>2. \A q \in Queries, l \in Lists \cup {None} : LoadRows(l, q) /\ UNCHANGED server => Still
  BY <1>1 DEF LoadRows, Kinds
<1>3. UNCHANGED <<net, server>> => Still
  BY SameCalls DEF Still
<1>4. ASSUME NEW l \in Lists, ToggleRun(l) PROVE Still
  <2>1. PICK a : a = [on |-> ~batches[l].run, chosen |-> selected = l]
    OBVIOUS
  <2>2. a \in [on : BOOLEAN, chosen : BOOLEAN]
    BY <2>1
  <2>3. Start(Call("run", l, a)) /\ UNCHANGED server
    BY <1>4, <2>1 DEF ToggleRun
  <2>4. QED
    BY <1>1, <2>2, <2>3 DEF Kinds
<1>5. ASSUME NEW l \in Lists, DeleteList(l) PROVE Still
  <2>1. PICK a : a = (selected = l)
    OBVIOUS
  <2>2. Start(Call("delete", l, a)) /\ UNCHANGED server /\ a \in BOOLEAN
    BY <1>5, <2>1 DEF DeleteList
  <2>3. QED
    BY <1>1, <2>2 DEF Kinds
<1>6. ASSUME NEW l \in Lists, SelectList(l) PROVE Still
  <2>1. query' \in Queries /\ UNCHANGED server
    BY <1>6 DEF SelectList, ScreenOK, Queries
  <2>2. UNCHANGED net \/ LoadRows(l, query')
    BY <1>6 DEF SelectList
  <2>3. QED
    BY <1>2, <1>3, <2>1, <2>2
<1>7. ASSUME NEW l \in Lists, NEW value \in BOOLEAN, EditRow(l, value) PROVE Still
  BY <1>1, <1>7 DEF EditRow, Kinds
<1>8. CASE ClearSelected
  <2>1. UNCHANGED server /\ query \in Queries /\ (UNCHANGED net \/ LoadRows(None, query))
    BY <1>8 DEF ClearSelected, ScreenOK
  <2>2. QED
    BY <1>2, <1>3, <2>1
<1>9. CASE Narrow
  <2>1. query' \in Queries /\ selected \in Lists \cup {None} /\ UNCHANGED server
    <3>1. query.page \in 1..2 /\ query.narrow \in BOOLEAN /\ query \in Queries
      BY DEF ScreenOK, Queries
    <3>2. 3 - query.page \in 1..2
      BY <3>1
    <3>3. [query EXCEPT !.page = 3 - @] \in Queries
      BY <3>1, <3>2 DEF Queries
    <3>4. [page |-> 1, narrow |-> ~query.narrow] \in Queries
      BY DEF Queries
    <3>5. QED
      BY <1>9, <3>3, <3>4 DEF Narrow, ScreenOK
  <2>2. LoadRows(selected, query')
    BY <1>9 DEF Narrow
  <2>3. QED
    BY <1>2, <2>1, <2>2
<1>10. CASE AddLead
  BY <1>1, <1>10 DEF AddLead, Kinds
<1>11. CASE ValidateMapping
  BY <1>1, <1>11 DEF ValidateMapping, Kinds, WizardOK, WizardRows
<1>12. CASE StartImport
  BY <1>1, <1>12 DEF StartImport, Kinds, WizardOK, WizardRows
<1>13. ASSUME NEW f \in Files, UploadFile(f) PROVE Still
  BY <1>1, <1>13 DEF UploadFile, Kinds
<1>14. CASE OpenWizard \/ StepBack \/ LeaveWizard \/ ImportFile \/ ImportDemo \/ DeleteFolder
  BY <1>3, <1>14 DEF OpenWizard, StepBack, LeaveWizard, ImportFile, ImportDemo, DeleteFolder
<1>15. ASSUME NEW i, NEW t, EditMapping(i, t) PROVE Still
  BY <1>3, <1>15 DEF EditMapping
<1>16. QED
  BY <1>4, <1>5, <1>6, <1>7, <1>8, <1>9, <1>10, <1>11, <1>12, <1>13, <1>14, <1>15 DEF Clicks

\* The desk opens again: what was sent is dead, what had been answered is gone.
LEMMA RemountMoves ==
  ASSUME NetOK, Remount
  PROVE  /\ Still
         /\ \A s \in Slots : \/ net'[s].dead \/ net'[s].kind \in {"idle", "leads"}
                             \/ net'[s].kind = "registry" /\ net'[s].list = None
<1> DEFINE gone == [s \in Slots |-> CASE net[s].phase = "sent" -> [net[s] EXCEPT !.dead = TRUE]
                                      [] OTHER -> Idle]
<1>1. PICK a \in Slots, b \in Slots :
        a < b /\ net' = [gone EXCEPT ![a] = Call("registry", None, None),
                                     ![b] = Call("leads", None, [page |-> 1, narrow |-> FALSE])]
  BY DEF Remount
<1>2. PICK c, d : /\ c = Call("registry", None, None)
                  /\ d = Call("leads", None, [page |-> 1, narrow |-> FALSE])
  OBVIOUS
<1>3. CallOK(c) /\ ~c.ok /\ c.kind = "registry" /\ c.list = None
  <2>1. CallOK(c) /\ ~c.ok
    BY <1>2, SentOK DEF Kinds
  <2>2. QED
    BY <1>2, <2>1 DEF Call, Idle
<1>4. CallOK(d) /\ ~d.ok /\ d.kind = "leads"
  <2>1. [page |-> 1, narrow |-> FALSE] \in Queries
    BY DEF Queries
  <2>2. CallOK(d) /\ ~d.ok
    BY <1>2, <2>1, SentOK DEF Kinds
  <2>3. QED
    BY <1>2, <2>2 DEF Call, Idle
<1>5. ASSUME NEW s \in Slots
      PROVE  CallOK(gone[s]) /\ ~gone[s].ok /\ (gone[s].dead \/ gone[s].kind = "idle")
  <2>1. CASE net[s].phase = "sent"
    <3>1. PICK e : e = [net[s] EXCEPT !.dead = TRUE]
      OBVIOUS
    <3>2. CallOK(net[s]) /\ ~net[s].ok
      BY <2>1 DEF NetOK, CallOK
    <3>3. /\ DOMAIN e = DOMAIN net[s]
          /\ e.kind = net[s].kind /\ e.phase = net[s].phase /\ e.list = net[s].list
          /\ e.arg = net[s].arg /\ e.ok = net[s].ok /\ e.seen = net[s].seen /\ e.got = net[s].got
          /\ e.dead = TRUE
      BY <3>1, <3>2 DEF CallOK, Idle
    <3>4. e.dead /\ e.dead \in BOOLEAN /\ ~e.ok /\ e.ok \in BOOLEAN
      BY <3>1, <3>2 DEF CallOK, Idle
    <3>5. CallOK(e)
      BY <2>1, <3>2, <3>3, <3>4 DEF CallOK, Intact
    <3>6. QED
      BY <2>1, <3>1, <3>4, <3>5
  <2>2. CASE net[s].phase # "sent"
    BY <2>2, IdleOK, IdleFields
  <2>3. QED
    BY <2>1, <2>2
<1>6. DOMAIN gone = Slots
  OBVIOUS
<1>7. net' = [gone EXCEPT ![a] = c, ![b] = d]
  BY <1>1, <1>2
<1> HIDE DEF gone
<1>8. DOMAIN net' = Slots /\ net'[b] = d /\ net'[a] = c
      /\ \A s \in Slots \ {a, b} : net'[s] = gone[s]
  BY <1>1, <1>6, <1>7 DEF Slots
<1>9. \A s \in Slots : CallOK(net'[s]) /\ ~net'[s].ok
  BY <1>3, <1>4, <1>5, <1>8
<1>10. NetOK'
  BY <1>8, <1>9 DEF NetOK
<1>11. Still
  BY <1>9, <1>10 DEF Still, NothingTold, Told, Remount
<1>12. QED
  BY <1>3, <1>4, <1>5, <1>8, <1>11

-----------------------------------------------------------------------------
(* The table over a step that may change it.                                *)

\* Any table is as good as none while an edit is shown: the first write is not
\* a deletion that is under way.
LEMMA AfterEdit == ASSUME SeenOK, ServerOK PROVE ~OnlyDeletions(0)
<1>1. version \in Nat /\ 1 \in 1..version /\ 0 + 1 = 1
  BY DEF SeenOK, ServerOK
<1>2. SUFFICES ASSUME OnlyDeletions(0) PROVE FALSE
  OBVIOUS
<1>3. PICK s \in Slots : Told(s, {"delete"}) /\ net[s].seen = 1
  BY <1>1, <1>2 DEF OnlyDeletions
<1>4. QED
  BY <1>3 DEF SeenOK, Told

LEMMA Edited ==
  ASSUME NetOK, ServerOK, TableInv, Still, synced' = 0
  PROVE  TableInv'
<1>1. SeenOK' /\ AnswersTrue'
  BY StillTrue DEF TableInv, Still
<1>2. OnlyDeletions(0)' => OnlyDeletions(0)
  BY Forgotten DEF TableInv, Still
<1>3. ~OnlyDeletions(0)'
  BY <1>2, AfterEdit DEF TableInv
<1>4. ~OnlyDeletions(synced)'
  BY <1>3 DEF OnlyDeletions
<1>5. QED
  BY <1>1, <1>4 DEF TableInv

\* A step that shows table b as of version v, where it is right to.
LEMMA Shown ==
  ASSUME NetOK, ServerOK, TableInv, Still, NEW b, NEW v \in Nat, batches' = b, synced' = v,
         OnlyDeletions(v)' => Shows(b, v)'
  PROVE  TableInv'
<1>1. SeenOK' /\ AnswersTrue'
  BY StillTrue DEF TableInv, Still
<1>2. OnlyDeletions(synced)' => Shows(batches, synced)'
  BY DEF OnlyDeletions, Shows, Deleted
<1>3. QED
  BY <1>1, <1>2 DEF TableInv

LEMMA RegistryTable ==
  ASSUME NetOK, ServerOK, TableOK, TableInv, Still, NEW s \in Slots, RegistryAnswered(s)
  PROVE  TableInv' /\ TableOK'
<1>1. CASE ~net[s].ok
  <2>1. UNCHANGED <<server, table>>
    BY <1>1 DEF RegistryAnswered, Still
  <2>2. QED
    BY <2>1, TableStays DEF Still, TableOK, server, table
<1>2. CASE net[s].ok
  <2>1. PICK b, v : b = net[s].got /\ v = net[s].seen
    OBVIOUS
  <2>2. Told(s, {"registry"}) /\ batches' = b /\ synced' = v
    BY <1>2, <2>1 DEF RegistryAnswered, Arrives, Told, Retable
  <2>3. v \in Nat /\ v <= version /\ b \in Tables /\ version \in Nat
    BY <1>2, <2>1, <2>2 DEF NetOK, CallOK, TableInv, SeenOK, Told, ServerOK
  <2>4. OnlyDeletions(v) => Shows(b, v)
    BY <2>1, <2>2 DEF TableInv, AnswersTrue
  <2>5. OnlyDeletions(v)' => Shows(b, v)'
    BY <2>3, <2>4, StillShows DEF Still, TableInv
  <2>6. TableInv'
    BY <2>2, <2>3, <2>5, Shown
  <2>7. QED
    BY <2>2, <2>3, <2>6 DEF TableOK, Still, server
<1>3. QED
  BY <1>1, <1>2

LEMMA EditTable ==
  ASSUME NetOK, ServerOK, TableOK, TableInv, Still, NEW l \in Lists, NEW value \in BOOLEAN,
         EditRow(l, value)
  PROVE  TableInv' /\ TableOK'
<1>1. synced' = 0 /\ batches' = [batches EXCEPT ![l].dial = value] /\ batches[l] # None
  BY DEF EditRow, Retable, EditOffered, RowOffered
<1>2. batches' \in Tables
  BY <1>1 DEF TableOK, Tables, Row
<1>3. QED
  BY <1>1, <1>2, Edited DEF TableOK, Still, server, ServerOK

LEMMA RunTable ==
  ASSUME NetOK, ServerOK, TableOK, TableInv, Still, NEW s \in Slots, RunAnswered(s)
  PROVE  TableInv' /\ TableOK'
<1> DEFINE c == net[s]
           l == c.list
<1>1. CASE ~c.ok
  <2>1. UNCHANGED <<server, table>>
    BY <1>1 DEF RunAnswered, Still
  <2>2. QED
    BY <2>1, TableStays DEF Still, TableOK, server, table
<1>2. CASE c.ok
  <2>1. PICK b, v : /\ b = IF batches[l] = None THEN batches
                           ELSE [batches EXCEPT ![l].dial = @ \/ c.got.dial]
                    /\ v = IF c.seen < synced THEN c.seen ELSE synced
    OBVIOUS
  <2>2. Told(s, {"run"}) /\ Told(s, {"run", "delete"}) /\ batches' = b /\ synced' = v
    BY <1>2, <2>1 DEF RunAnswered, Arrives, Told, Retable
  <2>3. /\ c.seen \in Nat /\ l \in Lists /\ c.got \in Row /\ version \in Nat
        /\ synced \in Nat /\ synced <= version /\ c.seen \in 2..version
    BY <2>2 DEF NetOK, CallOK, Intact, Told, ServerOK, TableOK, TableInv, SeenOK
  <2>4. v \in Nat /\ v <= version /\ v <= synced /\ v <= c.seen /\ (v = synced \/ v = c.seen)
    BY <2>1, <2>3
  <2>5. batches \in Tables
    BY DEF TableOK
  <2>6. b \in Tables
    <3>1. CASE batches[l] = None
      BY <2>1, <2>5, <3>1
    <3>2. CASE batches[l] # None
      <4>1. batches[l] \in Row
        BY <2>3, <2>5, <3>2 DEF Tables
      <4>2. [batches[l] EXCEPT !.dial = batches[l].dial \/ c.got.dial] \in Row
        BY <4>1 DEF Row
      <4>3. b = [batches EXCEPT ![l] = [batches[l] EXCEPT !.dial = batches[l].dial \/ c.got.dial]]
        BY <2>1, <3>2
      <4>4. QED
        BY <2>3, <2>5, <4>2, <4>3 DEF Tables
    <3>3. QED
      BY <3>1, <3>2
  <2>7. ASSUME OnlyDeletions(v) PROVE Shows(b, v)
    <3>1. OnlyDeletions(synced) /\ OnlyDeletions(c.seen)
      <4>1. OnlyDeletions(synced)
        BY <2>3, <2>4, <2>7 DEF OnlyDeletions
      <4>2. CASE v = c.seen
        BY <2>7, <4>1, <4>2
      <4>3. CASE v # c.seen
        <5>1. c.seen \in (v + 1)..version
          BY <2>3, <2>4, <4>3
        <5>2. PICK r \in Slots : Told(r, {"delete"}) /\ net[r].seen = c.seen
          BY <2>7, <5>1 DEF OnlyDeletions
        <5>3. r = s
          BY <2>2, <5>2 DEF TableInv, SeenOK, Told
        <5>4. QED
          BY <2>2, <5>2, <5>3 DEF Told
      <4>4. QED
        BY <4>1, <4>2, <4>3
    <3>2. \A k \in Lists : Deleted(k, synced) => Deleted(k, v)
      BY <2>3, <2>4 DEF Deleted, NetOK, CallOK
    <3>3. \A k \in Lists : batches[k] = Registry[k] \/ (Registry[k] = None /\ Deleted(k, v))
      BY <3>1, <3>2 DEF TableInv, Shows
    <3>4. jobs[l].at = "gone" \/ c.got.dial = jobs[l].dial
      BY <2>2, <3>1 DEF TableInv, AnswersTrue
    <3>5. ASSUME NEW k \in Lists
          PROVE  b[k] = Registry[k] \/ (Registry[k] = None /\ Deleted(k, v))
      <4>1. CASE k # l \/ batches[l] = None
        <5>1. b[k] = batches[k]
          BY <2>1, <2>3, <2>5, <4>1 DEF Tables
        <5>2. QED
          BY <3>3, <5>1
      <4>2. CASE k = l /\ batches[l] # None /\ Registry[l] = None
        BY <2>3, <3>3, <4>2
      <4>3. CASE k = l /\ batches[l] # None /\ Registry[l] # None
        <5>1. batches[l] = Registry[l] /\ batches[l] \in Row
          BY <2>3, <2>5, <3>3, <4>3 DEF Tables
        <5>2. Registry[l] = [dial |-> jobs[l].dial, run |-> jobs[l].run] /\ jobs[l].at # "gone"
          BY <2>3, <4>3 DEF Registry
        <5>3. (batches[l].dial \/ c.got.dial) = batches[l].dial
          BY <2>3, <3>4, <5>1, <5>2 DEF Row
        <5>4. b = [batches EXCEPT ![l] = [batches[l] EXCEPT !.dial = batches[l].dial \/ c.got.dial]]
          BY <2>1, <4>3
        <5>5. b = [batches EXCEPT ![l] = [batches[l] EXCEPT !.dial = batches[l].dial]]
          BY <5>3, <5>4
        <5>6. b[l] = batches[l]
          BY <2>3, <2>5, <5>1, <5>5 DEF Tables, Row
        <5>7. QED
          BY <4>3, <5>1, <5>6
      <4>4. QED
        BY <4>1, <4>2, <4>3
    <3>6. QED
      BY <3>5 DEF Shows
  <2>8. OnlyDeletions(v)' => Shows(b, v)'
    BY <2>4, <2>7, StillShows DEF Still, TableInv
  <2>9. TableInv'
    BY <2>2, <2>4, <2>8, Shown
  <2>10. QED
    BY <2>2, <2>4, <2>6, <2>9, <2>3 DEF TableOK, Still, server
<1>3. QED
  BY <1>1, <1>2

LEMMA DeleteTable ==
  ASSUME NetOK, ServerOK, TableOK, TableInv, Still, NEW s \in Slots, DeleteAnswered(s)
  PROVE  TableInv' /\ TableOK'
<1> DEFINE c == net[s]
           l == c.list
<1>1. CASE ~c.ok
  <2>1. UNCHANGED <<server, table>>
    BY <1>1 DEF DeleteAnswered, Still
  <2>2. QED
    BY <2>1, TableStays DEF Still, TableOK, server, table
<1>2. CASE c.ok
  <2>1. PICK b, v : /\ b = [batches EXCEPT ![l] = None]
                    /\ v = IF synced + 1 = c.seen THEN c.seen ELSE synced
    OBVIOUS
  <2>2. Told(s, {"delete"}) /\ Told(s, {"run", "delete"}) /\ batches' = b /\ synced' = v
    BY <1>2, <2>1 DEF DeleteAnswered, Arrives, Told
  <2>3. /\ c.seen \in Nat /\ l \in Lists /\ version \in Nat
        /\ synced \in Nat /\ synced <= version /\ c.seen \in 2..version
    BY <2>2 DEF NetOK, CallOK, Intact, Told, ServerOK, TableOK, TableInv, SeenOK
  <2>4. v \in Nat /\ v <= version /\ synced <= v
    BY <2>1, <2>3
  <2>5. batches \in Tables /\ b \in Tables
    BY <2>1 DEF TableOK, Tables
  <2>6. ~Told(s, ToldKinds)'
    <3>1. PICK a : net' = [net EXCEPT ![s] = a] /\ (a = Call("leads", None, query) \/ a = Idle)
      BY <1>2 DEF DeleteAnswered
    <3>2. ~a.ok
      BY <3>1, IdleFields DEF Call, Idle
    <3>3. net'[s] = a
      BY <3>1, OneSlot
    <3>4. QED
      BY <3>2, <3>3 DEF Told
  <2>7. ASSUME OnlyDeletions(v)' PROVE Shows(b, v)'
    <3>1. /\ \A r \in Slots : Told(r, {"delete"})' => r # s /\ net'[r] = net[r] /\ Told(r, {"delete"})
          /\ version' = version /\ jobs' = jobs
      BY <2>6 DEF Still, NothingTold, Told, ToldKinds, server
    <3>2. \A r \in Slots : Told(r, {"delete"}) /\ net[r].seen = c.seen => r = s
      BY <2>2 DEF TableInv, SeenOK, Told
    <3>3. OnlyDeletions(synced)
      <4>1. SUFFICES ASSUME NEW n \in (synced + 1)..version
                     PROVE  \E r \in Slots : Told(r, {"delete"}) /\ net[r].seen = n
        BY DEF OnlyDeletions
      <4>2. CASE n = c.seen
        BY <2>2, <4>2
      <4>3. CASE n # c.seen
        <5>1. n \in (v + 1)..version'
          BY <2>1, <2>3, <3>1, <4>1, <4>3
        <5>2. QED
          BY <2>7, <3>1, <5>1 DEF OnlyDeletions
      <4>4. QED
        BY <4>2, <4>3
    <3>4. Shows(batches, synced)
      BY <3>3 DEF TableInv
    <3>5. Registry' = Registry
      BY <3>1 DEF Registry
    <3>6. ASSUME NEW k \in Lists PROVE b[k] = Registry[k] \/ (Registry[k] = None /\ Deleted(k, v)')
      <4>1. CASE k = l
        <5>1. Registry[k] = None
          BY <2>2, <2>3, <4>1 DEF TableInv, SeenOK, Registry
        <5>2. b[k] = None
          BY <2>1, <2>3, <2>5, <4>1 DEF Tables
        <5>3. QED
          BY <5>1, <5>2
      <4>2. CASE k # l
        <5>1. b[k] = batches[k]
          BY <2>1, <2>3, <2>5, <4>2 DEF Tables
        <5>2. ASSUME Deleted(k, synced) PROVE Deleted(k, v)'
          <6>1. PICK r \in Slots : Told(r, {"delete"}) /\ net[r].seen > synced /\ net[r].list = k
            BY <5>2 DEF Deleted
          <6>2. r # s /\ net[r].seen # c.seen /\ net[r].seen \in Nat /\ net[r].seen <= version
            BY <3>2, <4>2, <6>1 DEF NetOK, CallOK, TableInv, SeenOK, Told
          <6>3. net[r].seen \in (v + 1)..version'
            BY <2>1, <2>3, <3>1, <6>1, <6>2
          <6>4. PICK q \in Slots : Told(q, {"delete"})' /\ net'[q].seen = net[r].seen
            BY <2>7, <6>3 DEF OnlyDeletions
          <6>5. q = r /\ net'[r] = net[r]
            BY <3>1, <6>1, <6>4 DEF TableInv, SeenOK, Told
          <6>6. net[r].seen > v
            BY <2>4, <6>2, <6>3
          <6>7. QED
            BY <6>1, <6>4, <6>5, <6>6 DEF Deleted
        <5>3. QED
          BY <3>4, <5>1, <5>2 DEF Shows
      <4>3. QED
        BY <4>1, <4>2
    <3>7. QED
      BY <3>5, <3>6 DEF Shows
  <2>8. TableInv'
    BY <2>2, <2>4, <2>7, Shown
  <2>9. QED
    BY <2>2, <2>3, <2>4, <2>5, <2>8 DEF TableOK, Still, server
<1>3. QED
  BY <1>1, <1>2

\* Every step of the desk and of the network that leaves the table alone.
LEMMA OtherTable ==
  ASSUME NetOK, ServerOK, TableOK, TableInv, Still, UNCHANGED table
  PROVE  TableInv' /\ TableOK'
<1>1. UNCHANGED <<server, table>>
  BY DEF Still
<1>2. QED
  BY <1>1, TableStays DEF Still, TableOK, server, table

LEMMA RemountTable ==
  ASSUME NetOK, ServerOK, TableOK, TableInv, Still, Remount
  PROVE  TableInv' /\ TableOK'
<1>1. synced' = 0 /\ batches' \in Tables
  BY DEF Remount, Tables
<1>2. QED
  BY <1>1, Edited DEF TableOK, Still, server, ServerOK

-----------------------------------------------------------------------------
(* The screen, the visit and the suppression list.                          *)

LEMMA Clicked ==
  ASSUME PersonOK, NEW part, Click(part), UNCHANGED lost
  PROVE  PersonOK'
<1>1. person.left - 1 \in Nat
  BY DEF PersonOK, Click
<1>2. person' = [person EXCEPT !.left = person.left - 1]
  BY DEF Click
<1>3. QED
  BY <1>1, <1>2 DEF PersonOK

LEMMA VisitTyped ==
  ASSUME PersonOK, Next
  PROVE  PersonOK'
<1>0. UNCHANGED <<person, lost>> => PersonOK'
  BY DEF PersonOK
<1>1. ASSUME NEW s \in Slots, Serve(s) PROVE PersonOK'
  BY <1>0, <1>1 DEF Serve
<1>2. ASSUME NEW s \in Slots, Lose(s) PROVE PersonOK'
  <2>1. lost < MaxLost /\ lost' = lost + 1 /\ UNCHANGED person
    BY <1>2 DEF Lose
  <2>2. QED
    BY <2>1, BoundsAssumption DEF PersonOK
<1>3. ASSUME NEW s \in Slots, Answered(s) PROVE PersonOK'
  BY <1>0, <1>3 DEF Answered, RegistryAnswered, EditAnswered, RunAnswered, DeleteAnswered,
     RowsAnswered, RegisterAnswered, LeadAdded, UploadAnswered, MappingAnswered, CommitAnswered
<1>4. ASSUME NEW l \in Lists, ToggleRun(l) \/ DeleteList(l) PROVE PersonOK'
  BY <1>4, Clicked DEF ToggleRun, DeleteList
<1>5. ASSUME NEW l \in Lists, SelectList(l) PROVE PersonOK'
  <2>1. UNCHANGED lost /\ (UNCHANGED person \/ Click("rows"))
    BY <1>5 DEF SelectList
  <2>2. QED
    BY <1>0, <2>1, Clicked
<1>6. ASSUME NEW l \in Lists, NEW value \in BOOLEAN, EditRow(l, value) PROVE PersonOK'
  BY <1>6, Clicked DEF EditRow
<1>7. CASE ClearSelected
  <2>1. UNCHANGED lost /\ (UNCHANGED person \/ Click("rows"))
    BY <1>7 DEF ClearSelected
  <2>2. QED
    BY <1>0, <2>1, Clicked
<1>8. CASE Narrow \/ AddLead \/ ValidateMapping \/ StartImport
  BY <1>8, Clicked DEF Narrow, AddLead, ValidateMapping, StartImport
<1>9. CASE ImportFile \/ ImportDemo
  BY <1>9, Clicked DEF ImportFile, ImportDemo
<1>10. CASE OpenWizard \/ StepBack \/ LeaveWizard \/ DeleteFolder
  BY <1>0, <1>10 DEF OpenWizard, StepBack, LeaveWizard, DeleteFolder
<1>11. ASSUME NEW f \in Files, UploadFile(f) PROVE PersonOK'
  BY <1>11, Clicked DEF UploadFile
<1>12. ASSUME NEW i, NEW t, EditMapping(i, t) PROVE PersonOK'
  BY <1>0, <1>12 DEF EditMapping
<1>13. CASE Remount
  BY <1>13, Clicked DEF Remount
<1>14. QED
  BY <1>1, <1>2, <1>3, <1>4, <1>5, <1>6, <1>7, <1>8, <1>9, <1>10, <1>11, <1>12, <1>13 DEF Next

LEMMA ScreenTyped ==
  ASSUME ScreenOK, NetOK, Next
  PROVE  ScreenOK'
<1> USE DEF ScreenOK
<1>0. UNCHANGED <<view, selected, busyRun, query, rows>> => ScreenOK'
  OBVIOUS
<1>1. ASSUME NEW s \in Slots, Serve(s) \/ Lose(s) PROVE ScreenOK'
  BY <1>0, <1>1 DEF Serve, Lose
<1>2. ASSUME NEW s \in Slots, RegistryAnswered(s) PROVE ScreenOK'
  <2>1. net[s].list \in Lists \cup {None}
    BY DEF NetOK, CallOK
  <2>2. QED
    BY <1>2, <2>1 DEF RegistryAnswered
<1>3. ASSUME NEW s \in Slots, RunAnswered(s) PROVE ScreenOK'
  BY <1>3 DEF RunAnswered
<1>4. ASSUME NEW s \in Slots, DeleteAnswered(s) PROVE ScreenOK'
  BY <1>4 DEF DeleteAnswered
<1>5. ASSUME NEW s \in Slots, RowsAnswered(s) PROVE ScreenOK'
  <2>1. net[s].ok => net[s].got \subseteq Lists
    BY <1>5 DEF RowsAnswered, Arrives, NetOK, CallOK
  <2>2. QED
    BY <1>5, <2>1 DEF RowsAnswered
<1>6. ASSUME NEW s \in Slots,
             \/ EditAnswered(s) \/ RegisterAnswered(s) \/ LeadAdded(s)
             \/ UploadAnswered(s) \/ MappingAnswered(s) \/ CommitAnswered(s)
      PROVE  ScreenOK'
  BY <1>0, <1>6 DEF EditAnswered, RegisterAnswered, LeadAdded, UploadAnswered, MappingAnswered,
     CommitAnswered
<1>7. ASSUME NEW l \in Lists, NEW value \in BOOLEAN,
             ToggleRun(l) \/ DeleteList(l) \/ EditRow(l, value)
      PROVE  ScreenOK'
  BY <1>7 DEF ToggleRun, DeleteList, EditRow
<1>8. ASSUME NEW l \in Lists, SelectList(l) PROVE ScreenOK'
  <2>1. query' \in Queries
    BY <1>8 DEF SelectList, Queries
  <2>2. QED
    BY <1>8, <2>1 DEF SelectList
<1>9. CASE ClearSelected
  BY <1>9 DEF ClearSelected
<1>10. CASE Narrow
  <2>1. query.page \in 1..2 /\ query.narrow \in BOOLEAN /\ query \in Queries
    BY DEF Queries
  <2>2. 3 - query.page \in 1..2
    BY <2>1
  <2>3. [query EXCEPT !.page = 3 - @] \in Queries
    BY <2>1, <2>2 DEF Queries
  <2>4. [page |-> 1, narrow |-> ~query.narrow] \in Queries
    BY DEF Queries
  <2>5. QED
    BY <1>10, <2>3, <2>4 DEF Narrow
<1>11. CASE AddLead \/ ValidateMapping \/ StartImport \/ StepBack \/ ImportFile \/ ImportDemo
            \/ DeleteFolder
  BY <1>0, <1>11 DEF AddLead, ValidateMapping, StartImport, StepBack, ImportFile, ImportDemo,
     DeleteFolder
<1>12. CASE OpenWizard \/ LeaveWizard
  BY <1>12 DEF OpenWizard, LeaveWizard
<1>13. ASSUME NEW f, NEW i, NEW t, UploadFile(f) \/ EditMapping(i, t) PROVE ScreenOK'
  BY <1>0, <1>13 DEF UploadFile, EditMapping
<1>14. CASE Remount
  <2>1. [page |-> 1, narrow |-> FALSE] \in Queries
    BY DEF Queries
  <2>2. QED
    BY <1>14, <2>1 DEF Remount
<1>15. QED
  BY <1>1, <1>2, <1>3, <1>4, <1>5, <1>6, <1>7, <1>8, <1>9, <1>10, <1>11, <1>12, <1>13, <1>14
     DEF Next, Answered

LEMMA EntryTyped ==
  /\ FileKeys \subseteq Keys /\ Register \subseteq Keys
  /\ \A k \in Keys : \A by \in {"file", "auto", "other"} : [key |-> k, by |-> by] \in Entries
<1>1. FileKeys \subseteq Keys /\ Register \subseteq Keys
  BY DEF Keys
<1>2. QED
  BY <1>1 DEF Entries

\* The suppression list: its types, and what a file brought in.
LEMMA SuppressionKept ==
  ASSUME DncOK, ScreenOK, NetOK, ImportedKept, Next
  PROVE  DncOK' /\ ImportedKept'
<1> DEFINE Goal == DncOK' /\ ImportedKept'
<1>0. UNCHANGED <<dnc, kept, folder, imported>> => Goal
  BY DEF DncOK, ImportedKept
<1>1. \A r \in SUBSET Lists : Extract(r) /\ UNCHANGED <<folder, imported>> => Goal
  BY Extracted
<1>2. rows \in SUBSET Lists /\ {} \in SUBSET Lists
  BY DEF ScreenOK
<1>3. ASSUME NEW s \in Slots, Serve(s) \/ Lose(s) PROVE Goal
  BY <1>0, <1>3 DEF Serve, Lose, suppression
<1>4. ASSUME NEW s \in Slots, RegistryAnswered(s) PROVE Goal
  BY <1>0, <1>1, <1>2, <1>4 DEF RegistryAnswered, Retable
<1>5. ASSUME NEW s \in Slots, RunAnswered(s) PROVE Goal
  BY <1>0, <1>1, <1>2, <1>5 DEF RunAnswered, Retable
<1>6. ASSUME NEW s \in Slots, DeleteAnswered(s) PROVE Goal
  <2>1. UNCHANGED <<dnc, kept, folder, imported>> \/ \E r \in SUBSET Lists :
          Extract(r) /\ UNCHANGED <<folder, imported>>
    BY <1>2, <1>6 DEF DeleteAnswered
  <2>2. QED
    BY <1>0, <1>1, <2>1
<1>7. ASSUME NEW s \in Slots, RowsAnswered(s) PROVE Goal
  <2>1. net[s].ok => net[s].got \in SUBSET Lists
    BY <1>7 DEF RowsAnswered, Arrives, NetOK, CallOK
  <2>2. QED
    BY <1>0, <1>1, <1>7, <2>1 DEF RowsAnswered
<1>8. ASSUME NEW s \in Slots, LeadAdded(s) PROVE Goal
  BY <1>0, <1>1, <1>2, <1>8 DEF LeadAdded
<1>9. ASSUME NEW s \in Slots, RegisterAnswered(s) PROVE Goal
  <2>1. {[key |-> k, by |-> "other"] : k \in Register \ KeysOf(dnc)} \subseteq Entries
    BY EntryTyped
  <2>2. dnc \subseteq dnc' /\ dnc' \subseteq Entries /\ UNCHANGED <<kept, folder, imported>>
    BY <1>9, <2>1 DEF RegisterAnswered, DncOK
  <2>3. QED
    BY <2>2 DEF DncOK, ImportedKept
<1>10. ASSUME NEW s \in Slots,
              EditAnswered(s) \/ UploadAnswered(s) \/ MappingAnswered(s) \/ CommitAnswered(s)
       PROVE  Goal
  BY <1>0, <1>10 DEF EditAnswered, UploadAnswered, MappingAnswered, CommitAnswered, suppression
<1>11. ASSUME NEW l \in Lists, ToggleRun(l) \/ DeleteList(l) \/ SelectList(l) PROVE Goal
  BY <1>0, <1>11 DEF ToggleRun, DeleteList, SelectList, suppression
<1>12. ASSUME NEW l \in Lists, NEW value \in BOOLEAN, EditRow(l, value) PROVE Goal
  BY <1>1, <1>2, <1>12 DEF EditRow, Retable
<1>13. CASE ClearSelected
  BY <1>1, <1>2, <1>13 DEF ClearSelected
<1>14. CASE Narrow \/ AddLead \/ OpenWizard \/ ValidateMapping \/ StartImport \/ StepBack
            \/ LeaveWizard
  BY <1>0, <1>14 DEF Narrow, AddLead, OpenWizard, ValidateMapping, StartImport, StepBack,
     LeaveWizard, suppression
<1>15. ASSUME NEW f, NEW i, NEW t, UploadFile(f) \/ EditMapping(i, t) PROVE Goal
  BY <1>0, <1>15 DEF UploadFile, EditMapping, suppression
<1>16. CASE ImportFile
  <2>1. PICK new : new = FileKeys \ KeysOf(dnc)
    OBVIOUS
  <2>2. PICK es : es = {[key |-> k, by |-> "file"] : k \in new}
    OBVIOUS
  <2>3. es \subseteq Entries /\ new \subseteq Keys
    BY <2>1, <2>2, EntryTyped
  <2>4. dnc' = dnc \cup es /\ kept' = dnc' /\ folder' = TRUE /\ imported' = imported \cup new
    BY <1>16, <2>1, <2>2 DEF ImportFile
  <2>5. DncOK'
    BY <2>3, <2>4 DEF DncOK
  <2>6. ASSUME NEW k \in imported' PROVE [key |-> k, by |-> "file"] \in dnc'
    <3>1. CASE k \in imported
      BY <2>4, <3>1 DEF ImportedKept
    <3>2. CASE k \in new
      BY <2>2, <2>4, <3>2
    <3>3. QED
      BY <2>4, <3>1, <3>2
  <2>7. QED
    BY <2>4, <2>5, <2>6 DEF ImportedKept
<1>17. CASE ImportDemo
  <2>1. PICK k \in FileKeys : dnc' = dnc \cup {[key |-> k, by |-> "other"]}
    BY <1>17 DEF ImportDemo
  <2>2. [key |-> k, by |-> "other"] \in Entries
    BY EntryTyped
  <2>3. folder' = TRUE /\ UNCHANGED <<kept, imported>>
    BY <1>17 DEF ImportDemo
  <2>4. QED
    BY <2>1, <2>2, <2>3 DEF DncOK, ImportedKept
<1>18. CASE DeleteFolder
  BY <1>18 DEF DeleteFolder, DncOK, ImportedKept
<1>19. CASE Remount
  <2>1. PICK files : files = {e \in kept : e.by = "file"}
    OBVIOUS
  <2>2. dnc' = files /\ kept' = files /\ UNCHANGED <<folder, imported>>
    BY <1>19, <2>1 DEF Remount
  <2>3. ASSUME NEW k \in imported PROVE [key |-> k, by |-> "file"] \in files
    BY <2>1 DEF ImportedKept
  <2>4. files \subseteq Entries
    BY <2>1 DEF DncOK
  <2>5. QED
    BY <2>2, <2>3, <2>4 DEF DncOK, ImportedKept
<1>20. QED
  BY <1>3, <1>4, <1>5, <1>6, <1>7, <1>8, <1>9, <1>10, <1>11, <1>12, <1>13, <1>14, <1>15, <1>16,
     <1>17, <1>18, <1>19
     DEF Next, Answered

-----------------------------------------------------------------------------
(* The wizard.                                                              *)

LEMMA GuessTyped == ASSUME NEW f \in Files PROVE GuessColumnMapping(f) \in Mappings
<1>1. GuessColumnMapping(f) \in [1..Len(f) -> Targets]
  BY DEF GuessColumnMapping, Targets
<1>2. QED
  BY <1>1 DEF Mappings

LEMMA EditTyped ==
  ASSUME NEW map \in Mappings, NEW i \in DOMAIN map, NEW t \in EditTo
  PROVE  [map EXCEPT ![i] = t] \in Mappings
<1>1. map # NoMap
  BY DEF NoMap
<1>2. PICK f \in Files : map \in [1..Len(f) -> Targets]
  BY <1>1 DEF Mappings
<1>3. [map EXCEPT ![i] = t] \in [1..Len(f) -> Targets]
  BY <1>2, TargetsAssumption
<1>4. QED
  BY <1>3 DEF Mappings

LEMMA NoWizardTyped == NoWizard \in WizardRows
BY DEF NoWizard, WizardRows, Mappings

LEMMA StepTyped == ASSUME NEW w \in WizardRows, NEW n \in 1..3 PROVE [w EXCEPT !.step = n] \in WizardRows
BY DEF WizardRows

LEMMA WizardTyped ==
  ASSUME WizardOK, NetOK, Next
  PROVE  WizardOK'
<1> USE DEF WizardOK
<1>0. UNCHANGED <<wizard, crossed, meddled>> => WizardOK'
  OBVIOUS
<1>a. wizard \in WizardRows
  OBVIOUS
<1>1. ASSUME NEW s \in Slots, Serve(s) \/ Lose(s) PROVE WizardOK'
  BY <1>0, <1>1 DEF Serve, Lose, import
<1>2. ASSUME NEW s \in Slots, RegistryAnswered(s) PROVE WizardOK'
  BY <1>2 DEF RegistryAnswered, WizardRows
<1>3. ASSUME NEW s \in Slots,
             \/ EditAnswered(s) \/ RunAnswered(s) \/ DeleteAnswered(s)
             \/ RowsAnswered(s) \/ RegisterAnswered(s) \/ LeadAdded(s)
      PROVE  WizardOK'
  BY <1>0, <1>3 DEF EditAnswered, RunAnswered, DeleteAnswered, RowsAnswered, RegisterAnswered,
     LeadAdded, import
<1>4. ASSUME NEW s \in Slots, UploadAnswered(s) PROVE WizardOK'
  <2>1. net[s].ok => net[s].got \in Lists /\ net[s].arg \in Files
    BY <1>4 DEF UploadAnswered, Arrives, NetOK, CallOK, Intact
  <2>2. PICK map : map = GuessColumnMapping(net[s].arg)
    OBVIOUS
  <2>3. net[s].ok => map \in Mappings
    BY <2>1, <2>2, GuessTyped
  <2>4. net[s].ok => [wizard EXCEPT !.job = net[s].got, !.map = map, !.step = 2, !.busy = None]
                        \in WizardRows
    <3>1. SUFFICES ASSUME net[s].ok
                   PROVE  [wizard EXCEPT !.job = net[s].got, !.map = map, !.step = 2,
                                         !.busy = None] \in WizardRows
      OBVIOUS
    <3>2. PICK w : w = [wizard EXCEPT !.job = net[s].got, !.map = map]
      OBVIOUS
    <3>3. w \in WizardRows
      BY <2>1, <2>3, <3>1, <3>2 DEF WizardRows
    <3>4. PICK u : u = [w EXCEPT !.step = 2]
      OBVIOUS
    <3>5. u \in WizardRows
      <4>1. 2 \in 1..3
        OBVIOUS
      <4>2. QED
        BY <3>3, <3>4, <4>1, StepTyped, Zenon
    <3>6. [u EXCEPT !.busy = None] \in WizardRows
      BY <3>5 DEF WizardRows
    <3>7. QED
      BY <3>2, <3>4, <3>6
  <2>5. [wizard EXCEPT !.error = TRUE, !.busy = None] \in WizardRows
    BY DEF WizardRows
  <2>6. QED
    BY <1>4, <2>2, <2>4, <2>5 DEF UploadAnswered
<1>5. ASSUME NEW s \in Slots, MappingAnswered(s) PROVE WizardOK'
  <2>1. net[s].ok => net[s].list \in Lists /\ net[s].arg \in Mappings
    BY <1>5 DEF MappingAnswered, Arrives, NetOK, CallOK, Intact
  <2>2. net[s].ok => [wizard EXCEPT !.checked = [job |-> net[s].list, map |-> net[s].arg],
                                    !.busy = None] \in WizardRows
    BY <2>1 DEF WizardRows
  <2>3. [wizard EXCEPT !.error = TRUE, !.busy = None] \in WizardRows
    BY DEF WizardRows
  <2>4. QED
    BY <1>5, <2>2, <2>3 DEF MappingAnswered
<1>6. ASSUME NEW s \in Slots, CommitAnswered(s) PROVE WizardOK'
  <2>1. net[s].ok => net[s].list \in Lists
    BY <1>6 DEF CommitAnswered, Arrives, NetOK, CallOK, Intact
  <2>2. net[s].ok => [wizard EXCEPT !.result = net[s].list] \in WizardRows
    BY <2>1 DEF WizardRows
  <2>3. [wizard EXCEPT !.error = TRUE, !.busy = None] \in WizardRows
    BY DEF WizardRows
  <2>4. QED
    BY <1>6, <2>2, <2>3 DEF CommitAnswered
<1>7. ASSUME NEW l \in Lists, NEW value \in BOOLEAN,
             ToggleRun(l) \/ DeleteList(l) \/ SelectList(l) \/ EditRow(l, value)
      PROVE  WizardOK'
  BY <1>0, <1>7 DEF ToggleRun, DeleteList, SelectList, EditRow, import
<1>8. CASE ClearSelected \/ Narrow \/ AddLead \/ LeaveWizard \/ ImportFile \/ ImportDemo
           \/ DeleteFolder
  BY <1>0, <1>8 DEF ClearSelected, Narrow, AddLead, LeaveWizard, ImportFile, ImportDemo,
     DeleteFolder, import
<1>9. CASE OpenWizard
  <2>1. [NoWizard EXCEPT !.busy = wizard.busy] \in WizardRows
    BY NoWizardTyped DEF WizardRows
  <2>2. crossed' \in BOOLEAN /\ UNCHANGED meddled
    BY <1>9 DEF OpenWizard
  <2>3. QED
    BY <1>9, <2>1, <2>2 DEF OpenWizard
<1>10. CASE ValidateMapping
  <2>1. [wizard EXCEPT !.error = FALSE, !.busy = "mapping"] \in WizardRows
    BY DEF WizardRows
  <2>2. QED
    BY <1>10, <2>1 DEF ValidateMapping
<1>11. CASE StartImport
  <2>1. [wizard EXCEPT !.error = FALSE, !.step = 3, !.busy = "commit"] \in WizardRows
    <3>1. PICK w, u : w = [wizard EXCEPT !.error = FALSE] /\ u = [w EXCEPT !.step = 3]
      OBVIOUS
    <3>2. w \in WizardRows
      BY <3>1 DEF WizardRows
    <3>3. u \in WizardRows
      <4>1. 3 \in 1..3
        OBVIOUS
      <4>2. QED
        BY <3>1, <3>2, <4>1, StepTyped, Zenon
    <3>4. [u EXCEPT !.busy = "commit"] \in WizardRows
      BY <3>3 DEF WizardRows
    <3>5. QED
      BY <3>1, <3>4
  <2>2. QED
    BY <1>11, <2>1 DEF StartImport
<1>12. CASE StepBack
  <2>1. wizard.step - 1 \in 1..3
    BY <1>12 DEF StepBack, BackOffered, FailureShown
  <2>2. [wizard EXCEPT !.step = wizard.step - 1] \in WizardRows
    BY <2>1 DEF WizardRows
  <2>3. QED
    BY <1>12, <2>2 DEF StepBack
<1>13. ASSUME NEW f \in Files, UploadFile(f) PROVE WizardOK'
  <2>1. [wizard EXCEPT !.error = FALSE, !.checked = None, !.result = None, !.busy = "upload"]
          \in WizardRows
    BY DEF WizardRows
  <2>2. QED
    BY <1>13, <2>1 DEF UploadFile
<1>14. ASSUME NEW i, NEW t \in EditTo, EditMapping(i, t) PROVE WizardOK'
  <2>1. PICK map : map = [wizard.map EXCEPT ![i] = t]
    OBVIOUS
  <2>2. wizard.map \in Mappings /\ i \in DOMAIN wizard.map
    BY <1>14 DEF EditMapping, MappingOffered, WizardRows
  <2>3. map \in Mappings
    BY <2>1, <2>2, EditTyped
  <2>4. wizard' = [wizard EXCEPT !.map = map, !.checked = None]
    BY <1>14, <2>1 DEF EditMapping
  <2>5. wizard' \in WizardRows
    BY <2>3, <2>4 DEF WizardRows
  <2>6. meddled' \in BOOLEAN /\ UNCHANGED crossed
    BY <1>14 DEF EditMapping
  <2>7. QED
    BY <2>5, <2>6
<1>15. CASE Remount
  BY <1>15, NoWizardTyped DEF Remount
<1>16. QED
  BY <1>1, <1>2, <1>3, <1>4, <1>5, <1>6, <1>7, <1>8, <1>9, <1>10, <1>11, <1>12, <1>13, <1>14, <1>15
     DEF Next, Answered

\* The wizard's own calls through the server's work and the network's failures.
LEMMA AnswerOwn ==
  ASSUME NEW c, CallOK(c), c.kind # "idle", NEW ok \in BOOLEAN, NEW got, NEW v,
         NEW a, a = Answer(c, ok, got, v)
  PROVE  /\ IsOwn(a) <=> IsOwn(c)
         /\ IsOwn(a) => /\ a.kind = c.kind /\ a.ok = ok
                        /\ c.kind = "registry" => a.list = c.list
                        /\ Intact(a) => ok /\ a.list = c.list
                                        /\ (c.kind = "mapping" => a.arg = c.arg)
<1>1. CASE c.dead
  BY <1>1, IdleFields DEF Answer, IsOwn, WizardCalls
<1>2. CASE ~c.dead
  <2>1. /\ a.kind = c.kind /\ a.phase = "served" /\ a.ok = ok /\ ~a.dead
        /\ ok \/ c.kind \in {"leads", "registry"} => a.list = c.list
        /\ ok /\ c.kind \in {"upload", "mapping", "run", "delete"} => a.arg = c.arg
    BY <1>2 DEF Answer, Idle
  <2>2. QED
    BY <1>2, <2>1 DEF IsOwn, Intact
<1>3. QED
  BY <1>1, <1>2

\* A step that leaves the wizard alone, and its own calls about what they were.
LEMMA WizardStays ==
  ASSUME NetOK, WizardOK, WizardInv, Keeps, UNCHANGED <<wizard, crossed, meddled>>,
         \A r \in Slots :
            /\ Own(r)' <=> Own(r)
            /\ Own(r)' => /\ net'[r].kind = net[r].kind
                          /\ net[r].kind = "registry" => net'[r].list = net[r].list
                          /\ Intact(net'[r]) => /\ Intact(net[r]) /\ net'[r].list = net[r].list
                                                /\ net[r].kind = "mapping" => net'[r].arg = net[r].arg
                          /\ net[r].kind = "commit" /\ net'[r].ok =>
                                net'[r].list \in Lists /\ jobs'[net'[r].list].at \in {"done", "gone"}
  PROVE  WizardInv'
<1> SUFFICES ASSUME ~crossed' PROVE WizardInv'
  BY DEF WizardInv
<1>0. ~crossed
  OBVIOUS
<1>1. \A s, r \in Slots : Own(s)' /\ Own(r)' => s = r
  BY <1>0 DEF WizardInv
<1>2. ASSUME NEW s \in Slots, Own(s)' PROVE OwnCall(net[s])'
  <2>1. OwnCall(net[s])
    BY <1>0, <1>2 DEF WizardInv
  <2>2. PICK c, d : c = net[s] /\ d = net'[s]
    OBVIOUS
  <2>3. /\ d.kind = c.kind /\ (c.kind = "registry" => d.list = c.list)
        /\ Intact(d) => Intact(c) /\ d.list = c.list /\ (c.kind = "mapping" => d.arg = c.arg)
        /\ c.kind = "commit" /\ d.ok => d.list \in Lists /\ jobs'[d.list].at \in {"done", "gone"}
    BY <1>2, <2>2
  <2>4. OwnCall(c)
    BY <2>1, <2>2
  <2>5. OwnCall(d)'
    BY <2>3, <2>4 DEF OwnCall, Imported
  <2>6. QED
    BY <2>2, <2>5 DEF OwnCall, Imported, Intact
<1>3. wizard'.busy # None => \E s \in Slots : Own(s)'
  BY <1>0 DEF WizardInv
<1>4. wizard.result # None => wizard.result = wizard.job /\ Imported(wizard.job)
  BY <1>0 DEF WizardInv
<1>5. wizard'.result # None => wizard'.result = wizard'.job /\ Imported(wizard.job)'
  BY <1>4 DEF Keeps, Imported
<1>6. wizard'.checked # None /\ ~meddled' => wizard'.checked = [job |-> wizard'.job, map |-> wizard'.map]
  BY <1>0 DEF WizardInv
<1>7. QED
  BY <1>1, <1>2, <1>3, <1>5, <1>6 DEF WizardInv

LEMMA ServeWizard ==
  ASSUME NetOK, ServerOK, WizardOK, WizardInv, NEW s \in Slots, Serve(s)
  PROVE  WizardInv'
<1> SUFFICES ASSUME ~crossed' PROVE WizardInv'
  BY DEF WizardInv
<1>0. net[s].phase = "sent" /\ net[s].kind # "idle" /\ CallOK(net[s]) /\ Intact(net[s])
      /\ UNCHANGED <<wizard, crossed, meddled>>
  BY DEF Serve, NetOK, CallOK, Intact, import
<1>1. PICK ok \in BOOLEAN, v \in Nat : \E got : Taken(s, ok, got, v) /\ Work(net[s], ok, got, v)
  BY ServeWorks
<1>2. PICK got : Taken(s, ok, got, v) /\ Work(net[s], ok, got, v)
  BY <1>1
<1>3. Keeps /\ (ok /\ net[s].kind = "commit" => jobs'[net[s].list].at \in {"done", "gone"})
  BY <1>2 DEF Work
<1>4. PICK c, a : c = net[s] /\ a = Answer(c, ok, got, v)
  OBVIOUS
<1>5. net'[s] = a /\ \A r \in Slots \ {s} : net'[r] = net[r]
  BY <1>2, <1>4, OneSlot DEF Taken
<1>6. /\ IsOwn(a) <=> IsOwn(c)
      /\ IsOwn(a) => /\ a.kind = c.kind /\ a.ok = ok
                     /\ c.kind = "registry" => a.list = c.list
                     /\ Intact(a) => ok /\ a.list = c.list
                                     /\ (c.kind = "mapping" => a.arg = c.arg)
  BY <1>0, <1>4, AnswerOwn
<1>7. c.kind = "commit" => c.list \in Lists
  BY <1>0, <1>4 DEF CallOK
<1>8. IsOwn(a) /\ c.kind = "commit" /\ a.ok => a.list \in Lists /\ jobs'[a.list].at \in {"done", "gone"}
  BY <1>3, <1>4, <1>6, <1>7 DEF Intact
<1>9. ASSUME NEW r \in Slots, r # s, Own(r)', net'[r].kind = "commit", net'[r].ok
      PROVE  net'[r].list \in Lists /\ jobs'[net'[r].list].at \in {"done", "gone"}
  <2>1. net'[r] = net[r] /\ Imported(net[r].list)
    BY <1>0, <1>5, <1>9 DEF Own, WizardInv, OwnCall
  <2>2. QED
    BY <1>3, <1>5, <1>9, <2>1 DEF Keeps, Imported
<1>10. QED
  BY <1>0, <1>3, <1>4, <1>5, <1>6, <1>8, <1>9, WizardStays DEF Own

LEMMA LoseWizard ==
  ASSUME NetOK, WizardOK, WizardInv, NEW s \in Slots, Lose(s)
  PROVE  WizardInv'
<1> SUFFICES ASSUME ~crossed' PROVE WizardInv'
  BY DEF WizardInv
<1>0. net[s].kind # "idle" /\ CallOK(net[s]) /\ UNCHANGED <<wizard, crossed, meddled, server>>
  BY DEF Lose, NetOK, CallOK, import
<1>1. Keeps
  BY <1>0 DEF Keeps, Imported, server
<1>2. PICK c, a : c = net[s] /\ a = Answer(c, FALSE, None, 0)
  OBVIOUS
<1>3. net'[s] = a /\ \A r \in Slots \ {s} : net'[r] = net[r]
  BY <1>2, OneSlot DEF Lose
<1>4. /\ IsOwn(a) <=> IsOwn(c)
      /\ IsOwn(a) => /\ a.kind = c.kind /\ a.ok = FALSE
                     /\ c.kind = "registry" => a.list = c.list
                     /\ ~Intact(a)
  <2>1. CASE c.dead
    BY <1>2, <2>1, IdleFields DEF Answer, IsOwn, WizardCalls
  <2>2. CASE ~c.dead
    <3>1. /\ a.kind = c.kind /\ a.phase = "served" /\ a.ok = FALSE /\ ~a.ok /\ ~a.dead
          /\ c.kind \in {"leads", "registry"} => a.list = c.list
      BY <1>2, <2>2 DEF Answer, Idle
    <3>2. QED
      BY <2>2, <3>1 DEF IsOwn, Intact
  <2>3. QED
    BY <2>1, <2>2
<1>5. ASSUME NEW r \in Slots, r # s, Own(r)', net'[r].kind = "commit", net'[r].ok
      PROVE  net'[r].list \in Lists /\ jobs'[net'[r].list].at \in {"done", "gone"}
  <2>1. net'[r] = net[r] /\ Imported(net[r].list)
    BY <1>0, <1>3, <1>5 DEF Own, WizardInv, OwnCall
  <2>2. QED
    BY <1>1, <1>3, <1>5, <2>1 DEF Keeps, Imported
<1>6. QED
  BY <1>0, <1>1, <1>2, <1>3, <1>4, <1>5, WizardStays DEF Own

\* A step about calls that are not the wizard's.
LEMMA OthersWizard ==
  ASSUME NetOK, WizardOK, WizardInv, UNCHANGED <<wizard, crossed, meddled, server>>,
         \A r \in Slots : net'[r] = net[r] \/ (~Own(r) /\ ~Own(r)')
  PROVE  WizardInv'
<1> SUFFICES ASSUME ~crossed' PROVE WizardInv'
  BY DEF WizardInv
<1>1. Keeps
  BY DEF Keeps, Imported, server
<1>2. ASSUME NEW r \in Slots, Own(r)', net'[r].kind = "commit", net'[r].ok
      PROVE  net'[r].list \in Lists /\ jobs'[net'[r].list].at \in {"done", "gone"}
  <2>1. net'[r] = net[r] /\ Imported(net[r].list)
    BY <1>2 DEF Own, WizardInv, OwnCall
  <2>2. QED
    BY <1>1, <1>2, <2>1 DEF Keeps, Imported
<1>3. QED
  BY <1>1, <1>2, WizardStays DEF Own

\* One slot turns from a call that is not the wizard's to another.
LEMMA ReplacedWizard ==
  ASSUME NetOK, WizardOK, WizardInv, UNCHANGED <<wizard, crossed, meddled, server>>,
         NEW s \in Slots, NEW c, net' = [net EXCEPT ![s] = c], ~Own(s), ~IsOwn(c)
  PROVE  WizardInv'
<1>1. net'[s] = c /\ \A r \in Slots \ {s} : net'[r] = net[r]
  BY OneSlot
<1>2. QED
  BY <1>1, OthersWizard DEF Own

LEMMA NotOwn ==
  /\ ~IsOwn(Idle)
  /\ \A kind, l, a : kind \notin WizardCalls /\ (kind = "registry" => l = None)
                        => ~IsOwn(Call(kind, l, a))
<1>1. ~IsOwn(Idle)
  BY IdleFields DEF IsOwn, WizardCalls
<1>2. ASSUME NEW kind, NEW l, NEW a, kind \notin WizardCalls, kind = "registry" => l = None
      PROVE  ~IsOwn(Call(kind, l, a))
  BY <1>2 DEF IsOwn, Call, Idle
<1>3. QED
  BY <1>1, <1>2

\* The steps of the table, the rows and the suppression list.
LEMMA DeskWizard ==
  ASSUME NetOK, WizardOK, ScreenOK, WizardInv,
         \/ \E s \in Slots : \/ EditAnswered(s) \/ RunAnswered(s) \/ DeleteAnswered(s)
                             \/ RowsAnswered(s) \/ RegisterAnswered(s) \/ LeadAdded(s)
         \/ \E l \in Lists : \/ ToggleRun(l) \/ DeleteList(l) \/ SelectList(l)
                             \/ \E value \in BOOLEAN : EditRow(l, value)
         \/ ClearSelected \/ Narrow \/ AddLead
         \/ LeaveWizard \/ ImportFile \/ ImportDemo \/ DeleteFolder
  PROVE  WizardInv'
<1>1. ASSUME NEW s \in Slots, NEW c, net' = [net EXCEPT ![s] = c], ~IsOwn(c),
             Arrives(s, {"edit", "run", "delete", "leads", "register", "add"}),
             UNCHANGED <<wizard, crossed, meddled, server>>
      PROVE  WizardInv'
  <2>1. ~Own(s)
    BY <1>1 DEF Own, IsOwn, Arrives, WizardCalls
  <2>2. QED
    BY <1>1, <2>1, ReplacedWizard
<1>2. ASSUME NEW kind, NEW l, NEW a, Start(Call(kind, l, a)), kind \notin WizardCalls,
             kind # "registry", UNCHANGED <<wizard, crossed, meddled, server>>
      PROVE  WizardInv'
  <2>1. PICK s \in Slots : net[s].kind = "idle" /\ net' = [net EXCEPT ![s] = Call(kind, l, a)]
    BY <1>2, Started
  <2>2. ~Own(s)
    BY <2>1 DEF Own, IsOwn, WizardCalls
  <2>3. PICK c : c = Call(kind, l, a)
    OBVIOUS
  <2>4. ~IsOwn(c)
    BY <1>2, <2>3, NotOwn
  <2>5. QED
    BY <1>2, <2>1, <2>2, <2>3, <2>4, ReplacedWizard
<1>3. UNCHANGED <<wizard, crossed, meddled, server, net>> => WizardInv'
  BY OthersWizard
<1>4. ASSUME NEW s \in Slots, EditAnswered(s) PROVE WizardInv'
  <2>1. PICK c : c = Call("registry", None, None)
    OBVIOUS
  <2>2. ~IsOwn(c)
    BY <2>1, NotOwn DEF WizardCalls
  <2>3. QED
    BY <1>1, <1>4, <2>1, <2>2 DEF EditAnswered, Arrives, import
<1>5. ASSUME NEW s \in Slots, RunAnswered(s) \/ DeleteAnswered(s) PROVE WizardInv'
  <2>1. PICK c : net' = [net EXCEPT ![s] = c] /\ (c = Idle \/ \E l : c = Call("leads", l, query))
    BY <1>5 DEF RunAnswered, DeleteAnswered
  <2>2. ~IsOwn(c)
    BY <2>1, NotOwn DEF WizardCalls
  <2>3. QED
    BY <1>1, <1>5, <2>1, <2>2 DEF RunAnswered, DeleteAnswered, Arrives, import
<1>6. ASSUME NEW s \in Slots, RowsAnswered(s) PROVE WizardInv'
  <2>1. PICK c : c = [Call("register", None, None) EXCEPT !.phase = "served", !.ok = TRUE]
    OBVIOUS
  <2>2. ~IsOwn(c)
    BY <2>1 DEF Call, Idle, IsOwn, WizardCalls
  <2>3. QED
    BY <1>1, <1>6, <2>1, <2>2 DEF RowsAnswered, Arrives, import
<1>7. ASSUME NEW s \in Slots, RegisterAnswered(s) \/ LeadAdded(s) PROVE WizardInv'
  <2>1. PICK c : c = Idle
    OBVIOUS
  <2>2. ~IsOwn(c)
    BY <2>1, NotOwn
  <2>3. QED
    BY <1>1, <1>7, <2>1, <2>2 DEF RegisterAnswered, LeadAdded, Done, Arrives, import
<1>8. ASSUME NEW l \in Lists, ToggleRun(l) PROVE WizardInv'
  <2>1. PICK a : Start(Call("run", l, a))
    BY <1>8 DEF ToggleRun
  <2>2. QED
    BY <1>2, <1>8, <2>1 DEF ToggleRun, import, WizardCalls
<1>9. ASSUME NEW l \in Lists, DeleteList(l) PROVE WizardInv'
  <2>1. PICK a : Start(Call("delete", l, a))
    BY <1>9 DEF DeleteList
  <2>2. QED
    BY <1>2, <1>9, <2>1 DEF DeleteList, import, WizardCalls
<1>10. ASSUME NEW l \in Lists, SelectList(l) PROVE WizardInv'
  <2>1. UNCHANGED net \/ Start(Call("leads", l, query'))
    BY <1>10 DEF SelectList, LoadRows
  <2>2. QED
    BY <1>2, <1>3, <1>10, <2>1 DEF SelectList, import, WizardCalls
<1>11. ASSUME NEW l \in Lists, NEW value \in BOOLEAN, EditRow(l, value) PROVE WizardInv'
  BY <1>2, <1>11 DEF EditRow, import, WizardCalls
<1>12. CASE ClearSelected
  <2>1. UNCHANGED net \/ Start(Call("leads", None, query))
    BY <1>12 DEF ClearSelected, LoadRows
  <2>2. QED
    BY <1>2, <1>3, <1>12, <2>1 DEF ClearSelected, import, WizardCalls
<1>13. CASE Narrow
  BY <1>2, <1>13 DEF Narrow, LoadRows, import, WizardCalls
<1>14. CASE AddLead
  BY <1>2, <1>14 DEF AddLead, import, WizardCalls
<1>15. CASE LeaveWizard \/ ImportFile \/ ImportDemo \/ DeleteFolder
  BY <1>3, <1>15 DEF LeaveWizard, ImportFile, ImportDemo, DeleteFolder, import
<1>16. QED
  BY <1>4, <1>5, <1>6, <1>7, <1>8, <1>9, <1>10, <1>11, <1>12, <1>13, <1>14, <1>15

\* The wizard's own call ends, and no other one is there.
LEMMA Ended ==
  ASSUME NetOK, WizardInv, ~crossed, NEW s \in Slots, Own(s), NEW c,
         net' = [net EXCEPT ![s] = c], ~IsOwn(c)
  PROVE  \A r \in Slots : ~Own(r)'
<1>1. net'[s] = c /\ \A r \in Slots \ {s} : net'[r] = net[r]
  BY OneSlot
<1>2. \A r \in Slots \ {s} : ~Own(r)
  BY DEF WizardInv
<1>3. QED
  BY <1>1, <1>2 DEF Own

\* Without a call of its own, the wizard is free and shows what is current.
LEMMA FreeWizard ==
  ASSUME \A r \in Slots : ~Own(r)', wizard'.busy = None,
         wizard'.checked # None /\ ~meddled' =>
            wizard'.checked = [job |-> wizard'.job, map |-> wizard'.map],
         wizard'.result # None => wizard'.result = wizard'.job /\ Imported(wizard.job)'
  PROVE  WizardInv'
BY DEF WizardInv

\* A new call of the wizard's is its only one.
LEMMA BegunOwn ==
  ASSUME NetOK, \A r \in Slots : ~Own(r), NEW kind, NEW l, NEW a, Start(Call(kind, l, a))
  PROVE  \E s \in Slots : /\ net'[s] = Call(kind, l, a)
                          /\ \A r \in Slots : Own(r)' => r = s
<1>1. PICK s \in Slots : net' = [net EXCEPT ![s] = Call(kind, l, a)]
  BY Started
<1>2. PICK c : c = Call(kind, l, a)
  OBVIOUS
<1>3. net'[s] = c /\ \A r \in Slots \ {s} : net'[r] = net[r]
  BY <1>1, <1>2, OneSlot
<1>4. QED
  BY <1>2, <1>3 DEF Own

LEMMA UploadWizard ==
  ASSUME NetOK, WizardOK, WizardInv, NEW s \in Slots, UploadAnswered(s)
  PROVE  WizardInv'
<1> SUFFICES ASSUME ~crossed' PROVE WizardInv'
  BY DEF WizardInv
<1>1. /\ ~crossed /\ net[s].kind = "upload" /\ net[s].phase = "served" /\ CallOK(net[s])
      /\ UNCHANGED <<server, meddled>>
  BY DEF UploadAnswered, Arrives, NetOK
<1>2. Own(s) /\ wizard.checked = None /\ wizard.result = None
  BY <1>1 DEF CallOK, Own, IsOwn, WizardCalls, WizardInv, OwnCall
<1>3. PICK c : c = Idle
  OBVIOUS
<1>4. \A r \in Slots : ~Own(r)'
  BY <1>1, <1>2, <1>3, NotOwn, Ended DEF UploadAnswered, Done
<1>5. wizard \in WizardRows
  BY DEF WizardOK
<1>6. wizard'.busy = None /\ wizard'.checked = None /\ wizard'.result = None
  BY <1>2, <1>5 DEF UploadAnswered, WizardRows
<1>7. QED
  BY <1>4, <1>6, FreeWizard

LEMMA MappingWizard ==
  ASSUME NetOK, WizardOK, WizardInv, NEW s \in Slots, MappingAnswered(s)
  PROVE  WizardInv'
<1> SUFFICES ASSUME ~crossed' PROVE WizardInv'
  BY DEF WizardInv
<1>1. /\ ~crossed /\ net[s].kind = "mapping" /\ net[s].phase = "served" /\ CallOK(net[s])
      /\ UNCHANGED <<server, meddled>>
  BY DEF MappingAnswered, Arrives, NetOK
<1>2. Own(s)
  BY <1>1 DEF CallOK, Own, IsOwn, WizardCalls
<1>3. PICK c : c = Idle
  OBVIOUS
<1>4. \A r \in Slots : ~Own(r)'
  BY <1>1, <1>2, <1>3, NotOwn, Ended DEF MappingAnswered, Done
<1>5. wizard \in WizardRows
  BY DEF WizardOK
<1>6. net[s].ok => net[s].list = wizard.job /\ (~meddled => net[s].arg = wizard.map)
  BY <1>1, <1>2 DEF WizardInv, OwnCall, Intact
<1>7. /\ wizard'.busy = None /\ wizard'.job = wizard.job /\ wizard'.map = wizard.map
      /\ wizard'.result = wizard.result
      /\ wizard'.checked = wizard.checked
         \/ (net[s].ok /\ wizard'.checked = [job |-> net[s].list, map |-> net[s].arg])
  BY <1>5 DEF MappingAnswered, WizardRows
<1>8. wizard'.checked # None /\ ~meddled' => wizard'.checked = [job |-> wizard'.job, map |-> wizard'.map]
  BY <1>1, <1>6, <1>7 DEF WizardInv
<1>9. wizard'.result # None => wizard'.result = wizard'.job /\ Imported(wizard.job)'
  BY <1>1, <1>7 DEF WizardInv, Imported, server
<1>10. QED
  BY <1>4, <1>7, <1>8, <1>9, FreeWizard

LEMMA CommitWizard ==
  ASSUME NetOK, WizardOK, WizardInv, NEW s \in Slots, CommitAnswered(s)
  PROVE  WizardInv'
<1> SUFFICES ASSUME ~crossed' PROVE WizardInv'
  BY DEF WizardInv
<1>1. /\ ~crossed /\ net[s].kind = "commit" /\ net[s].phase = "served" /\ CallOK(net[s])
      /\ UNCHANGED <<server, meddled, crossed>>
  BY DEF CommitAnswered, Arrives, NetOK
<1>2. Own(s)
  BY <1>1 DEF CallOK, Own, IsOwn, WizardCalls
<1>3. wizard \in WizardRows
  BY DEF WizardOK
<1>4. CASE ~net[s].ok
  <2>1. PICK c : c = Idle
    OBVIOUS
  <2>2. \A r \in Slots : ~Own(r)'
    BY <1>1, <1>2, <1>4, <2>1, NotOwn, Ended DEF CommitAnswered
  <2>3. /\ wizard'.busy = None /\ wizard'.job = wizard.job /\ wizard'.map = wizard.map
        /\ wizard'.result = wizard.result /\ wizard'.checked = wizard.checked
    BY <1>3, <1>4 DEF CommitAnswered, WizardRows
  <2>4. wizard'.checked # None /\ ~meddled' => wizard'.checked = [job |-> wizard'.job, map |-> wizard'.map]
    BY <1>1, <2>3 DEF WizardInv
  <2>5. wizard'.result # None => wizard'.result = wizard'.job /\ Imported(wizard.job)'
    BY <1>1, <2>3 DEF WizardInv, Imported, server
  <2>6. QED
    BY <2>2, <2>3, <2>4, <2>5, FreeWizard
<1>5. CASE net[s].ok
  <2>1. /\ wizard.busy = "commit" /\ wizard.step = 3 /\ net[s].list = wizard.job
        /\ Imported(net[s].list)
    BY <1>1, <1>2, <1>5 DEF WizardInv, OwnCall, Intact
  <2>2. PICK c : c = Call("registry", net[s].list, None)
    OBVIOUS
  <2>3. net'[s] = c /\ \A r \in Slots \ {s} : net'[r] = net[r]
    BY <1>5, <2>2, OneSlot DEF CommitAnswered
  <2>4. \A r \in Slots \ {s} : ~Own(r)'
    BY <1>1, <1>2, <2>3 DEF WizardInv, Own
  <2>5. c.kind = "registry" /\ ~c.dead /\ c.list = wizard.job /\ wizard.job \in Lists
    BY <2>1, <2>2 DEF Call, Idle, Imported
  <2>6. /\ wizard'.busy = "commit" /\ wizard'.step = 3 /\ wizard'.job = wizard.job
        /\ wizard'.map = wizard.map /\ wizard'.checked = wizard.checked
        /\ wizard'.result = wizard.job
    BY <1>3, <1>5, <2>1 DEF CommitAnswered, WizardRows
  <2>7. Own(s)'
    BY <2>3, <2>5, OldAssumption DEF Own, IsOwn
  <2>8. OwnCall(net[s])'
    BY <2>3, <2>5, <2>6 DEF OwnCall
  <2>9. wizard'.checked # None /\ ~meddled' => wizard'.checked = [job |-> wizard'.job, map |-> wizard'.map]
    BY <1>1, <2>6 DEF WizardInv
  <2>10. wizard'.result = wizard'.job /\ Imported(wizard.job)'
    BY <1>1, <2>1, <2>6 DEF Imported, server
  <2>11. QED
    BY <2>4, <2>7, <2>8, <2>9, <2>10 DEF WizardInv
<1>6. QED
  BY <1>4, <1>5

LEMMA RegistryWizard ==
  ASSUME NetOK, WizardOK, WizardInv, NEW s \in Slots, RegistryAnswered(s)
  PROVE  WizardInv'
<1> SUFFICES ASSUME ~crossed' PROVE WizardInv'
  BY DEF WizardInv
<1>1. /\ ~crossed /\ net[s].kind = "registry" /\ net[s].phase = "served" /\ CallOK(net[s])
      /\ UNCHANGED <<server, meddled, crossed>>
  BY DEF RegistryAnswered, Arrives, NetOK
<1>2. PICK c : net' = [net EXCEPT ![s] = c] /\ (c = Idle \/ \E l : c = Call("leads", l, query))
  BY DEF RegistryAnswered
<1>3. ~IsOwn(c)
  BY <1>2, NotOwn DEF WizardCalls
<1>4. CASE net[s].list = None
  <2>1. ~Own(s) /\ UNCHANGED wizard
    BY <1>1, <1>4 DEF Own, IsOwn, WizardCalls, RegistryAnswered
  <2>2. QED
    BY <1>1, <1>2, <1>3, <2>1, ReplacedWizard
<1>5. CASE net[s].list # None
  <2>1. Own(s)
    BY <1>1, <1>5 DEF CallOK, Own, IsOwn
  <2>2. \A r \in Slots : ~Own(r)'
    BY <1>1, <1>2, <1>3, <2>1, Ended
  <2>3. wizard \in WizardRows
    BY DEF WizardOK
  <2>4. /\ wizard'.busy = None /\ wizard'.job = wizard.job /\ wizard'.map = wizard.map
        /\ wizard'.result = wizard.result /\ wizard'.checked = wizard.checked
    BY <1>5, <2>3 DEF RegistryAnswered, WizardRows
  <2>5. wizard'.checked # None /\ ~meddled' => wizard'.checked = [job |-> wizard'.job, map |-> wizard'.map]
    BY <1>1, <2>4 DEF WizardInv
  <2>6. wizard'.result # None => wizard'.result = wizard'.job /\ Imported(wizard.job)'
    BY <1>1, <2>4 DEF WizardInv, Imported, server
  <2>7. QED
    BY <2>2, <2>4, <2>5, <2>6, FreeWizard
<1>6. QED
  BY <1>4, <1>5

\* A call of the wizard's own and the step and the flag it goes with.
LEMMA OwnShows ==
  ASSUME NetOK, WizardInv, ~crossed, NEW r \in Slots, Own(r)
  PROVE  \/ wizard.busy = "upload" /\ wizard.step = 1
         \/ wizard.busy = "mapping" /\ wizard.step = 2
         \/ wizard.busy = "commit" /\ wizard.step = 3
BY DEF WizardInv, OwnCall, Own, IsOwn, WizardCalls

LEMMA OpenedWizard ==
  ASSUME NetOK, WizardOK, WizardInv, OpenWizard
  PROVE  WizardInv'
<1> SUFFICES ASSUME ~crossed' PROVE WizardInv'
  BY DEF WizardInv
<1>1. ~crossed /\ UNCHANGED net /\ wizard' = [NoWizard EXCEPT !.busy = wizard.busy]
  BY DEF OpenWizard
<1>2. \A r \in Slots : ~Own(r)
  BY DEF OpenWizard, Underway, Own, IsOwn
<1>3. wizard'.busy = wizard.busy /\ wizard'.checked = None /\ wizard'.result = None
  BY <1>1 DEF NoWizard
<1>4. wizard'.busy = None
  BY <1>1, <1>2, <1>3 DEF WizardInv
<1>5. \A r \in Slots : ~Own(r)'
  BY <1>1, <1>2 DEF Own
<1>6. QED
  BY <1>3, <1>4, <1>5, FreeWizard

LEMMA UploadingWizard ==
  ASSUME NetOK, WizardOK, WizardInv, NEW f \in Files, UploadFile(f)
  PROVE  WizardInv'
<1> SUFFICES ASSUME ~crossed' PROVE WizardInv'
  BY DEF WizardInv
<1>1. ~crossed /\ wizard.step = 1 /\ wizard.busy # "upload" /\ wizard \in WizardRows
  BY DEF UploadFile, UploadOffered, WizardOK
<1>2. \A r \in Slots : ~Own(r)
  BY <1>1, OwnShows
<1>3. PICK s \in Slots : /\ net'[s] = Call("upload", None, f)
                         /\ \A r \in Slots : Own(r)' => r = s
  BY <1>2, BegunOwn DEF UploadFile
<1>4. net'[s].kind = "upload" /\ ~net'[s].dead
  BY <1>3 DEF Call, Idle
<1>5. /\ wizard'.checked = None /\ wizard'.result = None /\ wizard'.busy = "upload"
      /\ wizard'.step = 1
  BY <1>1 DEF UploadFile, WizardRows
<1>6. Own(s)' /\ OwnCall(net[s])'
  BY <1>4, <1>5 DEF Own, IsOwn, WizardCalls, OwnCall
<1>7. QED
  BY <1>3, <1>5, <1>6 DEF WizardInv

LEMMA ValidatingWizard ==
  ASSUME NetOK, WizardOK, WizardInv, ValidateMapping
  PROVE  WizardInv'
<1> SUFFICES ASSUME ~crossed' PROVE WizardInv'
  BY DEF WizardInv
<1>1. /\ ~crossed /\ wizard.step = 2 /\ wizard.busy # "mapping" /\ wizard \in WizardRows
      /\ wizard.checked = None /\ UNCHANGED <<meddled, server>>
  BY DEF ValidateMapping, ValidateOffered, WizardOK
<1>2. \A r \in Slots : ~Own(r)
  BY <1>1, OwnShows
<1>3. PICK s \in Slots : /\ net'[s] = Call("mapping", wizard.job, wizard.map)
                         /\ \A r \in Slots : Own(r)' => r = s
  BY <1>2, BegunOwn DEF ValidateMapping
<1>4. PICK c : c = net'[s]
  OBVIOUS
<1>5. c.kind = "mapping" /\ ~c.dead /\ c.list = wizard.job /\ c.arg = wizard.map
  BY <1>3, <1>4 DEF Call, Idle
<1>6. /\ wizard'.checked = None /\ wizard'.result = wizard.result /\ wizard'.busy = "mapping"
      /\ wizard'.step = 2 /\ wizard'.job = wizard.job /\ wizard'.map = wizard.map
  BY <1>1 DEF ValidateMapping, WizardRows
<1>7. Own(s)' /\ OwnCall(net[s])'
  BY <1>4, <1>5, <1>6 DEF Own, IsOwn, WizardCalls, OwnCall
<1>8. wizard'.result # None => wizard'.result = wizard'.job /\ Imported(wizard.job)'
  BY <1>1, <1>6 DEF WizardInv, Imported, server
<1>9. QED
  BY <1>3, <1>6, <1>7, <1>8 DEF WizardInv

LEMMA ImportingWizard ==
  ASSUME NetOK, WizardOK, WizardInv, StartImport
  PROVE  WizardInv'
<1> SUFFICES ASSUME ~crossed' PROVE WizardInv'
  BY DEF WizardInv
<1>1. /\ ~crossed /\ wizard.step = 2 /\ wizard.busy \notin {"mapping", "commit"}
      /\ wizard \in WizardRows /\ UNCHANGED <<meddled, server>>
  BY DEF StartImport, ImportOffered, WizardOK
<1>2. \A r \in Slots : ~Own(r)
  BY <1>1, OwnShows
<1>3. PICK s \in Slots : /\ net'[s] = Call("commit", wizard.job, None)
                         /\ \A r \in Slots : Own(r)' => r = s
  BY <1>2, BegunOwn DEF StartImport
<1>4. PICK c : c = net'[s]
  OBVIOUS
<1>5. c.kind = "commit" /\ ~c.dead /\ c.list = wizard.job /\ ~c.ok
  BY <1>3, <1>4 DEF Call, Idle
<1>6. /\ wizard'.checked = wizard.checked /\ wizard'.result = wizard.result
      /\ wizard'.busy = "commit" /\ wizard'.step = 3 /\ wizard'.job = wizard.job
      /\ wizard'.map = wizard.map
  BY <1>1 DEF StartImport, WizardRows
<1>7. Own(s)' /\ OwnCall(net[s])'
  BY <1>4, <1>5, <1>6 DEF Own, IsOwn, WizardCalls, OwnCall
<1>8. wizard'.result # None => wizard'.result = wizard'.job /\ Imported(wizard.job)'
  BY <1>1, <1>6 DEF WizardInv, Imported, server
<1>9. wizard'.checked # None /\ ~meddled' => wizard'.checked = [job |-> wizard'.job, map |-> wizard'.map]
  BY <1>1, <1>6 DEF WizardInv
<1>10. QED
  BY <1>3, <1>6, <1>7, <1>8, <1>9 DEF WizardInv

\* A step of the wizard that leaves its calls alone.
LEMMA SteppedWizard ==
  ASSUME WizardInv, ~crossed, UNCHANGED <<net, server>>,
         wizard'.busy = wizard.busy, wizard'.job = wizard.job, wizard'.result = wizard.result,
         \A r \in Slots : Own(r) => OwnCall(net[r])',
         wizard'.checked # None /\ ~meddled' =>
            wizard'.checked = [job |-> wizard'.job, map |-> wizard'.map]
  PROVE  WizardInv'
<1>1. \A r \in Slots : Own(r)' <=> Own(r)
  BY DEF Own
<1>2. wizard'.result # None => wizard'.result = wizard'.job /\ Imported(wizard.job)'
  BY DEF WizardInv, Imported, server
<1>3. /\ \A s, r \in Slots : Own(s)' /\ Own(r)' => s = r
      /\ \A s \in Slots : Own(s)' => OwnCall(net[s])'
      /\ wizard'.busy # None => \E s \in Slots : Own(s)'
  BY <1>1 DEF WizardInv
<1>4. QED
  BY <1>2, <1>3 DEF WizardInv

LEMMA EditedWizard ==
  ASSUME NetOK, WizardOK, WizardInv, NEW i, NEW t, EditMapping(i, t)
  PROVE  WizardInv'
<1> SUFFICES ASSUME ~crossed' PROVE WizardInv'
  BY DEF WizardInv
<1>1. /\ ~crossed /\ wizard.step = 2 /\ wizard \in WizardRows /\ UNCHANGED <<net, server>>
      /\ meddled' = (meddled \/ \E s \in Slots : net[s].kind = "mapping" /\ ~net[s].dead)
  BY DEF EditMapping, MappingOffered, WizardOK
<1>2. PICK map : wizard' = [wizard EXCEPT !.map = map, !.checked = None]
  BY DEF EditMapping
<1>3. /\ wizard'.busy = wizard.busy /\ wizard'.job = wizard.job /\ wizard'.result = wizard.result
      /\ wizard'.step = wizard.step /\ wizard'.checked = None
  BY <1>1, <1>2 DEF WizardRows
<1>4. ASSUME NEW r \in Slots, Own(r) PROVE OwnCall(net[r])'
  <2>1. net[r].kind = "mapping" => meddled'
    BY <1>1, <1>4 DEF Own, IsOwn
  <2>2. OwnCall(net[r])
    BY <1>1, <1>4 DEF WizardInv
  <2>3. UNCHANGED <<net, jobs>>
    BY <1>1 DEF server
  <2>4. wizard.step = 2 /\ net[r].kind # "upload" /\ net[r].kind # "commit"
        /\ net[r].kind # "registry"
    BY <1>1, <2>2 DEF OwnCall
  <2>5. QED
    BY <1>3, <2>1, <2>2, <2>3, <2>4 DEF OwnCall
<1>5. QED
  BY <1>1, <1>3, <1>4, SteppedWizard

LEMMA BackWizard ==
  ASSUME NetOK, WizardOK, WizardInv, StepBack
  PROVE  WizardInv'
<1> SUFFICES ASSUME ~crossed' PROVE WizardInv'
  BY DEF WizardInv
<1>1. ~crossed /\ wizard \in WizardRows /\ UNCHANGED <<net, server, meddled>>
  BY DEF StepBack, WizardOK
<1>2. (wizard.step = 3 /\ wizard.busy # "commit") \/ (wizard.step = 2 /\ wizard.busy # "mapping")
  BY DEF StepBack, BackOffered, FailureShown
<1>3. \A r \in Slots : ~Own(r)
  BY <1>1, <1>2, OwnShows
<1>4. /\ wizard'.busy = wizard.busy /\ wizard'.job = wizard.job /\ wizard'.result = wizard.result
      /\ wizard'.map = wizard.map /\ wizard'.checked = wizard.checked
  BY <1>1 DEF StepBack, WizardRows
<1>5. wizard'.checked # None /\ ~meddled' => wizard'.checked = [job |-> wizard'.job, map |-> wizard'.map]
  BY <1>1, <1>4 DEF WizardInv
<1>6. QED
  BY <1>1, <1>3, <1>4, <1>5, SteppedWizard

LEMMA RemountWizard ==
  ASSUME NetOK, Remount
  PROVE  WizardInv'
<1>1. \A r \in Slots : ~Own(r)'
  BY RemountMoves DEF Own, IsOwn, WizardCalls
<1>2. wizard'.busy = None /\ wizard'.checked = None /\ wizard'.result = None
  BY DEF Remount, NoWizard
<1>3. QED
  BY <1>1, <1>2, FreeWizard

-----------------------------------------------------------------------------
(* The invariant.                                                           *)

AllInv == Typed /\ TableInv /\ WizardInv /\ ImportedKept

LEMMA InitInv == Init => AllInv
<1> SUFFICES ASSUME Init PROVE AllInv
  OBVIOUS
<1>1. ServerOK
  <2>1. NoMap \in Mappings
    BY DEF Mappings
  <2>2. NoJob \in JobRows /\ [NoJob EXCEPT !.at = "done"] \in JobRows
    BY <2>1 DEF NoJob, JobRows
  <2>3. QED
    BY <2>2 DEF Init, ServerOK
<1>2. batches = Registry /\ batches \in Tables /\ version = 1 /\ synced = 1
  BY <1>1, RegistryTyped DEF Init
<1>3. TableOK
  BY <1>2 DEF TableOK
<1>4. ScreenOK
  <2>1. [page |-> 1, narrow |-> FALSE] \in Queries
    BY DEF Queries
  <2>2. QED
    BY <2>1, OldAssumption DEF Init, ScreenOK
<1>5. WizardOK
  BY NoWizardTyped DEF Init, WizardOK
<1>6. DncOK
  <2>1. Suppressed(rows) \subseteq Keys
    BY <1>4 DEF Suppressed, Keys, ScreenOK
  <2>2. kept \subseteq Entries
    BY <2>1, EntryTyped DEF Init
  <2>3. {[key |-> k, by |-> "other"] : k \in Register \ KeysOf(kept)} \subseteq Entries
    BY EntryTyped
  <2>4. QED
    BY <2>2, <2>3 DEF Init, DncOK
<1>7. PersonOK
  <2>1. MaxLost \in Nat /\ lost = 0
    BY BoundsAssumption DEF Init
  <2>2. person \in Visits /\ person \in [parts : SUBSET {"table", "wizard", "rows", "dnc"}, left : Nat]
    BY VisitsAssumption DEF Init
  <2>3. person.parts \in {v.parts : v \in Visits} /\ person.left \in Nat
    BY <2>2
  <2>4. person = [parts |-> person.parts, left |-> person.left]
    BY <2>2
  <2>5. person \in [parts : {v.parts : v \in Visits}, left : Nat]
    BY <2>3, <2>4
  <2>6. QED
    BY <2>1, <2>5 DEF PersonOK
<1>8. PICK c : c = Idle
  OBVIOUS
<1>9. DOMAIN net = Slots /\ \A s \in Slots : net[s] = c
  BY <1>8 DEF Init
<1>10. CallOK(c) /\ ~c.ok /\ ~IsOwn(c)
  BY <1>8, IdleOK, IdleFields, NotOwn
<1>11. NetOK
  BY <1>9, <1>10 DEF NetOK
<1>12. TableInv
  BY <1>2, <1>9, <1>10 DEF TableInv, SeenOK, AnswersTrue, Told, Shows
<1>13. WizardInv
  BY <1>9, <1>10 DEF WizardInv, Own, Init, NoWizard
<1>14. ImportedKept
  BY DEF Init, ImportedKept
<1>15. QED
  BY <1>1, <1>3, <1>4, <1>5, <1>6, <1>7, <1>11, <1>12, <1>13, <1>14 DEF AllInv, Typed

LEMMA NextInv == AllInv /\ [Next]_vars => AllInv'
<1> SUFFICES ASSUME AllInv, [Next]_vars PROVE AllInv'
  OBVIOUS
<1>1. /\ Typed /\ TableInv /\ WizardInv /\ ImportedKept
      /\ ServerOK /\ TableOK /\ ScreenOK /\ WizardOK /\ DncOK /\ PersonOK /\ NetOK
  BY DEF AllInv, Typed
<1>2. CASE UNCHANGED vars
  <2>1. /\ UNCHANGED <<server, table>> /\ UNCHANGED <<wizard, crossed, meddled, server>>
        /\ UNCHANGED net
    BY <1>2 DEF vars, server, table
  <2>2. NetOK' /\ NothingTold
    BY <1>1, <2>1, SameCalls
  <2>3. TableInv' /\ WizardInv'
    BY <1>1, <2>1, <2>2, TableStays, OthersWizard
  <2>4. /\ ServerOK' /\ TableOK' /\ ScreenOK' /\ WizardOK' /\ DncOK' /\ PersonOK'
        /\ ImportedKept'
    BY <1>1, <1>2 DEF vars, ServerOK, TableOK, ScreenOK, WizardOK, DncOK, PersonOK, ImportedKept
  <2>5. QED
    BY <2>2, <2>3, <2>4 DEF AllInv, Typed
<1>3. CASE Next
  <2>1. ScreenOK' /\ WizardOK' /\ DncOK' /\ PersonOK' /\ ImportedKept'
    BY <1>1, <1>3, ScreenTyped, WizardTyped, SuppressionKept, VisitTyped
  <2>2. ASSUME NEW s \in Slots, Serve(s) PROVE NetOK' /\ ServerOK' /\ TableOK' /\ TableInv' /\ WizardInv'
    BY <1>1, <2>2, ServeTable, ServeWizard
  <2>3. Still => ServerOK' /\ NetOK'
    BY <1>1, Stands DEF Still
  <2>4. ASSUME NEW s \in Slots, Lose(s) \/ Answered(s)
        PROVE  NetOK' /\ ServerOK' /\ TableOK' /\ TableInv' /\ WizardInv'
    <3>1. Still
      BY <1>1, <2>4, AnsweredMoves
    <3>2. CASE Lose(s)
      <4>1. UNCHANGED table
        BY <3>2 DEF Lose
      <4>2. QED
        BY <1>1, <2>3, <3>1, <3>2, <4>1, OtherTable, LoseWizard
    <3>3. CASE RegistryAnswered(s)
      BY <1>1, <2>3, <3>1, <3>3, RegistryTable, RegistryWizard
    <3>4. CASE RunAnswered(s)
      BY <1>1, <2>3, <3>1, <3>4, RunTable, DeskWizard
    <3>5. CASE DeleteAnswered(s)
      BY <1>1, <2>3, <3>1, <3>5, DeleteTable, DeskWizard
    <3>6. CASE EditAnswered(s) \/ RowsAnswered(s) \/ RegisterAnswered(s) \/ LeadAdded(s)
      <4>1. UNCHANGED table
        BY <3>6 DEF EditAnswered, RowsAnswered, RegisterAnswered, LeadAdded
      <4>2. QED
        BY <1>1, <2>3, <3>1, <3>6, <4>1, OtherTable, DeskWizard
    <3>7. CASE UploadAnswered(s) \/ MappingAnswered(s) \/ CommitAnswered(s)
      <4>1. UNCHANGED table
        BY <3>7 DEF UploadAnswered, MappingAnswered, CommitAnswered
      <4>2. WizardInv'
        BY <1>1, <3>7, UploadWizard, MappingWizard, CommitWizard
      <4>3. QED
        BY <1>1, <2>3, <3>1, <4>1, <4>2, OtherTable
    <3>8. QED
      BY <2>4, <3>2, <3>3, <3>4, <3>5, <3>6, <3>7 DEF Answered
  <2>5. ASSUME Clicks PROVE NetOK' /\ ServerOK' /\ TableOK' /\ TableInv' /\ WizardInv'
    <3>1. Still
      BY <1>1, <2>5, ClicksMove
    <3>2. TableInv' /\ TableOK'
      <4>1. ASSUME NEW l \in Lists, NEW value \in BOOLEAN, EditRow(l, value)
            PROVE  TableInv' /\ TableOK'
        BY <1>1, <3>1, <4>1, EditTable
      <4>2. UNCHANGED table => TableInv' /\ TableOK'
        BY <1>1, <3>1, OtherTable
      <4>3. ASSUME NEW l \in Lists, ToggleRun(l) \/ DeleteList(l) \/ SelectList(l)
            PROVE  TableInv' /\ TableOK'
        BY <4>2, <4>3 DEF ToggleRun, DeleteList, SelectList
      <4>4. CASE ClearSelected \/ Narrow \/ AddLead \/ ImportFile \/ ImportDemo \/ DeleteFolder
        BY <4>2, <4>4 DEF ClearSelected, Narrow, AddLead, ImportFile, ImportDemo, DeleteFolder
      <4>5. CASE OpenWizard \/ ValidateMapping \/ StartImport \/ StepBack \/ LeaveWizard
        BY <4>2, <4>5 DEF OpenWizard, ValidateMapping, StartImport, StepBack, LeaveWizard
      <4>6. ASSUME NEW f, NEW i, NEW t, UploadFile(f) \/ EditMapping(i, t)
            PROVE  TableInv' /\ TableOK'
        BY <4>2, <4>6 DEF UploadFile, EditMapping
      <4>7. QED
        BY <2>5, <4>1, <4>3, <4>4, <4>5, <4>6 DEF Clicks
    <3>3. WizardInv'
      <4>1. CASE OpenWizard \/ ValidateMapping \/ StartImport \/ StepBack
        BY <1>1, <4>1, OpenedWizard, ValidatingWizard, ImportingWizard, BackWizard
      <4>2. ASSUME NEW f \in Files, UploadFile(f) PROVE WizardInv'
        BY <1>1, <4>2, UploadingWizard
      <4>3. ASSUME NEW i, NEW t, EditMapping(i, t) PROVE WizardInv'
        BY <1>1, <4>3, EditedWizard
      <4>4. CASE \/ \E l \in Lists : \/ ToggleRun(l) \/ DeleteList(l) \/ SelectList(l)
                                     \/ \E value \in BOOLEAN : EditRow(l, value)
                 \/ ClearSelected \/ Narrow \/ AddLead
                 \/ LeaveWizard \/ ImportFile \/ ImportDemo \/ DeleteFolder
        BY <1>1, <4>4, DeskWizard
      <4>5. QED
        BY <2>5, <4>1, <4>2, <4>3, <4>4 DEF Clicks
    <3>4. QED
      BY <2>3, <3>1, <3>2, <3>3
  <2>6. ASSUME Remount PROVE NetOK' /\ ServerOK' /\ TableOK' /\ TableInv' /\ WizardInv'
    <3>1. Still
      BY <1>1, <2>6, RemountMoves
    <3>2. QED
      BY <1>1, <2>3, <2>6, <3>1, RemountTable, RemountWizard
  <2>7. (\E s \in Slots : Serve(s) \/ Lose(s) \/ Answered(s)) \/ Clicks \/ Remount
    BY <1>3 DEF Next, Clicks
  <2>8. NetOK' /\ ServerOK' /\ TableOK' /\ TableInv' /\ WizardInv'
    BY <2>2, <2>4, <2>5, <2>6, <2>7
  <2>9. QED
    BY <2>1, <2>8 DEF AllInv, Typed
<1>4. QED
  BY <1>2, <1>3

LEMMA Invariant == Spec => []AllInv
BY InitInv, NextInv, PTL DEF Spec

-----------------------------------------------------------------------------
(* The theorems.                                                            *)

\* What the wizard shows is about the file on screen: the counts are those of
\* the job and the mapping, the result is the job's and the job is imported.
THEOREM ConsistentTheorem == Spec => []Consistent
<1>1. AllInv => Consistent
  <2> SUFFICES ASSUME AllInv PROVE Consistent
    OBVIOUS
  <2>1. TypeOK
    BY TypedIsTypeOK DEF AllInv
  <2>2. ASSUME ResultShown, ~crossed
        PROVE  wizard.result = wizard.job /\ jobs[wizard.job].at \in {"done", "gone"}
    BY <2>2 DEF AllInv, WizardInv, Imported, ResultShown
  <2>3. ASSUME wizard.checked # None, ~crossed, ~meddled
        PROVE  wizard.checked = [job |-> wizard.job, map |-> wizard.map]
    BY <2>3 DEF AllInv, WizardInv
  <2>4. QED
    BY <2>1, <2>2, <2>3 DEF Consistent, CountsAreCurrent
<1>2. QED
  BY <1>1, Invariant, PTL

\* A table that has been told of every write the server accepted shows what the
\* server has, whatever edits, switches, deletions and re-reads crossed.
THEOREM ShownIsRegistryTheorem == Spec => []ShownIsRegistry
<1>1. AllInv => ShownIsRegistry
  <2> SUFFICES ASSUME AllInv, synced = version PROVE batches = Registry
    BY DEF ShownIsRegistry
  <2>1. /\ version \in Nat /\ TableInv /\ NetOK /\ ServerOK /\ batches \in Tables
    BY DEF AllInv, Typed, ServerOK, TableOK
  <2>2. OnlyDeletions(synced)
    BY <2>1 DEF OnlyDeletions
  <2>3. \A l \in Lists : ~Deleted(l, synced)
    BY <2>1 DEF Deleted, Told, TableInv, SeenOK
  <2>4. \A l \in Lists : batches[l] = Registry[l]
    BY <2>1, <2>2, <2>3 DEF TableInv, Shows
  <2>5. Registry \in Tables
    BY <2>1, RegistryTyped
  <2>6. QED
    BY <2>1, <2>4, <2>5 DEF Tables
<1>2. QED
  BY <1>1, Invariant, PTL

\* A suppression key that came in from a file stays on the list and in storage.
THEOREM ImportedKeptTheorem == Spec => []ImportedKept
<1>1. AllInv => ImportedKept
  BY DEF AllInv
<1>2. QED
  BY <1>1, Invariant, PTL
=============================================================================
