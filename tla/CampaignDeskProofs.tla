-------------------------- MODULE CampaignDeskProofs --------------------------
(***************************************************************************)
(* Proofs about CampaignDesk, for any campaigns, ids, visits, calls under   *)
(* way and calls lost.                                                      *)
(***************************************************************************)
EXTENDS CampaignDesk, FiniteSetTheorems, SequenceTheorems, WellFoundedInduction, TLAPS

-----------------------------------------------------------------------------
(* Lists.  The rows at some positions of a list, in their order, are a list  *)
(* of just these rows: the positions have as many ranks as there are of them.*)

Less == {p \in Nat \X Nat : p[1] < p[2]}

\* Every set of numbers has a least one.
LEMMA LeastNumber ==
  ASSUME NEW T, T \subseteq Nat, T # {}
  PROVE  \E x \in T : \A y \in T : x <= y
<1>1. IsWellFoundedOn(Less, Nat)
  BY NatLessThanWellFounded DEF OpToRel, Less
<1>2. PICK x \in T : \A y \in T : <<y, x>> \notin Less
  BY <1>1, WFMin
<1>3. \A y \in T : y < x => <<y, x>> \in Less
  BY DEF Less
<1>4. \A y \in T : ~(y < x)
  BY <1>2, <1>3
<1>5. \A y \in T : y \in Int /\ x \in Int
  OBVIOUS
<1>6. QED
  BY <1>4, <1>5

UpTo(at, m) == {j \in at : j <= m}
Rank(at, m) == Cardinality(UpTo(at, m))

LEMMA Ranks ==
  ASSUME NEW n \in Nat, NEW at, at \subseteq 1..n
  PROVE  /\ IsFiniteSet(at) /\ Cardinality(at) \in Nat
         /\ \A m \in Nat : IsFiniteSet(UpTo(at, m)) /\ Rank(at, m) \in Nat
                           /\ Rank(at, m) <= Cardinality(at)
         /\ Rank(at, 0) = 0 /\ Rank(at, n) = Cardinality(at)
         /\ \A i \in at : Rank(at, i) > 0 /\ Rank(at, i) = Rank(at, i - 1) + 1
         /\ \A m \in 1..n : m \notin at => Rank(at, m) = Rank(at, m - 1)
<1>1. IsFiniteSet(1..n)
  BY FS_Interval
<1>2. IsFiniteSet(at) /\ Cardinality(at) \in Nat
  BY <1>1, FS_Subset, FS_CardinalityType
<1>3. ASSUME NEW m \in Nat
      PROVE  IsFiniteSet(UpTo(at, m)) /\ Rank(at, m) \in Nat /\ Rank(at, m) <= Cardinality(at)
  <2>1. UpTo(at, m) \subseteq at
    BY DEF UpTo
  <2>2. QED
    BY <1>2, <2>1, FS_Subset, FS_CardinalityType DEF Rank
<1>4. Rank(at, 0) = 0
  <2>1. \A j \in at : j \in Nat /\ 1 <= j
    OBVIOUS
  <2>2. \A j \in at : ~(j <= 0)
    BY <2>1
  <2>3. UpTo(at, 0) = {}
    BY <2>2 DEF UpTo
  <2>4. QED
    BY <2>3, FS_EmptySet DEF Rank
<1>5. Rank(at, n) = Cardinality(at)
  <2>1. \A j \in at : j <= n
    OBVIOUS
  <2>2. UpTo(at, n) = at
    BY <2>1 DEF UpTo
  <2>3. QED
    BY <2>2 DEF Rank
<1>6. ASSUME NEW i \in at PROVE Rank(at, i) > 0 /\ Rank(at, i) = Rank(at, i - 1) + 1
  <2>1. i \in Int /\ i - 1 \in Nat /\ \A j \in at : j \in Int
    OBVIOUS
  <2>2. ~(i <= i - 1) /\ i <= i /\ \A j \in at : j <= i <=> j <= i - 1 \/ j = i
    BY <2>1
  <2>3. UpTo(at, i) = UpTo(at, i - 1) \cup {i} /\ i \notin UpTo(at, i - 1)
    BY <2>2 DEF UpTo
  <2>4. IsFiniteSet(UpTo(at, i - 1)) /\ Rank(at, i - 1) \in Nat
    BY <1>3, <2>1
  <2>5. Rank(at, i) = Rank(at, i - 1) + 1
    BY <2>3, <2>4, FS_AddElement DEF Rank
  <2>6. QED
    BY <2>4, <2>5
<1>7. ASSUME NEW m \in 1..n, m \notin at PROVE Rank(at, m) = Rank(at, m - 1)
  <2>1. m \in Int /\ \A j \in at : j \in Int /\ j # m
    BY <1>7
  <2>2. \A j \in at : j <= m <=> j <= m - 1
    BY <2>1
  <2>3. UpTo(at, m) = UpTo(at, m - 1)
    BY <2>2 DEF UpTo
  <2>4. QED
    BY <2>3 DEF Rank
<1>8. QED
  BY <1>2, <1>3, <1>4, <1>5, <1>6, <1>7

\* Every rank is that of one position.
LEMMA OneOfEachRank ==
  ASSUME NEW n \in Nat, NEW at, at \subseteq 1..n
  PROVE  /\ \A k \in 1..Cardinality(at) : \E i \in at : Rank(at, i) = k
         /\ \A i, j \in at : Rank(at, i) = Rank(at, j) => i = j
<1>1. Cardinality(at) \in Nat /\ Rank(at, 0) = 0 /\ Rank(at, n) = Cardinality(at)
  BY Ranks
<1>2. \A m \in Nat : Rank(at, m) \in Nat /\ IsFiniteSet(UpTo(at, m))
  BY Ranks
<1>3. ASSUME NEW k \in 1..Cardinality(at) PROVE \E i \in at : Rank(at, i) = k
  <2> DEFINE T == {m \in Nat : Rank(at, m) >= k}
  <2>1. k \in Nat /\ k > 0 /\ Cardinality(at) >= k
    BY <1>1
  <2>2. n \in T
    BY <1>1, <2>1
  <2>3. PICK m \in T : \A l \in T : m <= l
    <3>1. T \subseteq Nat /\ T # {}
      BY <2>2
    <3> HIDE DEF T
    <3>2. QED
      BY <3>1, LeastNumber
  <2>4. m \in Nat /\ m <= n /\ Rank(at, m) >= k
    BY <2>2, <2>3
  <2>5. m # 0
    BY <1>1, <2>1, <2>4
  <2>6. m \in 1..n /\ m - 1 \in Nat /\ ~(m <= m - 1)
    BY <2>4, <2>5
  <2>7. m - 1 \notin T
    BY <2>3, <2>6
  <2>8. Rank(at, m - 1) < k
    BY <1>2, <2>1, <2>6, <2>7
  <2>9. m \in at
    <3>1. Rank(at, m) # Rank(at, m - 1)
      BY <1>2, <2>1, <2>4, <2>6, <2>8
    <3>2. \A l \in 1..n : l \notin at => Rank(at, l) = Rank(at, l - 1)
      BY Ranks
    <3>3. QED
      BY <2>6, <3>1, <3>2
  <2>10. Rank(at, m) = Rank(at, m - 1) + 1
    BY <2>9, Ranks
  <2>11. Rank(at, m) = k
    BY <1>2, <2>1, <2>4, <2>6, <2>8, <2>10
  <2>12. QED
    BY <2>9, <2>11
<1>4. ASSUME NEW i \in at, NEW j \in at, i < j PROVE Rank(at, i) # Rank(at, j)
  <2>1. i \in Nat /\ j \in Nat /\ \A l \in at : l \in Int
    OBVIOUS
  <2>2. ~(j <= i) /\ j <= j /\ \A l \in at : l <= i => l <= j
    BY <1>4, <2>1
  <2>3. UpTo(at, i) \in SUBSET UpTo(at, j) /\ j \in UpTo(at, j) /\ j \notin UpTo(at, i)
    BY <2>2 DEF UpTo
  <2>4. IsFiniteSet(UpTo(at, j))
    BY <1>2, <2>1
  <2>5. Cardinality(UpTo(at, j)) # Cardinality(UpTo(at, i))
    BY <2>3, <2>4, FS_Subset
  <2>6. QED
    BY <2>5 DEF Rank
<1>5. \A i, j \in at : i = j \/ i < j \/ j < i
  <2>1. \A i \in at : i \in Int
    OBVIOUS
  <2>2. QED
    BY <2>1
<1>6. QED
  BY <1>3, <1>4, <1>5

LEMMA AmongRows ==
  ASSUME NEW R, NEW rows \in Seq(R), NEW at, at \subseteq DOMAIN rows
  PROVE  /\ Among(rows, at) \in Seq(R)
         /\ \A k \in DOMAIN Among(rows, at) : \E i \in at : Among(rows, at)[k] = rows[i]
         /\ \A i \in at : \E k \in DOMAIN Among(rows, at) : Among(rows, at)[k] = rows[i]
<1> DEFINE n == Len(rows)
           Of(k) == CHOOSE i \in at : Rank(at, i) = k
<1>1. n \in Nat /\ at \subseteq 1..n
  OBVIOUS
<1> HIDE DEF n
<1>2. Among(rows, at) = [k \in 1..Cardinality(at) |-> rows[Of(k)]]
  BY DEF Among, Rank, UpTo
<1>3. Cardinality(at) \in Nat
  BY <1>1, Ranks
<1>4. \A k \in 1..Cardinality(at) : Of(k) \in at /\ Rank(at, Of(k)) = k
  BY <1>1, OneOfEachRank
<1>5. \A i \in at : Rank(at, i) \in 1..Cardinality(at) /\ Of(Rank(at, i)) = i
  <2> TAKE i \in at
  <2>1. i \in Nat /\ Rank(at, i) \in 1..Cardinality(at)
    BY <1>1, <1>3, Ranks
  <2>2. QED
    BY <1>1, <1>4, <2>1, OneOfEachRank
<1> HIDE DEF Of
<1>6. \A k \in 1..Cardinality(at) : rows[Of(k)] \in R
  BY <1>4
<1>7. Among(rows, at) \in Seq(R)
  BY <1>2, <1>3, <1>6
<1>8. DOMAIN Among(rows, at) = 1..Cardinality(at)
  BY <1>2
<1>9. QED
  BY <1>2, <1>4, <1>5, <1>7, <1>8

-----------------------------------------------------------------------------
(* What the handlers do to a list of rows.                                  *)

\* Pools and routes of each row were added on its own page.
Home(rows) ==
  \A k \in DOMAIN rows : rows[k].transfer \cup rows[k].routing \subseteq {Default, rows[k].id}

\* No row comes or goes, and each keeps its id.
SameIds(rows, old) ==
  DOMAIN rows = DOMAIN old /\ \A k \in DOMAIN old : rows[k].id = old[k].id

LEMMA SameRowIds ==
  ASSUME NEW rows, NEW old, SameIds(rows, old)
  PROVE  RowIds(rows) = RowIds(old)
BY DEF SameIds, RowIds

\* A merge is a list of the server's and of local rows, and loses no local id.
LEMMA MergedRows ==
  ASSUME NEW got \in Seq(Row), NEW local \in Seq(Row)
  PROVE  /\ Merge(got, local) \in Seq(Row)
         /\ RowIds(local) \subseteq RowIds(Merge(got, local))
         /\ Home(got) /\ Home(local) => Home(Merge(got, local))
<1> DEFINE First == {k \in DOMAIN local : /\ local[k].id \notin RowIds(got)
                                          /\ \A j \in 1..(k - 1) : local[j].id # local[k].id}
           kept == Among(local, First)
<1>1. Merge(got, local) = got \o kept
  BY DEF Merge
<1>2. First \subseteq DOMAIN local
  OBVIOUS
<1>3. /\ kept \in Seq(Row)
      /\ \A k \in DOMAIN kept : \E i \in First : kept[k] = local[i]
      /\ \A i \in First : \E k \in DOMAIN kept : kept[k] = local[i]
  <2> HIDE DEF First
  <2>1. Among(local, First) \in Seq(Row)
    BY <1>2, AmongRows
  <2>2. \A k \in DOMAIN Among(local, First) : \E i \in First : Among(local, First)[k] = local[i]
    BY <1>2, AmongRows
  <2>3. \A i \in First : \E k \in DOMAIN Among(local, First) : Among(local, First)[k] = local[i]
    BY <1>2, AmongRows
  <2>4. QED
    BY <2>1, <2>2, <2>3
<1>4. ASSUME NEW i \in DOMAIN local, local[i].id \notin RowIds(got)
      PROVE  \E k \in First : local[k].id = local[i].id
  <2> DEFINE T == {k \in DOMAIN local : local[k].id = local[i].id}
  <2>1. T \subseteq Nat /\ T # {}
    OBVIOUS
  <2>2. PICK k \in T : \A j \in T : k <= j
    <3> HIDE DEF T
    <3>1. QED
      BY <2>1, LeastNumber
  <2>3. k \in DOMAIN local /\ local[k].id = local[i].id
    BY <2>2
  <2>4. ASSUME NEW j \in 1..(k - 1) PROVE local[j].id # local[k].id
    <3>1. DOMAIN local = 1..Len(local) /\ Len(local) \in Nat /\ k \in Nat /\ k <= Len(local)
      BY <2>3
    <3>2. j \in DOMAIN local /\ j \in Nat /\ ~(k <= j)
      BY <3>1
    <3>3. QED
      BY <2>2, <2>3, <3>2
  <2>5. QED
    BY <1>4, <2>3, <2>4
<1> HIDE DEF First, kept
<1>5. Merge(got, local) \in Seq(Row)
  BY <1>1, <1>3
<1>6. /\ DOMAIN (got \o kept) = 1..(Len(got) + Len(kept))
      /\ Len(got) \in Nat /\ Len(kept) \in Nat
      /\ DOMAIN got = 1..Len(got) /\ DOMAIN kept = 1..Len(kept)
      /\ \A k \in DOMAIN (got \o kept) :
            (got \o kept)[k] = IF k <= Len(got) THEN got[k] ELSE kept[k - Len(got)]
  BY <1>3
<1>7. \A k \in DOMAIN got : k \in DOMAIN (got \o kept) /\ (got \o kept)[k] = got[k]
  BY <1>6
<1>8. \A k \in DOMAIN kept : /\ Len(got) + k \in DOMAIN (got \o kept)
                             /\ (got \o kept)[Len(got) + k] = kept[k]
  BY <1>6
<1>9. \A k \in DOMAIN (got \o kept) : \/ k \in DOMAIN got /\ (got \o kept)[k] = got[k]
                                      \/ \E j \in DOMAIN kept : (got \o kept)[k] = kept[j]
  <2> TAKE k \in DOMAIN (got \o kept)
  <2>1. CASE k <= Len(got)
    BY <1>6, <2>1
  <2>2. CASE ~(k <= Len(got))
    <3>1. k - Len(got) \in DOMAIN kept
      BY <1>6, <2>2
    <3>2. QED
      BY <1>6, <2>2, <3>1
  <2>3. QED
    BY <2>1, <2>2
<1>10. RowIds(local) \subseteq RowIds(Merge(got, local))
  <2>1. ASSUME NEW i \in DOMAIN local PROVE local[i].id \in RowIds(got \o kept)
    <3>1. CASE local[i].id \in RowIds(got)
      BY <1>7, <3>1 DEF RowIds
    <3>2. CASE local[i].id \notin RowIds(got)
      <4>1. PICK k \in DOMAIN kept : kept[k].id = local[i].id
        BY <1>3, <1>4, <3>2
      <4>2. QED
        BY <1>8, <4>1 DEF RowIds
    <3>3. QED
      BY <3>1, <3>2
  <2>2. QED
    BY <1>1, <2>1 DEF RowIds
<1>11. Home(got) /\ Home(local) => Home(Merge(got, local))
  <2>1. First \subseteq DOMAIN local
    BY <1>2
  <2>2. Home(local) => Home(kept)
    BY <1>3, <2>1 DEF Home
  <2>3. QED
    BY <1>1, <1>9, <2>2 DEF Home
<1>12. QED
  BY <1>5, <1>10, <1>11

LEMMA EditedRows ==
  ASSUME NEW rows \in Seq(Row), NEW i, NEW field, NEW value,
         \/ field = "script" /\ value \in Scripts
         \/ field \in {"transfer", "routing"} /\ value \in SUBSET Items
  PROVE  /\ Edited(rows, i, field, value) \in Seq(Row)
         /\ SameIds(Edited(rows, i, field, value), rows)
         /\ Home(rows) /\ (field = "script" \/ value \subseteq {Default, i})
               => Home(Edited(rows, i, field, value))
<1> DEFINE new == Edited(rows, i, field, value)
<1>1. /\ Len(rows) \in Nat /\ DOMAIN rows = 1..Len(rows) /\ DOMAIN new = 1..Len(rows)
      /\ \A k \in DOMAIN rows : rows[k] \in Row
  BY DEF Edited
<1>2. \A k \in DOMAIN rows : new[k] = IF rows[k].id = i THEN [rows[k] EXCEPT ![field] = value]
                                                         ELSE rows[k]
  BY DEF Edited
<1>3. ASSUME NEW r \in Row
      PROVE  LET e == [r EXCEPT ![field] = value] IN
             /\ e \in Row /\ e.id = r.id
             /\ e.transfer = IF field = "transfer" THEN value ELSE r.transfer
             /\ e.routing = IF field = "routing" THEN value ELSE r.routing
  <2>1. CASE field = "script" /\ value \in Scripts
    BY <2>1 DEF Row
  <2>2. CASE field = "transfer" /\ value \in SUBSET Items
    BY <2>2 DEF Row
  <2>3. CASE field = "routing" /\ value \in SUBSET Items
    BY <2>3 DEF Row
  <2>4. QED
    BY <2>1, <2>2, <2>3
<1> HIDE DEF new
<1>4. \A k \in DOMAIN rows : new[k] \in Row /\ new[k].id = rows[k].id
  BY <1>1, <1>2, <1>3
<1>5. new \in Seq(Row) /\ SameIds(new, rows)
  BY <1>1, <1>4 DEF SameIds, Edited, new
<1>6. ASSUME Home(rows), field = "script" \/ value \subseteq {Default, i} PROVE Home(new)
  <2>1. SUFFICES ASSUME NEW k \in DOMAIN rows
                 PROVE  new[k].transfer \cup new[k].routing \subseteq {Default, new[k].id}
    BY <1>1 DEF Home
  <2>2. rows[k].transfer \cup rows[k].routing \subseteq {Default, rows[k].id}
    BY <1>6 DEF Home
  <2>3. CASE rows[k].id = i
    <3>1. new[k] = [rows[k] EXCEPT ![field] = value] /\ rows[k] \in Row
      BY <1>1, <1>2, <2>3
    <3>2. /\ new[k].id = i
          /\ new[k].transfer = IF field = "transfer" THEN value ELSE rows[k].transfer
          /\ new[k].routing = IF field = "routing" THEN value ELSE rows[k].routing
      BY <1>3, <2>3, <3>1
    <3>3. QED
      BY <1>6, <2>2, <2>3, <3>2
  <2>4. CASE rows[k].id # i
    BY <1>2, <2>2, <2>4
  <2>5. QED
    BY <2>3, <2>4
<1>7. QED
  BY <1>5, <1>6 DEF new

LEMMA ToggledRows ==
  ASSUME NEW rows \in Seq(Row), NEW i
  PROVE  /\ Toggled(rows, i) \in Seq(Row) /\ SameIds(Toggled(rows, i), rows)
         /\ Home(rows) => Home(Toggled(rows, i))
<1> DEFINE new == Toggled(rows, i)
           turned(r) == [r EXCEPT !.status = IF @ = "active" THEN "paused" ELSE "active"]
<1>1. /\ Len(rows) \in Nat /\ DOMAIN rows = 1..Len(rows) /\ DOMAIN new = 1..Len(rows)
      /\ \A k \in DOMAIN rows : rows[k] \in Row
  BY DEF Toggled
<1>2. \A k \in DOMAIN rows : new[k] = IF rows[k].id = i THEN turned(rows[k]) ELSE rows[k]
  BY DEF Toggled
<1>3. \A r \in Row : /\ turned(r) \in Row /\ turned(r).id = r.id
                     /\ turned(r).transfer = r.transfer /\ turned(r).routing = r.routing
  BY DEF Row
<1> HIDE DEF new, turned
<1>4. \A k \in DOMAIN rows : /\ new[k] \in Row /\ new[k].id = rows[k].id
                             /\ new[k].transfer = rows[k].transfer
                             /\ new[k].routing = rows[k].routing
  BY <1>1, <1>2, <1>3
<1>5. new \in Seq(Row) /\ SameIds(new, rows)
  BY <1>1, <1>4 DEF SameIds, Toggled, new
<1>6. Home(rows) => Home(new)
  BY <1>1, <1>4 DEF Home
<1>7. QED
  BY <1>5, <1>6 DEF new

LEMMA BoundRows ==
  ASSUME NEW rows \in Seq(Row), NEW i, NEW name, NEW script \in Scripts
  PROVE  /\ Bound(rows, i, name, script) \in Seq(Row)
         /\ SameIds(Bound(rows, i, name, script), rows)
         /\ Home(rows) => Home(Bound(rows, i, name, script))
<1> DEFINE new == Bound(rows, i, name, script)
           bound(r) == [r EXCEPT !.script = script]
<1>1. /\ Len(rows) \in Nat /\ DOMAIN rows = 1..Len(rows) /\ DOMAIN new = 1..Len(rows)
      /\ \A k \in DOMAIN rows : rows[k] \in Row
  BY DEF Bound
<1>2. \A k \in DOMAIN rows : new[k] = bound(rows[k]) \/ new[k] = rows[k]
  BY DEF Bound
<1>3. \A r \in Row : /\ bound(r) \in Row /\ bound(r).id = r.id
                     /\ bound(r).transfer = r.transfer /\ bound(r).routing = r.routing
  BY DEF Row
<1> HIDE DEF new, bound
<1>4. \A k \in DOMAIN rows : /\ new[k] \in Row /\ new[k].id = rows[k].id
                             /\ new[k].transfer = rows[k].transfer
                             /\ new[k].routing = rows[k].routing
  BY <1>1, <1>2, <1>3
<1>5. new \in Seq(Row) /\ SameIds(new, rows)
  BY <1>1, <1>4 DEF SameIds, Bound, new
<1>6. Home(rows) => Home(new)
  BY <1>1, <1>4 DEF Home
<1>7. QED
  BY <1>5, <1>6 DEF new

\* A binding that finds no second row of its campaign's name edits the rows
\* that the screen's updater edits.
LEMMA BoundIsEdited ==
  ASSUME NEW rows \in Seq(Row), NEW i, NEW name, NEW script,
         ~ \E k \in DOMAIN rows : rows[k].name = name /\ rows[k].id # i
  PROVE  Bound(rows, i, name, script) = Edited(rows, i, "script", script)
BY DEF Bound, Edited

LEMMA NewRows ==
  ASSUME NEW rows \in Seq(Row), NEW i \in Ids, NEW name \in Ids
  PROVE  LET new == <<NewRow(i, name)>> \o rows IN
         /\ new \in Seq(Row) /\ DOMAIN new = 1..(Len(rows) + 1)
         /\ new[1].id = i /\ \A k \in DOMAIN rows : new[k + 1] = rows[k]
         /\ RowIds(new) = RowIds(rows) \cup {i}
         /\ Home(rows) => Home(new)
<1> DEFINE new == <<NewRow(i, name)>> \o rows
<1>1. NewRow(i, name) \in Row /\ NewRow(i, name).id = i
      /\ NewRow(i, name).transfer = {} /\ NewRow(i, name).routing = {}
  BY DEF NewRow, Row, Scripts
<1>2. /\ new \in Seq(Row) /\ Len(rows) \in Nat /\ DOMAIN rows = 1..Len(rows)
      /\ DOMAIN new = 1..(Len(rows) + 1) /\ new[1] = NewRow(i, name)
  BY <1>1
<1>3. \A k \in DOMAIN rows : k + 1 \in DOMAIN new /\ new[k + 1] = rows[k]
  BY <1>1, <1>2
<1>4. \A k \in DOMAIN new : k = 1 \/ \E j \in DOMAIN rows : new[k] = rows[j]
  <2> SUFFICES ASSUME NEW k \in DOMAIN new, k # 1 PROVE \E j \in DOMAIN rows : new[k] = rows[j]
    OBVIOUS
  <2>1. k - 1 \in DOMAIN rows /\ (k - 1) + 1 = k
    BY <1>2
  <2>2. QED
    BY <1>3, <2>1
<1>5. 1 \in DOMAIN new
  BY <1>2
<1> HIDE DEF new
<1>6. RowIds(new) = RowIds(rows) \cup {i}
  BY <1>1, <1>2, <1>3, <1>4, <1>5 DEF RowIds
<1>7. Home(rows) => Home(new)
  BY <1>1, <1>2, <1>4 DEF Home
<1>8. QED
  BY <1>1, <1>2, <1>3, <1>6, <1>7 DEF new

\* What is left of a list.
LEMMA RestRows ==
  ASSUME NEW rows \in Seq(Row), NEW at, at \subseteq DOMAIN rows
  PROVE  /\ Among(rows, at) \in Seq(Row)
         /\ Home(rows) => Home(Among(rows, at))
<1>1. Among(rows, at) \in Seq(Row)
  BY AmongRows
<1>2. \A k \in DOMAIN Among(rows, at) : \E i \in at : Among(rows, at)[k] = rows[i]
  BY AmongRows
<1>3. QED
  BY <1>1, <1>2 DEF Home

\* The campaign on the page is one of the list, and the same one when all rows
\* keep their ids.
LEMMA SelectedRow ==
  ASSUME NEW rows \in Seq(Row), rows # <<>>, NEW p
  PROVE  /\ \E k \in DOMAIN rows : SelectedCampaign(rows, p) = rows[k]
         /\ \A new : SameIds(new, rows)
               => SelectedCampaign(new, p).id = SelectedCampaign(rows, p).id
<1> DEFINE match == {k \in DOMAIN rows : rows[k].id = p.camp}
           First(m) == IF m = {} THEN 1 ELSE CHOOSE k \in m : \A j \in m : k <= j
           at == First(match)
<1>1. SelectedCampaign(rows, p) = rows[at]
  BY DEF SelectedCampaign
<1>2. at \in DOMAIN rows
  <2>1. CASE match = {}
    BY <2>1
  <2>2. CASE match # {}
    <3>1. match \subseteq Nat
      OBVIOUS
    <3>2. \E k \in match : \A j \in match : k <= j
      <4> HIDE DEF match
      <4>1. QED
        BY <2>2, <3>1, LeastNumber
    <3>3. QED
      BY <2>2, <3>2
  <2>3. QED
    BY <2>1, <2>2
<1>3. ASSUME NEW new, SameIds(new, rows)
      PROVE  SelectedCampaign(new, p).id = SelectedCampaign(rows, p).id
  <2>1. {k \in DOMAIN new : new[k].id = p.camp} = match
    BY <1>3 DEF SameIds
  <2>2. SelectedCampaign(new, p) = new[First({k \in DOMAIN new : new[k].id = p.camp})]
    BY DEF SelectedCampaign
  <2> HIDE DEF First
  <2>3. QED
    BY <1>1, <1>2, <1>3, <2>1, <2>2 DEF SameIds
<1>4. QED
  BY <1>1, <1>2, <1>3

-----------------------------------------------------------------------------
(* The page and its form.                                                   *)

FormOK(f, rows, p) ==
  /\ p.at \notin Stateful \/ rows = <<>> => f = None
  /\ p.at = "script" /\ rows # <<>> => f \subseteq Slots
  /\ p.at \in {"transfer", "routing"} /\ rows # <<>> => f \subseteq Items

\* The items of an open form are those of its page, or the default ones.
FormHome(f, rows, p) ==
  p.at \in {"transfer", "routing"} /\ rows # <<>> =>
    f \subseteq {Default, SelectedCampaign(rows, p).id}

LEMMA MountingOK ==
  ASSUME NEW rows \in Seq(Row), NEW p \in Page
  PROVE  /\ FormOK(Mounting(rows, p), rows, p)
         /\ Home(rows) => FormHome(Mounting(rows, p), rows, p)
<1> DEFINE form0 == Mounting(rows, p)
           row == SelectedCampaign(rows, p)
<1>1. p.at \in Subtabs \cup Panels
  BY DEF Page
<1>2. CASE p.at \notin Stateful
  <2>1. form0 = None
    BY <1>2 DEF Mounting
  <2>2. QED
    BY <1>2, <2>1 DEF FormOK, FormHome, Stateful
<1>3. CASE p.at \in Stateful /\ rows = <<>>
  <2>1. form0 = None
    BY <1>3 DEF Mounting, Mounted, Stateful, Subtabs
  <2>2. QED
    BY <1>3, <2>1 DEF FormOK, FormHome
<1>4. CASE p.at = "script" /\ rows # <<>>
  <2>1. form0 = {}
    BY <1>4 DEF Mounting, Mounted, Stateful, Panels
  <2>2. QED
    BY <1>4, <2>1 DEF FormOK, FormHome, Stateful
<1>5. CASE p.at \in {"transfer", "routing"} /\ rows # <<>>
  <2>1. form0 = InitialItems(row, p.at)
    BY <1>5 DEF Mounting, Mounted, Stateful, Panels
  <2>2. PICK k \in DOMAIN rows : row = rows[k]
    BY <1>5, SelectedRow
  <2>3. row \in Row
    BY <2>2
  <2>4. form0 = {Default} \/ form0 = row.transfer \/ form0 = row.routing
    BY <1>5, <2>1 DEF InitialItems
  <2>5. row.transfer \subseteq Items /\ row.routing \subseteq Items /\ Default \in Items
    BY <2>3 DEF Row, Items
  <2>6. form0 \subseteq Items
    BY <2>4, <2>5
  <2>7. Home(rows) => form0 \subseteq {Default, row.id}
    BY <2>2, <2>4 DEF Home
  <2>8. QED
    BY <1>5, <2>6, <2>7 DEF FormOK, FormHome, Stateful
<1>6. QED
  BY <1>1, <1>2, <1>3, <1>4, <1>5 DEF Stateful

\* What Render leaves on the screen.
LEMMA Rendered ==
  ASSUME NEW rows \in Seq(Row), NEW p \in Page, Render(rows, p),
         shown \in Seq(Row), page \in Page, FormOK(form, shown, page), strayed \in BOOLEAN
  PROVE  /\ shown' = rows /\ page' = p
         /\ FormOK(form, shown, page)'
         /\ strayed' \in BOOLEAN /\ (strayed => strayed')
         /\ Home(rows) /\ FormHome(form, shown, page) /\ ~strayed' => FormHome(form, shown, page)'
<1> DEFINE stays == page.at = p.at /\ form # None /\ Mounting(rows, p) # None
<1>1. /\ shown' = rows /\ page' = p
      /\ form' = IF stays THEN form ELSE Mounting(rows, p)
      /\ strayed' = \/ strayed
                    \/ /\ stays /\ p.at # "script"
                       /\ SelectedCampaign(rows, p).id # SelectedCampaign(shown, page).id
  BY DEF Render
<1>2. strayed' \in BOOLEAN /\ (strayed => strayed')
  BY <1>1
<1>3. CASE ~stays
  BY <1>1, <1>2, <1>3, MountingOK
<1>4. CASE stays
  <2>1. form' = form
    BY <1>1, <1>4
  <2>2. p.at \in Stateful /\ rows # <<>>
    BY <1>4 DEF Mounting, Mounted, Stateful, Subtabs
  <2>3. shown # <<>>
    <3>1. shown = <<>> => form = None
      BY DEF FormOK
    <3>2. QED
      BY <1>4, <3>1
  <2>4. FormOK(form, rows, p)
    BY <1>4, <2>2, <2>3 DEF FormOK
  <2>5. FormHome(form, shown, page) /\ ~strayed' => FormHome(form, rows, p)
    BY <1>1, <1>4, <2>3 DEF FormHome
  <2>6. QED
    BY <1>1, <1>2, <2>1, <2>4, <2>5
<1>5. QED
  BY <1>3, <1>4

-----------------------------------------------------------------------------
(* The invariant.                                                           *)

Call == [kind : {"idle", "fetch", "create", "bind"}, phase : {"idle", "sent", "served"},
         ok : BOOLEAN, camp : Ids \cup {None}, what : Ids \cup {None},
         local : Seq(Row), got : Seq(Row), desk : {"here", "left", "gone"}]

\* A creation and a binding know what they are about; only a write that was
\* sent outlives the page, and only until it is served.
CallOK(c) ==
  /\ c.kind = "idle" <=> c.phase = "idle"
  /\ c.kind = "create" => c.what \in Temps /\ (c.phase = "served" /\ c.ok => c.camp \in Ids)
  /\ c.kind = "bind" => c.camp \in Ids /\ c.what \in Ids
  /\ c.phase = "served" \/ c.kind = "fetch" => c.desk # "gone"

NetOK == net \in [Slots -> Call] /\ \A s \in Slots : CallOK(net[s])
Lists == server \in Seq(Row) /\ shown \in Seq(Row) /\ saved \in Seq(Row)
ServerOK == /\ RowIds(server) \cap Temps = {}
            /\ \A j, k \in DOMAIN server : server[j].id = server[k].id => j = k
Others == /\ rosters \in [Ids -> {None, "own", "edited"}]
          /\ clashed \in BOOLEAN /\ strayed \in BOOLEAN
          /\ person \in [parts : {v.parts : v \in Visits}, left : Nat] /\ lost \in 0..MaxLost

Typed == /\ Lists /\ ServerOK /\ NetOK /\ Others
         /\ page \in Page /\ FormOK(form, shown, page)

\* The server has no say in pools and routes: they are the screen's, its copy's
\* and those of the lists that calls carry.
HomeInv ==
  /\ Home(server)
  /\ ~strayed => /\ Home(shown) /\ Home(saved) /\ FormHome(form, shown, page)
                 /\ \A s \in Slots : Home(net[s].local) /\ Home(net[s].got)

\* As long as nothing crossed a fetch, no call of an earlier visit is left, and
\* there is one fetch at most, which began with what is stored and shown.
SyncInv ==
  ~clashed =>
    /\ saved = shown
    /\ \A s \in Slots : net[s].desk # "left"
    /\ \A s \in Slots : net[s].kind = "fetch" =>
          net[s].local = saved /\ \A r \in Slots : net[r].kind = "fetch" => r = s

AllInv == Typed /\ HomeInv /\ SyncInv

LEMMA TypedIsTypeOK == Typed => TypeOK
<1> SUFFICES ASSUME Typed PROVE TypeOK
  OBVIOUS
<1>1. {server, shown, saved} \subseteq Seq(Row) /\ {clashed, strayed} \subseteq BOOLEAN
  BY DEF Typed, Lists, Others
<1>2. DOMAIN net = Slots /\ \A s \in Slots : DOMAIN net[s] = DOMAIN Idle
  BY DEF Typed, NetOK, Call, Idle
<1>3. QED
  BY <1>1, <1>2 DEF Typed, ServerOK, Others, FormOK, TypeOK

\* A slot takes another call.
LEMMA SlotTaken ==
  ASSUME NetOK, NEW s \in Slots, NEW c \in Call, CallOK(c), net' = [net EXCEPT ![s] = c]
  PROVE  /\ NetOK' /\ net'[s] = c
         /\ \A r \in Slots : r # s => net'[r] = net[r]
BY DEF NetOK

LEMMA IdleCall == Idle \in Call /\ CallOK(Idle) /\ Home(Idle.local) /\ Home(Idle.got)
                  /\ Idle.kind = "idle" /\ Idle.desk = "here"
BY DEF Idle, Call, CallOK, Home

LEMMA FetchCall ==
  ASSUME NEW local \in Seq(Row), NEW next \in Ids \cup {None}
  PROVE  LET c == Fetch(local, next) IN
         /\ c \in Call /\ CallOK(c) /\ c.kind = "fetch" /\ c.local = local /\ c.desk = "here"
         /\ Home(c.got)
<1> DEFINE c == Fetch(local, next)
<1>1. /\ c.kind = "fetch" /\ c.phase = "sent" /\ c.local = local /\ c.camp = next
      /\ c.desk = "here" /\ c.got = <<>>
  BY DEF Fetch, Idle
<1>2. Idle \in Call
  BY IdleCall
<1>3. c \in Call
  BY <1>2 DEF Fetch, Call
<1>4. Home(<<>>)
  BY DEF Home
<1>5. QED
  BY <1>1, <1>3, <1>4 DEF CallOK

-----------------------------------------------------------------------------
(* What most steps leave as it was.                                         *)

\* No call turns into a fetch, and none becomes one of an earlier visit.
NoNewFetch ==
  \A r \in Slots :
    /\ net'[r].desk = "left" => net[r].desk = "left"
    /\ net'[r].kind = "fetch" => net[r].kind = "fetch" /\ net'[r].local = net[r].local

\* The lists that calls carry are those they carried.
SameLists ==
  \A r \in Slots : Home(net[r].local) /\ Home(net[r].got) => Home(net'[r].local) /\ Home(net'[r].got)

LEMMA SyncStays ==
  ASSUME SyncInv, NoNewFetch, saved' = saved, shown' = shown, clashed => clashed'
  PROVE  SyncInv'
BY DEF SyncInv, NoNewFetch

\* An edit that crosses no fetch leaves none under way.
LEMMA SyncEdited ==
  ASSUME SyncInv, NoNewFetch, Crosses, saved' = shown'
  PROVE  SyncInv'
<1> SUFFICES ASSUME ~clashed' PROVE SyncInv'
  BY DEF SyncInv
<1>1. ~clashed /\ \A r \in Slots : net[r].kind # "fetch"
  BY DEF Crosses, Fetching
<1>2. \A r \in Slots : net'[r].kind # "fetch" /\ net'[r].desk # "left"
  BY <1>1 DEF SyncInv, NoNewFetch
<1>3. QED
  BY <1>2 DEF SyncInv

LEMMA HomeStays ==
  ASSUME HomeInv, SameLists, server' = server, saved' = saved,
         shown' = shown, page' = page, form' = form, strayed' = strayed
  PROVE  HomeInv'
BY DEF HomeInv, SameLists, Home, FormHome

LEMMA SameCalls == ASSUME net' = net PROVE NoNewFetch /\ SameLists
BY DEF NoNewFetch, SameLists

\* A slot is given up, or takes a call that is no fetch and carries no list.
LEMMA QuietCall ==
  ASSUME NetOK, NEW s \in Slots, NEW c \in Call, CallOK(c), net' = [net EXCEPT ![s] = c],
         c.kind # "fetch", c.desk = "here", Home(c.local), Home(c.got)
  PROVE  NetOK' /\ NoNewFetch /\ SameLists
BY SlotTaken DEF NoNewFetch, SameLists

LEMMA GivenUp ==
  ASSUME NetOK, NEW s \in Slots, net' = [net EXCEPT ![s] = Idle]
  PROVE  NetOK' /\ NoNewFetch /\ SameLists
BY IdleCall, QuietCall

LEMMA Started ==
  ASSUME NetOK, NEW c \in Call, CallOK(c), Start(c),
         c.kind # "fetch", c.desk = "here", Home(c.local), Home(c.got)
  PROVE  NetOK' /\ NoNewFetch /\ SameLists
<1>1. PICK s \in Slots : net' = [net EXCEPT ![s] = c]
  BY DEF Start, Free
<1>2. QED
  BY <1>1, QuietCall

-----------------------------------------------------------------------------
(* The server and the network.                                              *)

LEMMA AnswerOK ==
  ASSUME NetOK, NEW s \in Slots, NEW ok \in BOOLEAN, NEW got \in Seq(Row), NEW i,
         net[s].phase = "sent", net[s].kind = "create" /\ ok => i \in Ids, Home(got),
         net' = [net EXCEPT ![s] =
             IF net[s].desk = "gone" THEN Idle
             ELSE [net[s] EXCEPT !.phase = "served", !.ok = ok, !.got = got,
                                 !.camp = IF net[s].kind = "create" /\ ok THEN i ELSE @]]
  PROVE  NetOK' /\ NoNewFetch /\ SameLists
<1> DEFINE c == net[s]
           camp == IF c.kind = "create" /\ ok THEN i ELSE c.camp
           d == [c EXCEPT !.phase = "served", !.ok = ok, !.got = got, !.camp = camp]
<1>1. CASE c.desk = "gone"
  <2>1. net' = [net EXCEPT ![s] = Idle]
    BY <1>1
  <2>2. QED
    BY <2>1, GivenUp
<1>2. CASE c.desk # "gone"
  <2>1. net' = [net EXCEPT ![s] = d]
    BY <1>2
  <2>2. c \in Call /\ CallOK(c)
    BY DEF NetOK
  <2>3. camp \in Ids \cup {None}
    BY <2>2 DEF Call
  <2> HIDE DEF camp
  <2>4. /\ d \in Call /\ d.kind = c.kind /\ d.phase = "served" /\ d.ok = ok /\ d.got = got
        /\ d.camp = camp /\ d.what = c.what /\ d.local = c.local /\ d.desk = c.desk
    BY <2>2, <2>3 DEF Call
  <2>5. CallOK(d)
    BY <1>2, <2>2, <2>4 DEF CallOK, camp
  <2> HIDE DEF c, d
  <2>6. NetOK' /\ net'[s] = d /\ \A r \in Slots : r # s => net'[r] = net[r]
    BY <2>1, <2>4, <2>5, SlotTaken
  <2>7. NoNewFetch /\ SameLists
    BY <2>4, <2>6 DEF NoNewFetch, SameLists, c
  <2>8. QED
    BY <2>6, <2>7
<1>3. QED
  BY <1>1, <1>2

LEMMA ServeInv == ASSUME AllInv, NEW s \in Slots, Serve(s) PROVE AllInv'
<1> DEFINE c == net[s]
           answer(ok, got, i) ==
             net' = [net EXCEPT ![s] =
                 IF c.desk = "gone" THEN Idle
                 ELSE [c EXCEPT !.phase = "served", !.ok = ok, !.got = got,
                                !.camp = IF c.kind = "create" /\ ok THEN i ELSE @]]
<1>1. /\ c.phase = "sent"
      /\ UNCHANGED <<shown, saved, rosters, page, form, clashed, strayed, person, lost>>
  BY DEF Serve
<1>2. \/ c.kind = "fetch" /\ answer(TRUE, server, None) /\ UNCHANGED server
      \/ /\ c.kind = "create"
         /\ \E i \in New \ RowIds(server) :
               server' = <<NewRow(i, c.what)>> \o server /\ answer(TRUE, <<>>, i)
      \/ /\ c.kind = "bind" /\ c.camp \in RowIds(server)
         /\ server' = Edited(server, c.camp, "script", Uploaded) /\ answer(TRUE, <<>>, None)
      \/ c.kind # "fetch" /\ answer(FALSE, <<>>, None) /\ UNCHANGED server
  BY DEF Serve
<1>3. /\ NetOK /\ Typed /\ HomeInv /\ SyncInv /\ server \in Seq(Row) /\ Home(server) /\ ServerOK
      /\ c \in Call /\ CallOK(c) /\ <<>> \in Seq(Row) /\ Home(<<>>)
  BY DEF AllInv, Typed, Lists, HomeInv, NetOK, Home
<1>4. /\ NetOK' /\ NoNewFetch /\ SameLists
      /\ server' \in Seq(Row) /\ ServerOK' /\ Home(server)'
  <2>1. CASE c.kind = "fetch" /\ answer(TRUE, server, None) /\ UNCHANGED server
    <3>1. NetOK' /\ NoNewFetch /\ SameLists
      BY <1>1, <1>3, <2>1, AnswerOK
    <3>2. QED
      BY <1>3, <2>1, <3>1 DEF ServerOK, Home
  <2>2. ASSUME NEW i \in New \ RowIds(server), c.kind = "create",
               server' = <<NewRow(i, c.what)>> \o server, answer(TRUE, <<>>, i)
        PROVE  NetOK' /\ NoNewFetch /\ SameLists /\ server' \in Seq(Row) /\ ServerOK' /\ Home(server)'
    <3>1. i \in Ids /\ c.what \in Ids /\ i \notin Temps
      BY <1>3, <2>2, IdsAssumption DEF Ids, CallOK
    <3>2. NetOK' /\ NoNewFetch /\ SameLists
      BY <1>1, <1>3, <2>2, <3>1, AnswerOK
    <3>3. /\ server' \in Seq(Row) /\ DOMAIN server' = 1..(Len(server) + 1) /\ server'[1].id = i
          /\ \A k \in DOMAIN server : server'[k + 1] = server[k]
          /\ RowIds(server') = RowIds(server) \cup {i} /\ Home(server')
      BY <1>3, <2>2, <3>1, NewRows
    <3>4. ASSUME NEW j \in DOMAIN server', NEW k \in DOMAIN server',
                 server'[j].id = server'[k].id
          PROVE  j = k
      <4>1. /\ Len(server) \in Nat /\ DOMAIN server = 1..Len(server)
            /\ j \in 1..(Len(server) + 1) /\ k \in 1..(Len(server) + 1)
        BY <1>3, <3>3
      <4>2. /\ j # 1 => j - 1 \in DOMAIN server /\ (j - 1) + 1 = j
            /\ k # 1 => k - 1 \in DOMAIN server /\ (k - 1) + 1 = k
        BY <4>1
      <4>3. /\ j # 1 => server'[j].id = server[j - 1].id
            /\ k # 1 => server'[k].id = server[k - 1].id
        BY <3>3, <4>2
      <4>4. \A l \in DOMAIN server : server[l].id # i
        BY <2>2 DEF RowIds
      <4>5. CASE j = 1 \/ k = 1
        BY <3>3, <3>4, <4>2, <4>3, <4>4, <4>5
      <4>6. CASE j # 1 /\ k # 1
        <5>1. j - 1 = k - 1
          BY <1>3, <3>4, <4>2, <4>3, <4>6 DEF ServerOK
        <5>2. QED
          BY <4>1, <5>1
      <4>7. QED
        BY <4>5, <4>6
    <3>5. ServerOK'
      BY <1>3, <3>1, <3>3, <3>4 DEF ServerOK
    <3>6. QED
      BY <3>2, <3>3, <3>5
  <2>3. CASE /\ c.kind = "bind" /\ answer(TRUE, <<>>, None)
             /\ server' = Edited(server, c.camp, "script", Uploaded)
    <3>1. NetOK' /\ NoNewFetch /\ SameLists
      BY <1>1, <1>3, <2>3, AnswerOK
    <3>2. server' \in Seq(Row) /\ SameIds(server', server) /\ Home(server')
      BY <1>3, <2>3, EditedRows DEF Scripts
    <3>3. ServerOK'
      BY <1>3, <3>2, SameRowIds DEF ServerOK, SameIds
    <3>4. QED
      BY <3>1, <3>2, <3>3
  <2>4. CASE c.kind # "fetch" /\ answer(FALSE, <<>>, None) /\ UNCHANGED server
    <3>1. NetOK' /\ NoNewFetch /\ SameLists
      BY <1>1, <1>3, <2>4, AnswerOK
    <3>2. QED
      BY <1>3, <2>4, <3>1 DEF ServerOK, Home
  <2>5. QED
    BY <1>2, <2>1, <2>2, <2>3, <2>4
<1>5. Typed'
  BY <1>1, <1>3, <1>4 DEF Typed, Lists, Others, FormOK
<1>6. HomeInv'
  BY <1>1, <1>3, <1>4 DEF HomeInv, Home, FormHome, SameLists
<1>7. SyncInv'
  BY <1>1, <1>3, <1>4, SyncStays
<1>8. QED
  BY <1>5, <1>6, <1>7 DEF AllInv

LEMMA LoseInv == ASSUME AllInv, NEW s \in Slots, Lose(s) PROVE AllInv'
<1> DEFINE c == net[s]
           d == [c EXCEPT !.phase = "served", !.ok = FALSE, !.got = <<>>,
                          !.camp = IF c.kind = "create" THEN None ELSE @]
<1>1. /\ NetOK /\ Typed /\ HomeInv /\ SyncInv /\ c \in Call /\ CallOK(c)
      /\ <<>> \in Seq(Row) /\ Home(<<>>)
  BY DEF AllInv, Typed, NetOK, Home
<1>2. /\ (c.phase = "sent" /\ c.desk # "gone") \/ (c.phase = "served" /\ c.ok)
      /\ lost < MaxLost /\ lost' = lost + 1
      /\ UNCHANGED <<server, shown, saved, rosters, page, form, clashed, strayed, person>>
  BY DEF Lose
<1>3. net' = [net EXCEPT ![s] = d]
  <2>1. net' = [net EXCEPT ![s].phase = "served", ![s].ok = FALSE, ![s].got = <<>>,
                           ![s].camp = IF net[s].kind = "create" THEN None ELSE @]
    BY DEF Lose
  <2>2. net \in [Slots -> Call]
    BY <1>1 DEF NetOK
  <2>3. QED
    BY <2>1, <2>2 DEF Call
<1>4. /\ d \in Call /\ d.kind = c.kind /\ d.phase = "served" /\ d.ok = FALSE /\ d.got = <<>>
      /\ d.what = c.what /\ d.local = c.local /\ d.desk = c.desk
      /\ c.kind # "create" => d.camp = c.camp
  BY <1>1 DEF Call
<1>5. CallOK(d)
  BY <1>1, <1>2, <1>4 DEF CallOK
<1> HIDE DEF c, d
<1>6. NetOK' /\ net'[s] = d /\ \A r \in Slots : r # s => net'[r] = net[r]
  BY <1>1, <1>3, <1>4, <1>5, SlotTaken
<1>7. NoNewFetch /\ SameLists
  BY <1>1, <1>4, <1>6 DEF NoNewFetch, SameLists, c
<1>8. lost' \in 0..MaxLost
  BY <1>1, <1>2, BoundsAssumption DEF Typed, Others
<1>9. Typed'
  BY <1>1, <1>2, <1>6, <1>8 DEF Typed, Lists, ServerOK, Others, FormOK
<1>10. HomeInv'
  BY <1>1, <1>2, <1>7, HomeStays
<1>11. SyncInv'
  BY <1>1, <1>2, <1>7, SyncStays
<1>12. QED
  BY <1>9, <1>10, <1>11 DEF AllInv

-----------------------------------------------------------------------------
(* The list and the new campaign.                                           *)

RestOK == /\ rosters \in [Ids -> {None, "own", "edited"}]
          /\ person \in [parts : {v.parts : v \in Visits}, left : Nat] /\ lost \in 0..MaxLost

LEMMA Clicked ==
  ASSUME Others, NEW part, Click(part)
  PROVE  (person \in [parts : {v.parts : v \in Visits}, left : Nat])'
<1>1. person.left - 1 \in Nat
  BY DEF Others, Click
<1>2. QED
  BY <1>1 DEF Others, Click

\* Another list, or another page, on the screen.
LEMMA RenderTyped ==
  ASSUME Typed, NEW rows \in Seq(Row), NEW p \in Page, Render(rows, p),
         server' = server, saved' \in Seq(Row), NetOK', RestOK', clashed' \in BOOLEAN
  PROVE  Typed' /\ shown' = rows /\ (strayed => strayed')
<1>1. /\ shown' = rows /\ page' = p /\ FormOK(form, shown, page)'
      /\ strayed' \in BOOLEAN /\ (strayed => strayed')
  BY Rendered DEF Typed, Lists, Others
<1>2. ServerOK'
  BY DEF Typed, ServerOK
<1>3. QED
  BY <1>1, <1>2 DEF Typed, Lists, Others, RestOK

LEMMA RenderHome ==
  ASSUME Typed, HomeInv, NEW rows \in Seq(Row), NEW p \in Page, Render(rows, p),
         server' = server, ~strayed' => Home(rows) /\ Home(saved'),
         ~strayed => \A r \in Slots : Home(net'[r].local) /\ Home(net'[r].got)
  PROVE  HomeInv'
<1>1. /\ shown' = rows /\ (strayed => strayed')
      /\ Home(rows) /\ FormHome(form, shown, page) /\ ~strayed' => FormHome(form, shown, page)'
  BY Rendered DEF Typed, Lists, Others
<1>2. QED
  BY <1>1 DEF HomeInv, Home

\* An edit of the screen and of storage.
LEMMA EditInv ==
  ASSUME AllInv, NEW rows \in Seq(Row), ~strayed => Home(rows), Edit(rows),
         NetOK', NoNewFetch, SameLists, RestOK', server' = server
  PROVE  AllInv' /\ shown' = rows
<1>1. /\ Typed /\ HomeInv /\ SyncInv /\ page \in Page
      /\ Render(rows, page) /\ saved' = shown' /\ Crosses
  BY DEF AllInv, Typed, Edit
<1>2. shown' = rows /\ (strayed => strayed')
  BY <1>1 DEF Render
<1>3. clashed' \in BOOLEAN
  BY <1>1 DEF Crosses, Fetching, Typed, Others
<1>4. Typed'
  BY <1>1, <1>2, <1>3, RenderTyped
<1>5. ~strayed => \A r \in Slots : Home(net'[r].local) /\ Home(net'[r].got)
  BY <1>1 DEF HomeInv, SameLists
<1>6. HomeInv'
  BY <1>1, <1>2, <1>5, RenderHome
<1>7. SyncInv'
  BY <1>1, SyncEdited
<1>8. QED
  BY <1>2, <1>4, <1>6, <1>7 DEF AllInv

LEMMA FetchAnsweredInv == ASSUME AllInv, NEW s \in Slots, FetchAnswered(s) PROVE AllInv'
<1> DEFINE c == net[s]
           merged == Merge(c.got, c.local)
           rows == CASE c.desk = "left" -> shown
                     [] c.desk = "here" /\ c.ok -> merged
                     [] OTHER -> IF c.local = <<>> THEN shown ELSE c.local
           p == IF c.camp = None THEN page ELSE DetailOf(c.camp)
<1>1. /\ Typed /\ HomeInv /\ SyncInv /\ NetOK /\ c \in Call /\ CallOK(c)
      /\ shown \in Seq(Row) /\ saved \in Seq(Row)
  BY DEF AllInv, Typed, Lists, NetOK
<1>2. /\ c.phase = "served" /\ c.kind = "fetch" /\ Render(rows, p)
      /\ saved' = (IF c.ok THEN merged ELSE saved) /\ net' = [net EXCEPT ![s] = Idle]
      /\ UNCHANGED <<server, rosters, clashed, person, lost>>
  BY DEF FetchAnswered, Arrives
<1>3. /\ c.got \in Seq(Row) /\ c.local \in Seq(Row) /\ c.camp \in Ids \cup {None}
      /\ c.desk \in {"here", "left"}
  BY <1>1, <1>2 DEF Call, CallOK
<1>4. merged \in Seq(Row) /\ (Home(c.got) /\ Home(c.local) => Home(merged))
  BY <1>3, MergedRows
<1> HIDE DEF merged
<1>5. rows = IF c.desk = "left" THEN shown ELSE IF c.ok THEN merged
             ELSE IF c.local = <<>> THEN shown ELSE c.local
  BY <1>3
<1> HIDE DEF rows
<1>6. rows \in Seq(Row) /\ p \in Page
  BY <1>1, <1>3, <1>4, <1>5 DEF Typed, Page, DetailOf, Panels
<1>7. NetOK' /\ NoNewFetch /\ SameLists
  BY <1>1, <1>2, GivenUp
<1>8. ~strayed => Home(rows) /\ Home(saved') /\ \A r \in Slots : Home(net'[r].local) /\ Home(net'[r].got)
  BY <1>1, <1>2, <1>4, <1>5, <1>7 DEF HomeInv, SameLists
<1>9. Typed'
  <2>1. saved' \in Seq(Row) /\ RestOK' /\ clashed' \in BOOLEAN
    BY <1>1, <1>2, <1>4 DEF RestOK, Typed, Others
  <2> HIDE DEF p
  <2>2. QED
    BY <1>1, <1>2, <1>6, <1>7, <2>1, RenderTyped
<1>10. HomeInv'
  <2>1. strayed => strayed'
    BY <1>2 DEF Render
  <2> HIDE DEF p
  <2>2. QED
    BY <1>1, <1>2, <1>6, <1>8, <2>1, RenderHome
<1>11. SyncInv'
  <2> SUFFICES ASSUME ~clashed' PROVE SyncInv'
    BY DEF SyncInv
  <2>1. /\ saved = shown /\ c.desk = "here" /\ c.local = saved
        /\ \A r \in Slots : net[r].kind = "fetch" => r = s
        /\ \A r \in Slots : net[r].desk # "left"
    BY <1>1, <1>2, <1>3 DEF SyncInv
  <2>2. shown' = rows
    BY <1>2 DEF Render
  <2>3. saved' = shown'
    BY <1>2, <1>5, <2>1, <2>2
  <2>4. \A r \in Slots : net'[r].kind # "fetch" /\ net'[r].desk # "left"
    BY <1>1, <1>2, <2>1, IdleCall DEF NetOK
  <2>5. QED
    BY <2>3, <2>4 DEF SyncInv
<1>12. QED
  BY <1>9, <1>10, <1>11 DEF AllInv

\* Another page over the same list.
LEMMA TurnInv ==
  ASSUME AllInv, NEW p \in Page, Render(shown, p), NetOK', NoNewFetch, SameLists,
         UNCHANGED <<server, saved, rosters, clashed, person, lost>>
  PROVE  AllInv'
<1>1. /\ Typed /\ HomeInv /\ SyncInv /\ shown \in Seq(Row) /\ saved' \in Seq(Row)
      /\ RestOK' /\ clashed' \in BOOLEAN
  BY DEF AllInv, Typed, Lists, Others, RestOK
<1>2. Typed' /\ shown' = shown /\ (strayed => strayed')
  BY <1>1, RenderTyped
<1>3. ~strayed => /\ Home(shown) /\ Home(saved')
                  /\ \A r \in Slots : Home(net'[r].local) /\ Home(net'[r].got)
  BY <1>1 DEF HomeInv, SameLists
<1>4. HomeInv'
  BY <1>1, <1>2, <1>3, RenderHome
<1>5. SyncInv'
  BY <1>1, <1>2, SyncStays
<1>6. QED
  BY <1>2, <1>4, <1>5 DEF AllInv

LEMMA NavigateInv == ASSUME AllInv, NEW p \in Page, Navigate(p) PROVE AllInv'
<1>1. NetOK' /\ NoNewFetch /\ SameLists
  BY SameCalls DEF Navigate, AllInv, Typed, NetOK
<1>2. QED
  BY <1>1, TurnInv DEF Navigate

LEMMA CreateCampaignInv == ASSUME AllInv, NEW t \in Temps, CreateCampaign(t) PROVE AllInv'
<1> DEFINE c == [Idle EXCEPT !.kind = "create", !.phase = "sent", !.what = t]
           rows == <<NewRow(t, t)>> \o shown
<1>1. /\ Typed /\ NetOK /\ shown \in Seq(Row) /\ Others /\ t \in Ids
  BY DEF AllInv, Typed, Lists, Ids
<1>2. /\ Click("new") /\ Edit(rows) /\ Start(c) /\ UNCHANGED <<server, rosters, lost>>
  BY DEF CreateCampaign
<1>3. c \in Call /\ CallOK(c) /\ c.kind # "fetch" /\ c.desk = "here" /\ Home(c.local) /\ Home(c.got)
  <2>1. Idle \in Call /\ Home(<<>>)
    BY IdleCall DEF Home
  <2>2. QED
    BY <1>1, <2>1 DEF Call, CallOK, Idle
<1>4. rows \in Seq(Row) /\ (Home(shown) => Home(rows))
  BY <1>1, NewRows
<1> HIDE DEF c, rows
<1>5. NetOK' /\ NoNewFetch /\ SameLists
  BY <1>1, <1>2, <1>3, Started
<1>6. RestOK'
  BY <1>1, <1>2, Clicked DEF Others, RestOK
<1>7. ~strayed => Home(rows)
  BY <1>4 DEF AllInv, HomeInv
<1>8. QED
  BY <1>2, <1>4, <1>5, <1>6, <1>7, EditInv

LEMMA CreateAnsweredInv == ASSUME AllInv, NEW s \in Slots, CreateAnswered(s) PROVE AllInv'
<1> DEFINE c == net[s]
           d == [Fetch(saved, c.camp) EXCEPT !.desk = c.desk]
<1>1. /\ Typed /\ HomeInv /\ SyncInv /\ NetOK /\ c \in Call /\ CallOK(c)
      /\ shown \in Seq(Row) /\ saved \in Seq(Row) /\ Others
  BY DEF AllInv, Typed, Lists, NetOK
<1>2. /\ c.phase = "served" /\ c.kind = "create"
      /\ UNCHANGED <<server, saved, rosters, person, lost>>
  BY DEF CreateAnswered, Arrives
<1>3. c.what \in Ids /\ c.desk \in {"here", "left"} /\ c.camp \in Ids \cup {None}
  BY <1>1, <1>2 DEF CallOK, Call, Ids
<1>4. CASE c.ok
  <2>1. net' = [net EXCEPT ![s] = d] /\ UNCHANGED <<shown, page, form, strayed>> /\ Crosses
    BY <1>4 DEF CreateAnswered
  <2>2. /\ Fetch(saved, c.camp) \in Call /\ CallOK(Fetch(saved, c.camp))
        /\ Fetch(saved, c.camp).kind = "fetch" /\ Fetch(saved, c.camp).local = saved
        /\ Home(Fetch(saved, c.camp).got)
    BY <1>1, <1>3, FetchCall
  <2>3. /\ d \in Call /\ CallOK(d) /\ d.kind = "fetch" /\ d.local = saved /\ d.desk = c.desk
        /\ Home(d.got)
    <3> DEFINE f == Fetch(saved, c.camp)
    <3> HIDE DEF f
    <3>1. [f EXCEPT !.desk = c.desk] \in Call
      BY <1>3, <2>2 DEF Call, f
    <3>2. /\ d.kind = f.kind /\ d.phase = f.phase /\ d.local = f.local /\ d.got = f.got
          /\ d.desk = c.desk
      BY <2>2 DEF Call, f
    <3>3. QED
      BY <1>3, <2>2, <3>1, <3>2 DEF CallOK, f
  <2> HIDE DEF c, d
  <2>4. NetOK' /\ net'[s] = d /\ \A r \in Slots : r # s => net'[r] = net[r]
    BY <1>1, <2>1, <2>3, SlotTaken
  <2>5. clashed' \in BOOLEAN
    BY <1>1, <2>1 DEF Crosses, Fetching, Others
  <2>6. Typed'
    BY <1>1, <1>2, <2>1, <2>4, <2>5 DEF Typed, Lists, ServerOK, Others, FormOK
  <2>7. HomeInv'
    BY <1>1, <1>2, <2>1, <2>3, <2>4 DEF HomeInv, Home, FormHome
  <2>8. SyncInv'
    BY <1>1, <1>2, <2>1, <2>3, <2>4 DEF SyncInv, Crosses, Fetching, c
  <2>9. QED
    BY <2>6, <2>7, <2>8 DEF AllInv
<1>5. CASE ~c.ok
  <2>1. /\ net' = [net EXCEPT ![s] = Idle]
        /\ Render(shown, DetailOf(c.what)) /\ UNCHANGED clashed
    BY <1>5 DEF CreateAnswered
  <2>2. DetailOf(c.what) \in Page
    BY <1>3 DEF DetailOf, Page, Panels
  <2>3. NetOK' /\ NoNewFetch /\ SameLists
    BY <1>1, <2>1, GivenUp
  <2> HIDE DEF c
  <2>4. QED
    BY <1>2, <2>1, <2>2, <2>3, TurnInv
<1>6. QED
  BY <1>4, <1>5

LEMMA DeleteCampaignInv == ASSUME AllInv, NEW i, DeleteCampaign(i) PROVE AllInv'
<1> DEFINE rows == Among(shown, {k \in DOMAIN shown : shown[k].id # i})
<1>1. Typed /\ NetOK /\ shown \in Seq(Row) /\ Others
  BY DEF AllInv, Typed, Lists
<1>2. Click("all") /\ Edit(rows) /\ UNCHANGED <<server, rosters, net, lost>>
  BY DEF DeleteCampaign
<1>3. rows \in Seq(Row) /\ (Home(shown) => Home(rows))
  BY <1>1, RestRows
<1> HIDE DEF rows
<1>4. NetOK' /\ NoNewFetch /\ SameLists
  BY <1>1, <1>2, SameCalls DEF NetOK
<1>5. RestOK'
  BY <1>1, <1>2, Clicked DEF Others, RestOK
<1>6. ~strayed => Home(rows)
  BY <1>3 DEF AllInv, HomeInv
<1>7. QED
  BY <1>2, <1>3, <1>4, <1>5, <1>6, EditInv

LEMMA ToggleStatusInv == ASSUME AllInv, NEW i, ToggleStatus(i) PROVE AllInv'
<1> DEFINE rows == Toggled(shown, i)
<1>1. Typed /\ NetOK /\ shown \in Seq(Row) /\ Others
  BY DEF AllInv, Typed, Lists
<1>2. Click("overview") /\ Edit(rows) /\ UNCHANGED <<server, rosters, net, lost>>
  BY DEF ToggleStatus
<1>3. rows \in Seq(Row) /\ (Home(shown) => Home(rows))
  BY <1>1, ToggledRows
<1> HIDE DEF rows
<1>4. NetOK' /\ NoNewFetch /\ SameLists
  BY <1>1, <1>2, SameCalls DEF NetOK
<1>5. RestOK'
  BY <1>1, <1>2, Clicked DEF Others, RestOK
<1>6. ~strayed => Home(rows)
  BY <1>3 DEF AllInv, HomeInv
<1>7. QED
  BY <1>2, <1>3, <1>4, <1>5, <1>6, EditInv

LEMMA SaveTeamInv == ASSUME AllInv, NEW i, SaveTeam(i) PROVE AllInv'
<1>1. Typed /\ HomeInv /\ SyncInv /\ Others
  BY DEF AllInv, Typed
<1>2. /\ Click("team")
      /\ UNCHANGED <<server, shown, saved, page, form, net, clashed, strayed, lost>>
  BY DEF SaveTeam
<1>3. rosters' \in [Ids -> {None, "own", "edited"}]
  <2> DEFINE active == {shown[k] : k \in {k \in DOMAIN shown : shown[k].id \in ActiveTeams}}
             edited == {c.name : c \in {c \in active : c.id = i}}
             new(n) == CASE n \in edited -> "edited"
                         [] n \in {c.name : c \in active} \ edited ->
                              IF rosters[n] = None THEN "own" ELSE rosters[n]
                         [] OTHER -> None
  <2>1. rosters' = [n \in Ids |-> new(n)]
    BY DEF SaveTeam
  <2> HIDE DEF active, edited
  <2>2. \A n \in Ids : new(n) \in {None, "own", "edited"}
    BY <1>1 DEF Others
  <2> HIDE DEF new
  <2>3. QED
    BY <2>1, <2>2
<1>4. Typed'
  BY <1>1, <1>2, <1>3, Clicked DEF Typed, Lists, ServerOK, NetOK, Others, FormOK
<1>5. HomeInv'
  BY <1>1, <1>2, SameCalls, HomeStays
<1>6. SyncInv'
  BY <1>1, <1>2, SameCalls, SyncStays
<1>7. QED
  BY <1>4, <1>5, <1>6 DEF AllInv

-----------------------------------------------------------------------------
(* The panels.                                                              *)

LEMMA SameEmptiness ==
  ASSUME NEW rows \in Seq(Row), NEW old \in Seq(Row), SameIds(rows, old)
  PROVE  rows = <<>> <=> old = <<>>
BY DEF SameIds

\* The rows of the screen keep their ids, and so does the page its campaign.
LEMMA FormKept ==
  ASSUME NEW rows \in Seq(Row), shown \in Seq(Row), SameIds(rows, shown), NEW f
  PROVE  /\ FormOK(f, shown, page) => FormOK(f, rows, page)
         /\ FormHome(f, shown, page) => FormHome(f, rows, page)
<1>1. rows = <<>> <=> shown = <<>>
  BY SameEmptiness
<1>2. shown # <<>> => SelectedCampaign(rows, page).id = SelectedCampaign(shown, page).id
  BY SelectedRow
<1>3. QED
  BY <1>1, <1>2 DEF FormOK, FormHome

LEMMA BindInv ==
  ASSUME AllInv, NEW s \in Slots, NEW i, NEW name, NEW script \in Scripts,
         Bind(i, name, script, s), RestOK', server' = server
  PROVE  AllInv'
<1> DEFINE edited == Edited(shown, i, "script", script)
<1>1. /\ Typed /\ HomeInv /\ SyncInv /\ NetOK /\ Others
      /\ shown \in Seq(Row) /\ saved \in Seq(Row) /\ FormOK(form, shown, page)
  BY DEF AllInv, Typed, Lists
<1>2. PICK local \in {Bound(saved, i, name, script), edited} :
          net' = [net EXCEPT ![s] = Fetch(local, None)]
  BY DEF Bind
<1>3. /\ shown' = edited /\ saved' = shown'
      /\ clashed' = (clashed \/ Fetching \/ \E k \in DOMAIN saved : saved[k].name = name /\
                                                                  saved[k].id # i)
      /\ form' = (IF page.at = "script" /\ form # None THEN form \ {s} ELSE form)
      /\ UNCHANGED <<page, strayed>>
  BY DEF Bind
<1>4. edited \in Seq(Row) /\ SameIds(edited, shown) /\ (Home(shown) => Home(edited))
  BY <1>1, EditedRows
<1>5. /\ Bound(saved, i, name, script) \in Seq(Row)
      /\ Home(saved) => Home(Bound(saved, i, name, script))
  BY <1>1, BoundRows
<1>6. ~clashed' => local = edited
  <2> SUFFICES ASSUME ~clashed' PROVE local = edited
    OBVIOUS
  <2>1. saved = shown /\ ~ \E k \in DOMAIN saved : saved[k].name = name /\ saved[k].id # i
    BY <1>1, <1>3 DEF SyncInv
  <2>2. Bound(saved, i, name, script) = Edited(saved, i, "script", script)
    BY <1>1, <2>1, BoundIsEdited
  <2>3. QED
    BY <1>2, <2>1, <2>2
<1> HIDE DEF edited
<1>7. local \in Seq(Row) /\ (Home(saved) /\ Home(shown) => Home(local))
  BY <1>2, <1>4, <1>5
<1>8. LET c == Fetch(local, None) IN
      c \in Call /\ CallOK(c) /\ c.kind = "fetch" /\ c.local = local /\ c.desk = "here" /\ Home(c.got)
  BY <1>7, FetchCall
<1>9. /\ NetOK' /\ net'[s] = Fetch(local, None)
      /\ \A r \in Slots : r # s => net'[r] = net[r]
  BY <1>1, <1>2, <1>8, SlotTaken
<1>10. FormOK(form, shown, page)' /\ (FormHome(form, shown, page) => FormHome(form, shown, page)')
  <2>1. FormOK(form', shown, page) /\ (FormHome(form, shown, page) => FormHome(form', shown, page))
    BY <1>1, <1>3 DEF FormOK, FormHome, Stateful
  <2>2. QED
    BY <1>1, <1>3, <1>4, <2>1, FormKept
<1>11. Typed'
  <2>1. Lists' /\ ServerOK'
    BY <1>1, <1>3, <1>4 DEF Typed, Lists, ServerOK
  <2>2. Others'
    <3>1. clashed' \in BOOLEAN
      BY <1>1, <1>3 DEF Others, Fetching
    <3>2. QED
      BY <1>1, <1>3, <3>1 DEF Others, RestOK
  <2>3. QED
    BY <1>1, <1>3, <1>9, <1>10, <2>1, <2>2 DEF Typed
<1>12. HomeInv'
  <2>1. Home(server)'
    BY <1>1 DEF HomeInv, Home
  <2>2. ASSUME ~strayed
        PROVE  Home(shown)' /\ Home(saved)' /\ \A r \in Slots : Home(net'[r].local) /\ Home(net'[r].got)
    BY <1>1, <1>3, <1>4, <1>7, <1>8, <1>9, <2>2 DEF HomeInv, Home
  <2>3. ~strayed => FormHome(form, shown, page)'
    BY <1>1, <1>10 DEF HomeInv
  <2>4. QED
    BY <1>3, <2>1, <2>2, <2>3 DEF HomeInv
<1>13. SyncInv'
  <2> SUFFICES ASSUME ~clashed' PROVE SyncInv'
    BY DEF SyncInv
  <2>1. /\ \A r \in Slots : net[r].kind # "fetch" /\ net[r].desk # "left"
        /\ local = saved' /\ saved' = shown'
    BY <1>1, <1>3, <1>6 DEF SyncInv, Fetching
  <2>2. QED
    BY <1>8, <1>9, <2>1 DEF SyncInv
<1>14. QED
  BY <1>11, <1>12, <1>13 DEF AllInv

LEMMA BindBuiltinInv == ASSUME AllInv, BindBuiltin PROVE AllInv'
<1> DEFINE c == SelectedCampaign(shown, page)
<1>1. PICK s \in Slots : Bind(c.id, c.name, Builtin, s)
  BY DEF BindBuiltin, Free
<1>2. Click("script") /\ UNCHANGED <<server, rosters, lost>>
  BY DEF BindBuiltin
<1>3. RestOK'
  BY <1>2, Clicked DEF AllInv, Typed, Others, RestOK
<1> HIDE DEF c
<1>4. QED
  BY <1>1, <1>2, <1>3, BindInv DEF Scripts

LEMMA BindUploadedInv == ASSUME AllInv, BindUploaded PROVE AllInv'
<1> DEFINE row == SelectedCampaign(shown, page)
           c == [Idle EXCEPT !.kind = "bind", !.phase = "sent", !.camp = row.id, !.what = row.name]
<1>1. /\ Typed /\ HomeInv /\ SyncInv /\ NetOK /\ Others /\ shown \in Seq(Row)
  BY DEF AllInv, Typed, Lists
<1>2. /\ page.at = "script" /\ shown # <<>> /\ Click("script") /\ Start(c)
      /\ form' = {s \in Slots : net'[s] # net[s]}
      /\ UNCHANGED <<server, shown, saved, rosters, page, clashed, strayed, lost>>
  BY DEF BindUploaded, BindOffered, Mounted, Subtabs
<1>3. row.id \in Ids /\ row.name \in Ids
  <2>1. PICK k \in DOMAIN shown : row = shown[k]
    BY <1>1, <1>2, SelectedRow
  <2>2. shown[k] \in Row
    BY <1>1
  <2>3. QED
    BY <2>1, <2>2 DEF Row
<1> HIDE DEF row
<1>4. c \in Call /\ CallOK(c) /\ c.kind # "fetch" /\ c.desk = "here" /\ Home(c.local) /\ Home(c.got)
  <2>1. Idle \in Call /\ Home(<<>>)
    BY IdleCall DEF Home
  <2>2. QED
    BY <1>3, <2>1 DEF Call, CallOK, Idle
<1> HIDE DEF c
<1>5. NetOK' /\ NoNewFetch /\ SameLists
  BY <1>1, <1>2, <1>4, Started
<1>6. FormOK(form, shown, page)' /\ FormHome(form, shown, page)'
  BY <1>2 DEF FormOK, FormHome, Stateful
<1>7. Typed'
  BY <1>1, <1>2, <1>5, <1>6, Clicked DEF Typed, Lists, ServerOK, Others
<1>8. HomeInv'
  BY <1>1, <1>2, <1>5, <1>6 DEF HomeInv, SameLists, Home
<1>9. SyncInv'
  BY <1>1, <1>2, <1>5, SyncStays
<1>10. QED
  BY <1>7, <1>8, <1>9 DEF AllInv

LEMMA BindAnsweredInv == ASSUME AllInv, NEW s \in Slots, BindAnswered(s) PROVE AllInv'
<1> DEFINE c == net[s]
           d == [Fetch(saved', None) EXCEPT !.desk = "left"]
<1>1. /\ Typed /\ HomeInv /\ SyncInv /\ NetOK /\ c \in Call /\ CallOK(c)
      /\ saved \in Seq(Row) /\ Others
  BY DEF AllInv, Typed, Lists, NetOK
<1>2. c.phase = "served" /\ c.kind = "bind" /\ UNCHANGED <<server, rosters, person, lost>>
  BY DEF BindAnswered, Arrives
<1>3. RestOK'
  BY <1>1, <1>2 DEF Others, RestOK
<1>4. CASE c.desk = "left"
  <2>1. /\ saved' \in {Bound(saved, c.camp, c.what, Uploaded),
                       Edited(c.local, c.camp, "script", Uploaded)}
        /\ net' = [net EXCEPT ![s] = d]
        /\ UNCHANGED <<shown, page, form, clashed, strayed>>
    BY <1>4 DEF BindAnswered
  <2>2. c.local \in Seq(Row) /\ Uploaded \in Scripts
    BY <1>1 DEF Call, Scripts
  <2>3. /\ Bound(saved, c.camp, c.what, Uploaded) \in Seq(Row)
        /\ Home(saved) => Home(Bound(saved, c.camp, c.what, Uploaded))
    BY <1>1, <2>2, BoundRows
  <2>4. /\ Edited(c.local, c.camp, "script", Uploaded) \in Seq(Row)
        /\ Home(c.local) => Home(Edited(c.local, c.camp, "script", Uploaded))
    BY <2>2, EditedRows
  <2>5. saved' \in Seq(Row) /\ (Home(saved) /\ Home(c.local) => Home(saved'))
    BY <2>1, <2>3, <2>4
  <2>6. clashed
    BY <1>1, <1>4 DEF SyncInv
  <2>7. /\ d \in Call /\ CallOK(d) /\ d.local = saved' /\ Home(d.got)
    <3> DEFINE f == Fetch(saved', None)
    <3> HIDE DEF f
    <3>1. /\ f \in Call /\ CallOK(f) /\ f.kind = "fetch" /\ f.local = saved' /\ Home(f.got)
      BY <2>5, FetchCall DEF f
    <3>2. /\ d \in Call /\ d.kind = f.kind /\ d.phase = f.phase /\ d.local = f.local
          /\ d.got = f.got /\ d.desk = "left"
      BY <3>1 DEF Call, f
    <3>3. QED
      BY <3>1, <3>2 DEF CallOK
  <2> HIDE DEF c, d
  <2>8. NetOK' /\ net'[s] = d /\ \A r \in Slots : r # s => net'[r] = net[r]
    BY <1>1, <2>1, <2>7, SlotTaken
  <2>9. Typed'
    BY <1>1, <1>2, <2>1, <2>5, <2>8 DEF Typed, Lists, ServerOK, Others, FormOK
  <2>10. HomeInv'
    BY <1>1, <1>2, <2>1, <2>5, <2>7, <2>8 DEF HomeInv, Home, FormHome, c
  <2>11. SyncInv'
    BY <2>1, <2>6 DEF SyncInv
  <2>12. QED
    BY <2>9, <2>10, <2>11 DEF AllInv
<1>5. CASE c.desk # "left"
  <2>1. Bind(c.camp, c.what, Uploaded, s)
    BY <1>5 DEF BindAnswered
  <2> HIDE DEF c
  <2>2. QED
    BY <1>2, <1>3, <2>1, BindInv DEF Scripts
<1>6. QED
  BY <1>4, <1>5

LEMMA SaveItemsInv ==
  ASSUME AllInv, NEW panel \in {"transfer", "routing"}, NEW items \in SUBSET Items,
         SaveItems(panel, items),
         FormHome(form, shown, page) => items \subseteq {Default, SelectedCampaign(shown, page).id}
  PROVE  AllInv'
<1> DEFINE i == SelectedCampaign(shown, page).id
           edited == Edited(shown, i, panel, items)
<1>1. /\ Typed /\ HomeInv /\ SyncInv /\ NetOK /\ Others /\ shown \in Seq(Row)
  BY DEF AllInv, Typed, Lists
<1>2. /\ page.at = panel /\ shown # <<>> /\ Click(panel)
      /\ shown' = edited /\ saved' = shown' /\ form' = items /\ Crosses
      /\ UNCHANGED <<server, rosters, page, net, strayed, lost>>
  BY DEF SaveItems, Mounted, Subtabs
<1>3. edited \in Seq(Row) /\ SameIds(edited, shown)
      /\ (Home(shown) /\ items \subseteq {Default, i} => Home(edited))
  BY <1>1, EditedRows
<1> HIDE DEF edited, i
<1>4. NetOK' /\ NoNewFetch /\ SameLists
  BY <1>1, <1>2, SameCalls DEF NetOK
<1>5. FormOK(form, shown, page)'
  <2>1. FormOK(form', shown, page)
    BY <1>2 DEF FormOK, Stateful
  <2>2. QED
    BY <1>1, <1>2, <1>3, <2>1, FormKept
<1>6. items \subseteq {Default, i} => FormHome(form, shown, page)'
  <2>1. items \subseteq {Default, i} => FormHome(form', shown, page)
    BY <1>2 DEF FormHome, i
  <2>2. QED
    BY <1>1, <1>2, <1>3, <2>1, FormKept
<1>7. Typed'
  <2>1. clashed' \in BOOLEAN
    BY <1>1, <1>2 DEF Others, Crosses, Fetching
  <2>2. QED
    BY <1>1, <1>2, <1>3, <1>4, <1>5, <2>1, Clicked DEF Typed, Lists, ServerOK, Others
<1>8. HomeInv'
  <2>1. ~strayed => items \subseteq {Default, i} /\ Home(edited)
    BY <1>1, <1>3 DEF HomeInv, i
  <2>2. QED
    BY <1>1, <1>2, <1>4, <1>6, <2>1 DEF HomeInv, SameLists, Home
<1>9. SyncInv'
  BY <1>1, <1>2, <1>4, SyncEdited
<1>10. QED
  BY <1>7, <1>8, <1>9 DEF AllInv

\* An open form of pools or of routes.
LEMMA OpenForm ==
  ASSUME AllInv, NEW panel \in {"transfer", "routing"}, ItemsOffered(panel)
  PROVE  /\ page.at = panel /\ form \subseteq Items /\ SelectedCampaign(shown, page).id \in Items
         /\ FormHome(form, shown, page) => form \subseteq {Default, SelectedCampaign(shown, page).id}
<1>1. page.at = panel /\ form # None
  BY DEF ItemsOffered, PoolsOffered, RoutesOffered
<1>2. shown \in Seq(Row) /\ FormOK(form, shown, page)
  BY DEF AllInv, Typed, Lists
<1>3. shown # <<>>
  BY <1>1, <1>2 DEF FormOK
<1>4. SelectedCampaign(shown, page).id \in Items
  <2>1. PICK k \in DOMAIN shown : SelectedCampaign(shown, page) = shown[k]
    BY <1>2, <1>3, SelectedRow
  <2>2. shown[k] \in Row
    BY <1>2
  <2>3. QED
    BY <2>1, <2>2 DEF Row, Items
<1>5. QED
  BY <1>1, <1>2, <1>3, <1>4 DEF FormOK, FormHome

LEMMA ItemsInv ==
  ASSUME AllInv, NEW panel \in {"transfer", "routing"}, ItemsOffered(panel), NEW items,
         items \subseteq form \cup {SelectedCampaign(shown, page).id}, SaveItems(panel, items)
  PROVE  AllInv'
<1>1. items \in SUBSET Items
  BY OpenForm
<1>2. FormHome(form, shown, page) => items \subseteq {Default, SelectedCampaign(shown, page).id}
  BY OpenForm
<1>3. QED
  BY <1>1, <1>2, SaveItemsInv

-----------------------------------------------------------------------------
(* The desk is opened.                                                      *)

LEMMA MountTyped ==
  ASSUME AllInv, NEW p \in Page, NEW carried \in [Slots -> Call], \A r \in Slots : CallOK(carried[r]),
         Mount(p, carried), clashed' \in BOOLEAN, RestOK'
  PROVE  /\ Typed' /\ shown' = saved /\ saved' = saved
         /\ \E s \in Slots : /\ net'[s] = Fetch(saved, None)
                             /\ \A r \in Slots : r # s => net'[r] = carried[r]
<1>1. /\ Typed /\ Others /\ saved \in Seq(Row)
  BY DEF AllInv, Typed, Lists
<1>2. /\ page' = p /\ shown' = saved /\ form' = Mounting(saved, p)
      /\ UNCHANGED <<server, saved, rosters, strayed, lost>>
  BY DEF Mount
<1>3. PICK s \in Slots : net' = [carried EXCEPT ![s] = Fetch(saved, None)]
  BY DEF Mount
<1>4. Fetch(saved, None) \in Call /\ CallOK(Fetch(saved, None))
  BY <1>1, FetchCall
<1>5. /\ NetOK' /\ net'[s] = Fetch(saved, None)
      /\ \A r \in Slots : r # s => net'[r] = carried[r]
  BY <1>3, <1>4 DEF NetOK
<1>6. FormOK(form, shown, page)'
  BY <1>1, <1>2, MountingOK
<1>7. Typed'
  BY <1>1, <1>2, <1>5, <1>6 DEF Typed, Lists, ServerOK, Others, RestOK
<1>8. QED
  BY <1>2, <1>5, <1>7

LEMMA MountHome ==
  ASSUME AllInv, NEW p \in Page, NEW carried, Mount(p, carried),
         ~strayed => \A r \in Slots : Home(carried[r].local) /\ Home(carried[r].got),
         \E s \in Slots : /\ net'[s] = Fetch(saved, None)
                          /\ \A r \in Slots : r # s => net'[r] = carried[r]
  PROVE  HomeInv'
<1>1. HomeInv /\ saved \in Seq(Row)
  BY DEF AllInv, Typed, Lists
<1>2. /\ page' = p /\ shown' = saved /\ form' = Mounting(saved, p)
      /\ UNCHANGED <<server, saved, rosters, strayed, lost>>
  BY DEF Mount
<1>3. Fetch(saved, None).local = saved /\ Home(Fetch(saved, None).got)
  BY <1>1, FetchCall
<1>4. Home(server)'
  BY <1>1, <1>2 DEF HomeInv, Home
<1>5. ASSUME ~strayed
      PROVE  /\ Home(shown)' /\ Home(saved)' /\ FormHome(form, shown, page)'
             /\ \A r \in Slots : Home(net'[r].local) /\ Home(net'[r].got)
  <2>1. Home(saved)
    BY <1>1, <1>5 DEF HomeInv
  <2>2. FormHome(Mounting(saved, p), saved, p)
    BY <1>1, <2>1, MountingOK
  <2>3. \A r \in Slots : Home(net'[r].local) /\ Home(net'[r].got)
    BY <1>3, <1>5, <2>1
  <2>4. QED
    BY <1>2, <2>1, <2>2, <2>3
<1>6. QED
  BY <1>2, <1>4, <1>5 DEF HomeInv

LEMMA LeaveAndReturnInv == ASSUME AllInv, LeaveAndReturn PROVE AllInv'
<1> DEFINE left(c) ==
             CASE c.desk = "here" /\ c.kind = "bind" -> [c EXCEPT !.desk = "left", !.local = shown]
               [] c.desk = "here" /\ c.kind \in {"fetch", "create"} -> [c EXCEPT !.desk = "left"]
               [] OTHER -> c
           carried == [s \in Slots |-> left(net[s])]
<1>1. /\ NetOK /\ shown \in Seq(Row) /\ Others /\ Typed /\ HomeInv /\ SyncInv
  BY DEF AllInv, Typed, Lists
<1>2. /\ \E part \in person.parts : Click(part)
      /\ clashed' = (clashed \/ \E s \in Slots : net[s] # Idle)
  BY DEF LeaveAndReturn
<1>3. PICK p \in EntryPages : Mount(p, carried)
  BY DEF LeaveAndReturn
<1>4. p \in Page /\ UNCHANGED <<rosters, lost>>
  BY <1>3 DEF EntryPages, Mount
<1>5. clashed' \in BOOLEAN /\ RestOK'
  <2>1. (person \in [parts : {v.parts : v \in Visits}, left : Nat])'
    BY <1>1, <1>2, Clicked
  <2>2. QED
    BY <1>1, <1>2, <1>4, <2>1 DEF Others, RestOK
<1>6. ASSUME NEW c \in Call, CallOK(c)
      PROVE  /\ left(c) \in Call /\ CallOK(left(c)) /\ left(c).got = c.got
             /\ left(c).local \in {c.local, shown} /\ (c = Idle => left(c) = Idle)
  <2>1. CASE c.desk = "here" /\ c.kind = "bind"
    <3> DEFINE d == [c EXCEPT !.desk = "left", !.local = shown]
    <3>1. left(c) = d
      BY <2>1
    <3>2. /\ d \in Call /\ d.kind = c.kind /\ d.phase = c.phase /\ d.ok = c.ok /\ d.camp = c.camp
          /\ d.what = c.what /\ d.got = c.got /\ d.local = shown /\ d.desk = "left"
      BY <1>1 DEF Call
    <3>3. c # Idle
      BY <2>1, IdleCall
    <3> HIDE DEF left, d
    <3>4. QED
      BY <1>6, <3>1, <3>2, <3>3 DEF CallOK
  <2>2. CASE c.desk = "here" /\ c.kind \in {"fetch", "create"}
    <3> DEFINE d == [c EXCEPT !.desk = "left"]
    <3>1. left(c) = d
      BY <2>2
    <3>2. /\ d \in Call /\ d.kind = c.kind /\ d.phase = c.phase /\ d.ok = c.ok /\ d.camp = c.camp
          /\ d.what = c.what /\ d.got = c.got /\ d.local = c.local /\ d.desk = "left"
      BY DEF Call
    <3>3. c # Idle
      BY <2>2, IdleCall
    <3> HIDE DEF left, d
    <3>4. QED
      BY <1>6, <3>1, <3>2, <3>3 DEF CallOK
  <2>3. CASE ~(c.desk = "here" /\ c.kind \in {"bind", "fetch", "create"})
    <3>1. left(c) = c
      BY <2>3
    <3> HIDE DEF left
    <3>2. QED
      BY <1>6, <3>1
  <2>4. QED
    BY <2>1, <2>2, <2>3
<1>7. \A r \in Slots : net[r] \in Call /\ CallOK(net[r]) /\ carried[r] = left(net[r])
  BY <1>1 DEF NetOK
<1>8. carried = [s \in Slots |-> left(net[s])]
  OBVIOUS
<1> HIDE DEF left, carried
<1>9. carried \in [Slots -> Call] /\ \A r \in Slots : CallOK(carried[r])
  BY <1>6, <1>7, <1>8
<1>10. ~strayed => \A r \in Slots : Home(carried[r].local) /\ Home(carried[r].got)
  BY <1>1, <1>6, <1>7 DEF HomeInv
<1>11. /\ Typed' /\ shown' = saved /\ saved' = saved
       /\ \E s \in Slots : /\ net'[s] = Fetch(saved, None)
                           /\ \A r \in Slots : r # s => net'[r] = carried[r]
  BY <1>3, <1>4, <1>5, <1>9, MountTyped
<1>12. HomeInv'
  BY <1>3, <1>4, <1>10, <1>11, MountHome
<1>13. SyncInv'
  <2> SUFFICES ASSUME ~clashed' PROVE SyncInv'
    BY DEF SyncInv
  <2>1. \A r \in Slots : carried[r] = Idle
    BY <1>2, <1>6, <1>7
  <2>2. /\ Fetch(saved, None).kind = "fetch" /\ Fetch(saved, None).local = saved
        /\ Fetch(saved, None).desk = "here"
    BY <1>1, FetchCall DEF Typed, Lists
  <2>3. QED
    BY <1>11, <2>1, <2>2, IdleCall DEF SyncInv
<1>14. QED
  BY <1>11, <1>12, <1>13 DEF AllInv

LEMMA ReloadInv == ASSUME AllInv, Reload PROVE AllInv'
<1> DEFINE after(c) == IF c.phase = "sent" /\ c.kind # "fetch" THEN [c EXCEPT !.desk = "gone"] ELSE Idle
           carried == [s \in Slots |-> after(net[s])]
<1>1. NetOK /\ Others /\ Typed /\ HomeInv /\ SyncInv
  BY DEF AllInv, Typed
<1>2. (\E part \in person.parts : Click(part)) /\ clashed' = FALSE
  BY DEF Reload
<1>3. PICK p \in EntryPages : Mount(p, carried)
  <2>1. PICK p \in EntryPages :
          Mount(p, [s \in Slots |-> IF net[s].phase = "sent" /\ net[s].kind # "fetch"
                                    THEN [net[s] EXCEPT !.desk = "gone"] ELSE Idle])
    BY DEF Reload
  <2>2. QED
    BY <2>1
<1>4. p \in Page /\ UNCHANGED <<rosters, lost>>
  BY <1>3 DEF EntryPages, Mount
<1>5. clashed' \in BOOLEAN /\ RestOK'
  <2>1. (person \in [parts : {v.parts : v \in Visits}, left : Nat])'
    BY <1>1, <1>2, Clicked
  <2>2. QED
    BY <1>1, <1>2, <1>4, <2>1 DEF Others, RestOK
<1>6. ASSUME NEW c \in Call, CallOK(c)
      PROVE  /\ after(c) \in Call /\ CallOK(after(c)) /\ after(c).desk # "left"
             /\ after(c).kind # "fetch"
             /\ Home(c.local) /\ Home(c.got) => Home(after(c).local) /\ Home(after(c).got)
  <2>1. CASE c.phase = "sent" /\ c.kind # "fetch"
    <3> DEFINE d == [c EXCEPT !.desk = "gone"]
    <3>1. after(c) = d
      BY <2>1
    <3>2. /\ d \in Call /\ d.kind = c.kind /\ d.phase = c.phase /\ d.ok = c.ok /\ d.camp = c.camp
          /\ d.what = c.what /\ d.got = c.got /\ d.local = c.local /\ d.desk = "gone"
      BY DEF Call
    <3> HIDE DEF after, d
    <3>3. QED
      BY <1>6, <2>1, <3>1, <3>2 DEF CallOK
  <2>2. CASE ~(c.phase = "sent" /\ c.kind # "fetch")
    <3>1. after(c) = Idle
      BY <2>2
    <3> HIDE DEF after
    <3>2. QED
      BY <3>1, IdleCall
  <2>3. QED
    BY <2>1, <2>2
<1>7. \A r \in Slots : net[r] \in Call /\ CallOK(net[r]) /\ carried[r] = after(net[r])
  BY <1>1 DEF NetOK
<1>8. carried = [s \in Slots |-> after(net[s])]
  OBVIOUS
<1> HIDE DEF after, carried
<1>9. carried \in [Slots -> Call] /\ \A r \in Slots : CallOK(carried[r])
  BY <1>6, <1>7, <1>8
<1>10. ~strayed => \A r \in Slots : Home(carried[r].local) /\ Home(carried[r].got)
  BY <1>1, <1>6, <1>7 DEF HomeInv
<1>11. /\ Typed' /\ shown' = saved /\ saved' = saved
       /\ \E s \in Slots : /\ net'[s] = Fetch(saved, None)
                           /\ \A r \in Slots : r # s => net'[r] = carried[r]
  BY <1>3, <1>4, <1>5, <1>9, MountTyped
<1>12. HomeInv'
  BY <1>3, <1>4, <1>10, <1>11, MountHome
<1>13. SyncInv'
  <2>1. \A r \in Slots : carried[r].desk # "left" /\ carried[r].kind # "fetch"
    BY <1>6, <1>7
  <2>2. /\ Fetch(saved, None).kind = "fetch" /\ Fetch(saved, None).local = saved
        /\ Fetch(saved, None).desk = "here"
    BY <1>1, FetchCall DEF Typed, Lists
  <2>3. QED
    BY <1>11, <2>1, <2>2 DEF SyncInv
<1>14. QED
  BY <1>11, <1>12, <1>13 DEF AllInv

LEMMA InitInv == Init => AllInv
<1> SUFFICES ASSUME Init PROVE AllInv
  OBVIOUS
<1>1. /\ server = [k \in DOMAIN Known |-> NewRow(Known[k], Known[k])]
      /\ saved \in {server, SubSeq(server, 2, Len(server)), <<>>} /\ shown = saved
      /\ page = [at |-> "all", camp |-> None] /\ form = None
      /\ net = [s \in Slots |-> IF s = 1 THEN Fetch(saved, None) ELSE Idle]
      /\ clashed = FALSE /\ strayed = FALSE
  BY DEF Init
<1>2. /\ DOMAIN Known = 1..Len(Known) /\ Len(Known) \in Nat
      /\ \A k \in DOMAIN Known : Known[k] \in Range(Known)
      /\ \A j, k \in DOMAIN Known : Known[j] = Known[k] => j = k
  BY KnownAssumption DEF Range, IsInjective
<1>3. \A i \in Ids : /\ NewRow(i, i) \in Row /\ NewRow(i, i).id = i
                     /\ NewRow(i, i).transfer = {} /\ NewRow(i, i).routing = {}
  BY DEF NewRow, Row, Scripts
<1>4. \A k \in DOMAIN Known : Known[k] \in Ids /\ Known[k] \notin Temps
  BY <1>2, IdsAssumption DEF Ids
<1>5. /\ Len(server) = Len(Known) /\ DOMAIN server = DOMAIN Known
      /\ \A k \in DOMAIN server : server[k] = NewRow(Known[k], Known[k])
  BY <1>1, <1>2
<1>6. server \in Seq(Row)
  BY <1>1, <1>2, <1>3, <1>4
<1>7. ServerOK /\ Home(server)
  BY <1>2, <1>3, <1>4, <1>5 DEF ServerOK, RowIds, Home
<1>8. saved \in Seq(Row) /\ Home(saved)
  <2> DEFINE rest == SubSeq(server, 2, Len(server))
  <2>1. Len(server) \in Nat /\ DOMAIN server = 1..Len(server)
    BY <1>6
  <2>2. /\ rest \in Seq(Row)
        /\ Len(rest) = IF 2 <= Len(server) THEN Len(server) - 2 + 1 ELSE 0
        /\ \A k \in 1..(Len(server) - 2 + 1) : rest[k] = server[2 + k - 1]
    <3>1. 2 \in Int /\ Len(server) \in Int /\ \A k \in 2..Len(server) : server[k] \in Row
      BY <1>6, <2>1
    <3>2. QED
      BY <3>1, SubSeqProperties
  <2> HIDE DEF rest
  <2>3. \A k \in DOMAIN rest : \E j \in DOMAIN server : rest[k] = server[j]
    <3> TAKE k \in DOMAIN rest
    <3>1. DOMAIN rest = 1..Len(rest)
      BY <2>2
    <3>2. k \in Nat /\ k >= 1 /\ k <= Len(rest) /\ Len(rest) \in Nat
      BY <2>2, <3>1
    <3>3. 2 <= Len(server) /\ Len(rest) = Len(server) - 2 + 1
      BY <2>2, <3>2
    <3>4. k \in 1..(Len(server) - 2 + 1) /\ 2 + k - 1 \in 1..Len(server)
      BY <2>1, <3>2, <3>3
    <3>5. QED
      BY <2>1, <2>2, <3>4
  <2>4. Home(rest)
    BY <1>7, <2>3 DEF Home
  <2>5. <<>> \in Seq(Row) /\ Home(<<>>)
    BY DEF Home
  <2>6. saved = server \/ saved = rest \/ saved = <<>>
    BY <1>1 DEF rest
  <2>7. QED
    BY <1>6, <1>7, <2>2, <2>4, <2>5, <2>6
<1>9. LET c == Fetch(saved, None) IN
      c \in Call /\ CallOK(c) /\ c.kind = "fetch" /\ c.local = saved /\ c.desk = "here" /\ Home(c.got)
  BY <1>8, FetchCall
<1>10. \A s \in Slots : net[s] = Idle \/ (s = 1 /\ net[s] = Fetch(saved, None))
  BY <1>1
<1>11. NetOK
  BY <1>1, <1>9, IdleCall DEF NetOK
<1>12. Others
  <2>1. person \in Visits /\ lost = 0 /\ rosters = [i \in Ids |-> None]
    BY DEF Init
  <2>2. lost \in 0..MaxLost
    BY <2>1, BoundsAssumption
  <2>3. person \in [parts : {v.parts : v \in Visits}, left : Nat]
    BY <2>1, VisitsAssumption
  <2>4. QED
    BY <1>1, <2>1, <2>2, <2>3 DEF Others
<1>13. page \in Page /\ FormOK(form, shown, page) /\ FormHome(form, shown, page)
  BY <1>1 DEF Page, Subtabs, FormOK, FormHome, Stateful
<1>14. Typed
  BY <1>1, <1>6, <1>7, <1>8, <1>11, <1>12, <1>13 DEF Typed, Lists
<1>15. HomeInv
  BY <1>1, <1>7, <1>8, <1>9, <1>10, <1>13, IdleCall DEF HomeInv
<1>16. SyncInv
  BY <1>1, <1>9, <1>10, IdleCall DEF SyncInv
<1>17. QED
  BY <1>14, <1>15, <1>16 DEF AllInv

LEMMA NextInv == ASSUME AllInv, [Next]_vars PROVE AllInv'
<1>1. ASSUME NEW s \in Slots,
             Serve(s) \/ Lose(s) \/ FetchAnswered(s) \/ CreateAnswered(s) \/ BindAnswered(s)
      PROVE  AllInv'
  BY <1>1, ServeInv, LoseInv, FetchAnsweredInv, CreateAnsweredInv, BindAnsweredInv
<1>2. ASSUME NEW p \in Page, Navigate(p) PROVE AllInv'
  BY <1>2, NavigateInv
<1>3. ASSUME NEW t \in Temps, CreateCampaign(t) PROVE AllInv'
  BY <1>3, CreateCampaignInv
<1>4. ASSUME NEW i \in Ids, DeleteCampaign(i) \/ ToggleStatus(i) \/ SaveTeam(i) PROVE AllInv'
  BY <1>4, DeleteCampaignInv, ToggleStatusInv, SaveTeamInv
<1>5. CASE BindBuiltin
  BY <1>5, BindBuiltinInv
<1>6. CASE BindUploaded
  BY <1>6, BindUploadedInv
<1>7. CASE SaveRouting
  <2>1. ItemsOffered("routing") /\ SaveItems("routing", form)
    BY <1>7 DEF SaveRouting, ItemsOffered
  <2>2. QED
    BY <2>1, ItemsInv
<1>8. ASSUME NEW panel \in {"transfer", "routing"}, AddItem(panel) PROVE AllInv'
  <2>1. /\ ItemsOffered(panel)
        /\ SaveItems(panel, form \cup {SelectedCampaign(shown, page).id})
    BY <1>8 DEF AddItem
  <2>2. QED
    BY <2>1, ItemsInv
<1>9. ASSUME NEW panel \in {"transfer", "routing"}, NEW item, RemoveItem(panel, item) PROVE AllInv'
  <2>1. ItemsOffered(panel) /\ SaveItems(panel, form \ {item})
    BY <1>9 DEF RemoveItem
  <2>2. form \ {item} \subseteq form \cup {SelectedCampaign(shown, page).id}
    OBVIOUS
  <2>3. QED
    BY <2>1, <2>2, ItemsInv
<1>10. CASE LeaveAndReturn
  BY <1>10, LeaveAndReturnInv
<1>11. CASE Reload
  BY <1>11, ReloadInv
<1>12. CASE UNCHANGED vars
  <2>1. Typed /\ HomeInv /\ SyncInv /\ NoNewFetch /\ SameLists
    BY <1>12, SameCalls DEF AllInv, vars
  <2>2. Typed'
    BY <1>12, <2>1 DEF vars, Typed, Lists, ServerOK, NetOK, Others, FormOK
  <2>3. HomeInv'
    BY <1>12, <2>1, HomeStays DEF vars
  <2>4. SyncInv'
    BY <1>12, <2>1, SyncStays DEF vars
  <2>5. QED
    BY <2>2, <2>3, <2>4 DEF AllInv
<1>13. QED
  BY <1>1, <1>2, <1>3, <1>4, <1>5, <1>6, <1>7, <1>8, <1>9, <1>10, <1>11, <1>12 DEF Next

\* The invariant holds of every state: the types, where pools and routes were
\* added, and what a fetch under way has to do with storage and screen.
THEOREM Invariant == Spec => []AllInv
<1>1. Init => AllInv
  BY InitInv
<1>2. AllInv /\ [Next]_vars => AllInv'
  BY NextInv
<1>3. QED
  BY <1>1, <1>2, PTL DEF Spec

-----------------------------------------------------------------------------
(* What the desk promises.                                                  *)

\* The desk is well formed, and whatever calls are under way, lost or left
\* behind, the pools and routes of a campaign were added on its own page unless
\* another campaign has taken over the page of an open form: useCampaignState,
\* CampaignTransferRules and CampaignRoutingForm.
THEOREM ConsistentTheorem == Spec => []Consistent
<1>1. AllInv => Consistent
  <2> SUFFICES ASSUME AllInv PROVE Consistent
    OBVIOUS
  <2>1. TypeOK
    BY TypedIsTypeOK DEF AllInv
  <2>2. ItemsStayHome
    BY DEF AllInv, HomeInv, Home, ItemsStayHome
  <2>3. QED
    BY <2>1, <2>2 DEF Consistent
<1>2. QED
  BY <1>1, Invariant, PTL

\* A reload changes nothing: localStorage holds what is on the screen, unless
\* an edit, a second fetch or a departure fell between the ends of a fetch, or
\* a binding found a second campaign of its name: useCampaignState's handlers
\* and fetchCampaigns.
THEOREM StoredIsShownTheorem == Spec => []StoredIsShown
<1>1. AllInv => StoredIsShown
  BY DEF AllInv, SyncInv, StoredIsShown
<1>2. QED
  BY <1>1, Invariant, PTL

\* The answer of a fetch drops no campaign that was on the list the fetch
\* began with.
LEMMA FetchKeepsRows ==
  ASSUME AllInv, NEW s \in Slots, FetchAnswered(s), NEW i \in RowIds(shown) \ RowIds(shown')
  PROVE  i \notin RowIds(net[s].local)
<1> DEFINE c == net[s]
           merged == Merge(c.got, c.local)
           rows == CASE c.desk = "left" -> shown
                     [] c.desk = "here" /\ c.ok -> merged
                     [] OTHER -> IF c.local = <<>> THEN shown ELSE c.local
<1>1. c \in Call /\ CallOK(c)
  BY DEF AllInv, Typed, NetOK
<1>2. shown' = rows /\ c.phase = "served"
  BY DEF FetchAnswered, Arrives, Render
<1>3. c.desk \in {"here", "left"} /\ c.got \in Seq(Row) /\ c.local \in Seq(Row)
  BY <1>1, <1>2 DEF Call, CallOK
<1>4. RowIds(c.local) \subseteq RowIds(merged)
  BY <1>3, MergedRows
<1> HIDE DEF merged
<1>5. rows = IF c.desk = "left" THEN shown ELSE IF c.ok THEN merged
             ELSE IF c.local = <<>> THEN shown ELSE c.local
  BY <1>3
<1> HIDE DEF rows, c
<1>6. shown' = merged \/ shown' = c.local
  BY <1>2, <1>5
<1>7. i \notin RowIds(c.local)
  BY <1>4, <1>6
<1>8. QED
  BY <1>7 DEF c

\* A campaign leaves the list by its bin, with the desk, or by the answer of a
\* fetch that began before the campaign was there; no other answer, late,
\* failed or merged, drops one: the handlers of useCampaignState.
THEOREM RowsLeaveByHandTheorem == Spec => RowsLeaveByHand
<1> DEFINE A == \A i \in RowIds(shown) \ RowIds(shown') :
                    \/ DeleteCampaign(i) \/ LeaveAndReturn \/ Reload
                    \/ \E s \in Slots : FetchAnswered(s) /\ i \notin RowIds(net[s].local)
<1>1. ASSUME AllInv, [Next]_vars PROVE [A]_vars
  <2>1. shown \in Seq(Row) /\ page \in Page
    BY <1>1 DEF AllInv, Typed, Lists
  <2> SUFFICES ASSUME Next PROVE A
    BY <1>1
  <2>2. ASSUME RowIds(shown) \subseteq RowIds(shown') PROVE A
    BY <2>2
  <2>3. ASSUME SameIds(shown', shown) PROVE A
    BY <2>2, <2>3, SameRowIds
  <2>4. ASSUME shown' = shown PROVE A
    BY <2>2, <2>4
  <2>5. ASSUME NEW s \in Slots, NEW i, NEW name, NEW script \in Scripts, Bind(i, name, script, s)
        PROVE  A
    <3>1. shown' = Edited(shown, i, "script", script)
      BY <2>5 DEF Bind
    <3>2. SameIds(shown', shown)
      BY <2>1, <3>1, EditedRows
    <3>3. QED
      BY <2>3, <3>2
  <2>6. ASSUME NEW panel \in {"transfer", "routing"}, NEW items, SaveItems(panel, items) PROVE A
    <3>1. shown' = Edited(shown, SelectedCampaign(shown, page).id, panel, items)
      BY <2>6 DEF SaveItems
    <3>2. DOMAIN shown' = DOMAIN shown /\ \A k \in DOMAIN shown : shown[k].id = shown'[k].id
      BY <2>1, <2>6, <3>1 DEF Edited, Row
    <3>3. SameIds(shown', shown)
      BY <3>2 DEF SameIds
    <3>4. QED
      BY <2>3, <3>3
  <2>7. ASSUME NEW s \in Slots, Serve(s) \/ Lose(s) PROVE A
    BY <2>4, <2>7 DEF Serve, Lose
  <2>8. ASSUME NEW s \in Slots, FetchAnswered(s) PROVE A
    BY <1>1, <2>8, FetchKeepsRows
  <2>9. ASSUME NEW s \in Slots, CreateAnswered(s) PROVE A
    <3>1. shown' = shown
      BY <2>9 DEF CreateAnswered, Render
    <3>2. QED
      BY <2>4, <3>1
  <2>10. ASSUME NEW s \in Slots, BindAnswered(s) PROVE A
    BY <2>4, <2>5, <2>10 DEF BindAnswered, Scripts
  <2>11. ASSUME NEW p \in Page, Navigate(p) PROVE A
    BY <2>4, <2>11 DEF Navigate, Render
  <2>12. ASSUME NEW t \in Temps, CreateCampaign(t) PROVE A
    <3>1. shown' = <<NewRow(t, t)>> \o shown /\ t \in Ids
      BY <2>12 DEF CreateCampaign, Edit, Render, Ids
    <3>2. RowIds(shown') = RowIds(shown) \cup {t}
      BY <2>1, <3>1, NewRows
    <3>3. QED
      BY <2>2, <3>2
  <2>13. ASSUME NEW i \in Ids, DeleteCampaign(i) PROVE A
    <3> DEFINE at == {k \in DOMAIN shown : shown[k].id # i}
    <3>1. shown' = Among(shown, at)
      BY <2>13 DEF DeleteCampaign, Edit, Render
    <3>2. at \subseteq DOMAIN shown /\ \A k \in DOMAIN shown : shown[k].id = i \/ k \in at
      OBVIOUS
    <3> HIDE DEF at
    <3>3. \A k \in at : \E j \in DOMAIN shown' : shown'[j] = shown[k]
      BY <2>1, <3>1, <3>2, AmongRows
    <3>4. RowIds(shown) \subseteq RowIds(shown') \cup {i}
      BY <3>2, <3>3 DEF RowIds
    <3>5. QED
      BY <2>13, <3>4
  <2>14. ASSUME NEW i \in Ids, ToggleStatus(i) PROVE A
    <3>1. shown' = Toggled(shown, i)
      BY <2>14 DEF ToggleStatus, Edit, Render
    <3>2. SameIds(shown', shown)
      BY <2>1, <3>1, ToggledRows
    <3>3. QED
      BY <2>3, <3>2
  <2>15. ASSUME NEW i \in Ids, SaveTeam(i) PROVE A
    BY <2>4, <2>15 DEF SaveTeam
  <2>16. CASE BindBuiltin
    BY <2>5, <2>16 DEF BindBuiltin, Free, Scripts
  <2>17. CASE BindUploaded
    BY <2>4, <2>17 DEF BindUploaded
  <2>18. CASE SaveRouting
    BY <2>6, <2>18 DEF SaveRouting
  <2>19. ASSUME NEW panel \in {"transfer", "routing"}, NEW item,
                AddItem(panel) \/ RemoveItem(panel, item)
         PROVE  A
    BY <2>6, <2>19 DEF AddItem, RemoveItem
  <2>20. CASE LeaveAndReturn \/ Reload
    BY <2>20
  <2> HIDE DEF A
  <2>21. QED
    BY <2>7, <2>8, <2>9, <2>10, <2>11, <2>12, <2>13, <2>14, <2>15, <2>16, <2>17, <2>18,
       <2>19, <2>20 DEF Next
<1>2. QED
  BY <1>1, Invariant, PTL DEF Spec, RowsLeaveByHand
=============================================================================
