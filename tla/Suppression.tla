----------------------------- MODULE Suppression -----------------------------
(***************************************************************************)
(* The do-not-call register (src/apps/backend/app/modules/suppression):      *)
(* entries by telephone number, the flag on the leads with that number, and  *)
(* the verdicts that the pre-dial check keeps in Redis for 300 seconds.      *)
(*                                                                         *)
(* A request reads, writes the rows and the cache, and commits: three steps, *)
(* between which other requests run.  Redis is not part of the transaction   *)
(* and best effort: a failing command is skipped.  Rows written and not yet  *)
(* committed are locked; who wants to write them waits.                      *)
(*                                                                         *)
(* The module is extended by LeadPipeline, whose requests share the sessions.*)
(***************************************************************************)
EXTENDS Naturals, FiniteSets

CONSTANTS
  Sessions,   \* requests in flight at one time, one database session each
  Phones,     \* normalized telephone numbers
  NoPhone,    \* the number of a lead that is not there
  Leads,      \* lead identifiers
  Checked,    \* the numbers that are checked before they are dialled
  Redis,      \* the states of Redis considered: "up", "down" or both
  MaxEntries  \* bound: entries of one number, removed ones included

ASSUME PhoneAssumption == NoPhone \notin Phones /\ Checked \subseteq Phones
ASSUME EntryAssumption == MaxEntries \in Nat
ASSUME RedisAssumption == Redis \subseteq {"up", "down"}

VARIABLES
  register,  \* suppression_entries: per number, the ids used and the active ones
  cache,     \* Redis: {} for no key, {0} for "clear", {n} for entry n
  redis,     \* "up", or "down": commands fail
  phone,     \* leads.phone_normalized; NoPhone where there is no row
  flagged,   \* leads whose suppressed column is true
  tx         \* per session, the request in flight and what it has read

Entries  == 1..MaxEntries
Register == [used: 0..MaxEntries, active: SUBSET Entries]
Verdicts == SUBSET (0..MaxEntries)

NoRequest == [op |-> "none", wrote |-> {}]

\* wrote: the lead rows the request has updated and not yet committed.
DeskRequests ==
  [op: {"check", "add", "remove", "import_csv"}, phase: {"missed", "read", "written"},
   phones: SUBSET Phones, entry: [Phones -> 0..MaxEntries], wrote: SUBSET Leads]

Idle(x) == tx[x].op = "none"
Waits(x, op, phase) == tx[x].op = op /\ tx[x].phase = phase
Done(x) == tx' = [tx EXCEPT ![x] = NoRequest]

Suppressed == {p \in Phones : register[p].active # {}}
Rows(P)    == {l \in Leads : phone[l] \in P}

NoEntry == [p \in Phones |-> 0]
ActiveEntry(p) == IF p \in Suppressed
                    THEN CHOOSE n \in Entries : n \in register[p].active ELSE 0

Request(op, phase, P, entry, L) ==
  [op |-> op, phase |-> phase, phones |-> P, entry |-> entry, wrote |-> L]

-----------------------------------------------------------------------------
(* Row locks.                                                               *)

LeadsFree(x, L) == \A y \in Sessions \ {x} : tx[y].wrote \cap L = {}

\* The entries of p that y has inserted or updated and not yet committed.
Touched(y, p) ==
  IF tx[y].op \in {"add", "remove", "import_csv"} /\ tx[y].phase = "written"
    THEN {tx[y].entry[p]} \ {0} ELSE {}

EntryFree(x, p, n) == \A y \in Sessions \ {x} : n \notin Touched(y, p)

\* The unique index on active entries makes an insert wait for another insert,
\* and for the removal of an active entry.
IndexFree(x, p) ==
  \A y \in Sessions \ {x} : \A n \in Touched(y, p) :
    tx[y].op = "remove" /\ n \notin register[p].active

\* A Redis command on the key of p, skipped when Redis is down.
Cache(p, verdict) ==
  cache' = IF redis = "up" THEN [cache EXCEPT ![p] = verdict] ELSE cache

-----------------------------------------------------------------------------
(* check_phone.  A hit is answered from the cache and changes nothing.       *)

CheckMiss(x, p) ==
  /\ Idle(x)
  /\ cache[p] = {} \/ redis = "down"
  /\ tx' = [tx EXCEPT ![x] = Request("check", "missed", {p}, NoEntry, {})]
  /\ UNCHANGED <<register, cache, redis, phone, flagged>>

CheckRead(x) ==
  /\ Waits(x, "check", "missed")
  /\ tx' = [tx EXCEPT ![x].phase = "read",
                      ![x].entry = [p \in Phones |-> ActiveEntry(p)]]
  /\ UNCHANGED <<register, cache, redis, phone, flagged>>

CheckAnswer(x) ==
  /\ Waits(x, "check", "read")
  /\ \E p \in tx[x].phones : Cache(p, {tx[x].entry[p]})
  /\ Done(x)
  /\ UNCHANGED <<register, redis, phone, flagged>>

-----------------------------------------------------------------------------
(* add_entry                                                                *)

\* The look-up that refuses a number with an active entry.
Add(x, p) ==
  /\ Idle(x)
  /\ register[p].active = {}
  /\ register[p].used < MaxEntries
  /\ tx' = [tx EXCEPT ![x] = Request("add", "read", {p}, NoEntry, {})]
  /\ UNCHANGED <<register, cache, redis, phone, flagged>>

\* Variant: no index, the look-up alone decides.
NoConflict(p) == FALSE

\* The unique index on active entries.
Conflict(p) == register[p].active # {}

\* Variant: the verdict is cached by the next check only.
KeepsCache(p, verdict) == cache' = cache

CacheAdded(p, verdict) == Cache(p, verdict)

\* Flush of the entry, flag on the leads of the number, verdict in the cache.
AddWrite(x) ==
  /\ Waits(x, "add", "read")
  /\ \E p \in tx[x].phones :
       /\ IndexFree(x, p)
       /\ ~Conflict(p)
       /\ register[p].used < MaxEntries
       /\ LeadsFree(x, Rows({p}))
       /\ LET n == register[p].used + 1 IN
          /\ register' = [register EXCEPT ![p].used = n]
          /\ CacheAdded(p, {n})
          /\ tx' = [tx EXCEPT ![x] = Request("add", "written", {p},
                                       [NoEntry EXCEPT ![p] = n], Rows({p}))]
  /\ UNCHANGED <<redis, phone, flagged>>

AddRefused(x) ==
  /\ Waits(x, "add", "read")
  /\ \E p \in tx[x].phones : IndexFree(x, p) /\ Conflict(p)
  /\ Done(x)
  /\ UNCHANGED <<register, cache, redis, phone, flagged>>

-----------------------------------------------------------------------------
(* import_csv: every new number of the file in one INSERT ... ON CONFLICT DO *)
(* NOTHING, the flag on the leads of all its numbers.  The cache is not told. *)

ImportCsv(x, P) ==
  /\ Idle(x)
  /\ \A p \in P : IndexFree(x, p)
  /\ LeadsFree(x, Rows(P))
  /\ LET new == {p \in P : ~Conflict(p)} IN
     /\ \A p \in new : register[p].used < MaxEntries
     /\ register' = [p \in Phones |->
          [used   |-> register[p].used + (IF p \in new THEN 1 ELSE 0),
           active |-> register[p].active]]
     /\ tx' = [tx EXCEPT ![x] = Request("import_csv", "written", P,
                 [p \in Phones |-> IF p \in new THEN register[p].used + 1 ELSE 0],
                 Rows(P))]
  /\ UNCHANGED <<cache, redis, phone, flagged>>

\* The commit of add_entry and of import_csv.
AddCommit(x) ==
  /\ Waits(x, "add", "written") \/ Waits(x, "import_csv", "written")
  /\ register' = [p \in Phones |->
       [used   |-> register[p].used,
        active |-> register[p].active \cup ({tx[x].entry[p]} \ {0})]]
  /\ flagged' = flagged \cup tx[x].wrote
  /\ Done(x)
  /\ UNCHANGED <<cache, redis, phone>>

-----------------------------------------------------------------------------
(* remove_entry                                                             *)

Remove(x, p) ==
  /\ Idle(x)
  /\ register[p].active # {}
  /\ tx' = [tx EXCEPT ![x] = Request("remove", "read", {p},
                               [NoEntry EXCEPT ![p] = ActiveEntry(p)], {})]
  /\ UNCHANGED <<register, cache, redis, phone, flagged>>

\* The entry that was read is removed, removed or not in the meantime; the
\* flags of the number are cleared, and its cached verdict is deleted.
RemoveWrite(x) ==
  /\ Waits(x, "remove", "read")
  /\ \E p \in tx[x].phones :
       LET L == Rows({p}) \cap flagged IN
       /\ EntryFree(x, p, tx[x].entry[p])
       /\ LeadsFree(x, L)
       /\ Cache(p, {})
       /\ tx' = [tx EXCEPT ![x] = Request("remove", "written", {p}, tx[x].entry, L)]
  /\ UNCHANGED <<register, redis, phone, flagged>>

RemoveCommit(x) ==
  /\ Waits(x, "remove", "written")
  /\ register' = [p \in Phones |->
       [used   |-> register[p].used,
        active |-> register[p].active \ {tx[x].entry[p]}]]
  /\ flagged' = flagged \ tx[x].wrote
  /\ Done(x)
  /\ UNCHANGED <<cache, redis, phone>>

-----------------------------------------------------------------------------
(* A request that ends without a commit: an error, a lost connection, a       *)
(* process that dies.  Its rows are rolled back; what it told Redis stays.     *)
Abandon(x) ==
  /\ ~Idle(x)
  /\ Done(x)
  /\ UNCHANGED <<register, cache, redis, phone, flagged>>

\* A key expires.
Expire(p) ==
  /\ cache[p] # {}
  /\ cache' = [cache EXCEPT ![p] = {}]
  /\ UNCHANGED <<register, redis, phone, flagged, tx>>

RedisChanges ==
  /\ redis' \in Redis \ {redis}
  /\ UNCHANGED <<register, cache, phone, flagged, tx>>

SuppressionInit ==
  /\ register = [p \in Phones |-> [used |-> 0, active |-> {}]]
  /\ cache = [p \in Phones |-> {}]
  /\ redis \in Redis
  /\ phone = [l \in Leads |-> NoPhone]
  /\ flagged = {}
  /\ tx = [x \in Sessions |-> NoRequest]

SuppressionNext ==
  \/ RedisChanges
  \/ \E p \in Phones : Expire(p)
  \/ \E x \in Sessions :
       \/ \E p \in Checked : CheckMiss(x, p)
       \/ \E p \in Phones : Add(x, p) \/ Remove(x, p)
       \/ \E P \in (SUBSET Phones) \ {{}} : ImportCsv(x, P)
       \/ CheckRead(x) \/ CheckAnswer(x)
       \/ AddWrite(x) \/ AddRefused(x) \/ AddCommit(x)
       \/ RemoveWrite(x) \/ RemoveCommit(x) \/ Abandon(x)

-----------------------------------------------------------------------------
SuppressionTypeOK ==
  /\ register \in [Phones -> Register]
  /\ cache \in [Phones -> Verdicts]
  /\ redis \in Redis
  /\ phone \in [Leads -> Phones \cup {NoPhone}]
  /\ flagged \subseteq Leads

\* However additions, imports and removals of a number overlap, it has at most
\* one active entry, so that one removal lifts the suppression.
OneActiveEntry == \A p \in Phones : Cardinality(register[p].active) <= 1
=============================================================================
