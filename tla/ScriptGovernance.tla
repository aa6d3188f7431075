-------------------------- MODULE ScriptGovernance --------------------------
(***************************************************************************)
(* The life cycle of conversation scripts                                  *)
(* (src/apps/backend/app/modules/scripts/service.py): drafting, submission, *)
(* approval, rejection and activation of numbered script versions; and of   *)
(* src/apps/backend/app/modules/campaigns/service.py whatever writes the     *)
(* two columns that bind a campaign to a script and one of its versions.     *)
(*                                                                         *)
(* Each request reads its rows, decides from what it read, and writes the   *)
(* columns it has changed when its session commits.  The transactions are   *)
(* READ COMMITTED and take no lock when they read, so other requests commit *)
(* in between.  Approve, and activate for a campaign, read a second row     *)
(* after their first changes have been sent to the database: from then on   *)
(* they hold the locks of the rows they sent.  Binding a campaign reads the  *)
(* campaign first and the version after it, and writes the campaign only.    *)
(*                                                                         *)
(* The database is either built from the ORM metadata, as the test suite    *)
(* builds it, or from the migrations, which add a trigger and an index.     *)
(***************************************************************************)
EXTENDS Naturals, FiniteSets

CONSTANTS
  Sessions,    \* requests in flight at one time, one database session each
  Scripts,     \* script identifiers
  Campaigns,   \* campaign identifiers
  Texts,       \* node graphs
  Sound,       \* the node graphs in which validate_node_graph finds no problem
  NoText, NoCampaign,
  Payloads,    \* bindings that creations and updates of a campaign write
  Schemas,     \* the databases considered: "metadata", "migrated" or both
  MaxVersions, \* bound: versions of one script
  MaxEdits     \* bound: value of a script's edit counter

Numbers == 1..MaxVersions

ASSUME SchemaAssumption == Schemas \subseteq {"metadata", "migrated"}
ASSUME TextAssumption == Sound \subseteq Texts /\ NoText \notin Texts
ASSUME VersionAssumption == MaxVersions \in Nat \ {0} /\ MaxEdits \in Nat
ASSUME CampaignAssumption == NoCampaign \notin Campaigns

VARIABLES
  schema,       \* how the database was built; never changes
  scripts,      \* scripts: status, current_version, active_version_id, version
  versions,     \* script_versions, by script and number
  campaigns,    \* the campaigns that were created
  bound,        \* campaigns: (script_id, active_script_version_id)
  activations,  \* script_activations
  outbox,       \* script events that were committed
  tx,           \* per session, the script request in flight and what it has read
  editing       \* per session, the campaign request in flight, likewise

rows == <<scripts, versions, campaigns, bound, activations, outbox>>
vars == <<schema, rows, tx, editing>>

-----------------------------------------------------------------------------
(* The rows.  active = 0 stands for a null active_version_id.                *)

VersionStatuses == {"draft", "pending_approval", "approved", "active", "archived"}

ScriptRows ==
  [status: {"absent", "draft", "approved", "active"},
   current: 0..MaxVersions, active: 0..MaxVersions, version: Nat]

\* signed is what approved_by stands for: the text the approver had read.
VersionRows ==
  [status: VersionStatuses \cup {"absent"},
   text: Texts \cup {NoText}, signed: Texts \cup {NoText}]

\* The two columns of a campaign, {} for null.  They are foreign keys of their
\* own: nothing ties the version to the script.
Nullable(S) == {{}} \cup {{e} : e \in S}
Bindings == [script: Nullable(Scripts), version: Nullable(Scripts \X Numbers)]
Unbound  == [script |-> {}, version |-> {}]

ASSUME PayloadAssumption == Payloads \subseteq Bindings

NoScript  == [status |-> "absent", current |-> 0, active |-> 0, version |-> 0]
NoVersion == [status |-> "absent", text |-> NoText, signed |-> NoText]

NewScript   == [status |-> "draft", current |-> 1, active |-> 0, version |-> 1]
Draft(text) == [status |-> "draft", text |-> text, signed |-> NoText]

Operations == {"update_script", "create_version", "update_version", "submit",
               "approve", "reject", "activate"}

NoRequest == [op |-> "none"]
Requests ==
  [op: Operations, phase: {"read", "flushed"}, script: Scripts, n: Numbers,
   text: Texts \cup {NoText}, campaign: Campaigns \cup {NoCampaign},
   row: ScriptRows, seen: [Numbers -> VersionRows], bound: Bindings]

\* A request on a campaign: what it will bind it to, and what it read.
Edits ==
  [op: {"update", "bind"}, phase: {"read", "checked"}, campaign: Campaigns,
   new: Bindings, read: Bindings]

Exists(s) == scripts[s].status # "absent"
Present(s, n) == versions[s][n].status # "absent"

\* policies.ALLOWED
Allowed ==
  {<<"draft", "pending_approval">>, <<"pending_approval", "approved">>,
   <<"pending_approval", "draft">>, <<"approved", "active">>,
   <<"active", "archived">>, <<"approved", "archived">>}

CanTransition(from, to) == <<from, to>> \in Allowed

CanEditVersion(status) == status = "draft"

\* Variant: a rejected version takes the status that no transition leads to.
NewStatusRejected == [submit |-> "pending_approval", approve |-> "approved",
                      reject |-> "rejected", activate |-> "active"]

NewStatus == [submit |-> "pending_approval", approve |-> "approved",
              reject |-> "draft", activate |-> "active"]

-----------------------------------------------------------------------------
(* What the commit of x's request writes.  SQLAlchemy sends the columns      *)
(* whose new value differs from the one it read.                             *)

Column(read, new, current) == IF new = read THEN current ELSE new

Seen(x) == tx[x].seen[tx[x].n]

Moves(x) == /\ tx[x].op \in DOMAIN NewStatus
            /\ Seen(x).status # NewStatus[tx[x].op]
Rewrites(x) == tx[x].op = "update_version" /\ tx[x].text # Seen(x).text

\* Variant: the version that was active stays so.
ArchivesNone(x) == {}

\* activate_version archives the other versions it read as active, unless the
\* version to activate is active already.
Archives(x) ==
  {n \in Numbers : /\ tx[x].op = "activate" /\ Moves(x)
                   /\ n # tx[x].n /\ tx[x].seen[n].status = "active"}

UpdatedVersions(x) ==
  Archives(x) \cup {n \in {tx[x].n} : Moves(x) \/ Rewrites(x)}

VersionAfter(x, n) ==
  LET r == tx[x]
      v == versions[r.script][n]
      own == n = r.n
      new == own /\ r.op = "create_version"
  IN  [status |-> IF n \in Archives(x) THEN "archived"
                  ELSE IF new THEN "draft"
                  ELSE IF own /\ Moves(x) THEN NewStatus[r.op] ELSE v.status,
       text   |-> IF new \/ (own /\ Rewrites(x)) THEN r.text ELSE v.text,
       signed |-> IF own /\ r.op = "approve" THEN r.seen[n].text ELSE v.signed]

\* Variant: an edit writes back the whole row it has read.
ScriptAfterWhole(x) ==
  LET r == tx[x]
      s == scripts[r.script]
  IN  IF r.op = "update_script" THEN [r.row EXCEPT !.version = @ + 1]
      ELSE IF r.op = "create_version"
      THEN [s EXCEPT !.current = r.row.current + 1, !.version = r.row.version + 1]
      ELSE s

ScriptAfter(x) ==
  LET r == tx[x]
      s == scripts[r.script]
      activate == r.op = "activate"
      create == r.op = "create_version"
  IN  [status  |-> IF activate THEN Column(r.row.status, "active", s.status)
                   ELSE IF r.op = "approve" /\ r.row.status = "draft"
                        THEN "approved" ELSE s.status,
       current |-> IF create THEN r.row.current + 1 ELSE s.current,
       active  |-> IF activate THEN Column(r.row.active, r.n, s.active)
                   ELSE s.active,
       version |-> IF create \/ r.op = "update_script"
                   THEN r.row.version + 1 ELSE s.version]

BoundAfter(x, k) ==
  LET r == tx[x]
      b == bound[k]
  IN  IF r.op = "activate" /\ k = r.campaign
      THEN [script  |-> Column(r.bound.script, {r.script}, b.script),
            version |-> Column(r.bound.version, {<<r.script, r.n>>}, b.version)]
      ELSE b

Recorded(x) ==
  {a \in {<<tx[x].script, tx[x].n, tx[x].campaign>>} : tx[x].op = "activate"}

\* create_version publishes before it commits.  The others publish, and write
\* their audit row, after the commit: get_db closes the session without
\* another one, and both are rolled back.
Published(x) ==
  LET r == tx[x]
  IN  IF r.op = "create_version" THEN {<<"version_created", r.script, r.n>>}
                                 ELSE {}

-----------------------------------------------------------------------------
(* What the database makes a request wait for, and what it refuses.          *)

TwoReads(x) ==
  \/ tx[x].op = "approve"
  \/ tx[x].op = "activate" /\ tx[x].campaign # NoCampaign

VersionLocks(x) == {<<tx[x].script, n>> : n \in UpdatedVersions(x)}

ScriptLocks(x) ==
  {<<s>> : s \in {t \in {tx[x].script} :
      \/ tx[x].op \in {"update_script", "create_version"}
      \/ tx[x].op = "approve" /\ tx[x].row.status = "draft"
      \/ /\ tx[x].op = "activate"
         /\ tx[x].row.active # tx[x].n \/ tx[x].row.status # "active"}}

\* Rows whose changes have been sent before the second read, and all rows.
Early(x)  == VersionLocks(x) \cup
               {l \in ScriptLocks(x) : tx[x].op = "activate"}
Written(x) == VersionLocks(x) \cup ScriptLocks(x)

Held(y) == IF tx[y] # NoRequest /\ tx[y].phase = "flushed" THEN Early(y) ELSE {}
Others(x) == UNION {Held(y) : y \in Sessions \ {x}}

\* Variant: no trigger.
RefusedWithoutTrigger(x) ==
  /\ tx[x].op = "create_version"
  /\ versions[tx[x].script][tx[x].n].status # "absent"

\* The unique (script_id, version); and in a migrated database the trigger on
\* versions that are not drafts, and the unique campaign_id of activations.
Refused(x) ==
  \/ /\ tx[x].op = "create_version"
     /\ versions[tx[x].script][tx[x].n].status # "absent"
  \/ /\ schema = "migrated"
     /\ \/ \E n \in UpdatedVersions(x) :
             versions[tx[x].script][n].status # "draft"
        \/ /\ tx[x].op = "activate" /\ tx[x].campaign # NoCampaign
           /\ \E a \in activations : a[3] = tx[x].campaign

-----------------------------------------------------------------------------
Init ==
  /\ schema \in Schemas
  /\ scripts = [s \in Scripts |-> NoScript]
  /\ versions = [s \in Scripts |-> [n \in Numbers |-> NoVersion]]
  /\ campaigns = {} /\ bound = [k \in Campaigns |-> Unbound]
  /\ activations = {} /\ outbox = {}
  /\ tx = [x \in Sessions |-> NoRequest] /\ editing = tx

-----------------------------------------------------------------------------
(* Requests that only insert rows nobody else can see: one step each.        *)

Insert(s, text, event) ==
  /\ ~Exists(s)
  /\ scripts' = [scripts EXCEPT ![s] = NewScript]
  /\ versions' = [versions EXCEPT ![s][1] = Draft(text)]
  /\ outbox' = outbox \cup event
  /\ UNCHANGED <<schema, campaigns, bound, activations, tx, editing>>

CreateScript(s, text) ==
  text \in Sound /\ Insert(s, text, {<<"created", s, 1>>})

\* The copy takes the active version, else the newest one, as it stands; no
\* event is published.
DuplicateScript(s, copy) ==
  LET n == IF scripts[s].active # 0 THEN scripts[s].active ELSE scripts[s].current
  IN  Exists(s) /\ Insert(copy, versions[s][n].text, {})

\* Ids are made by the service, so a caller knows those of rows that are there.
InPlace(b) == /\ \A s \in b.script : Exists(s)
              /\ \A v \in b.version : Present(v[1], v[2])

\* The payload's binding, which it may leave out, is taken as it comes, whatever
\* the version's status.
CreateCampaign(k, b) ==
  /\ k \notin campaigns /\ InPlace(b)
  /\ campaigns' = campaigns \cup {k}
  /\ bound' = [bound EXCEPT ![k] = b]
  /\ UNCHANGED <<schema, scripts, versions, activations, outbox, tx, editing>>

-----------------------------------------------------------------------------
(* The other requests: the reads.                                            *)

Fresh(x) == tx[x] = NoRequest /\ editing[x] = NoRequest

Begin(x, op, s, n, text, k, row, seen) ==
  /\ Fresh(x)
  /\ tx' = [tx EXCEPT ![x] =
       [op |-> op, phase |-> "read", script |-> s, n |-> n, text |-> text,
        campaign |-> k, row |-> row, seen |-> seen, bound |-> Unbound]]
  /\ UNCHANGED <<schema, rows, editing>>

\* get_script_version loads one version; get_script the script and all of them.
Only(s, n)   == [m \in Numbers |-> IF m = n THEN versions[s][m] ELSE NoVersion]
NoVersions   == [m \in Numbers |-> NoVersion]
VersionRead(x, op, s, n, text) ==
  Begin(x, op, s, n, text, NoCampaign, NoScript, Only(s, n))

\* With an expected version the request is refused unless it is the one read.
UpdateScript(x, s) ==
  /\ Exists(s) /\ scripts[s].version < MaxEdits
  /\ Begin(x, "update_script", s, 1, NoText, NoCampaign, scripts[s], NoVersions)

\* Variant: the number of the first version is taken again.
FollowingStuck(s) == IF scripts[s].current = 1 THEN 1 ELSE scripts[s].current + 1
Following(s) == scripts[s].current + 1

\* The graph is the payload's or that of an earlier version, and not validated.
CreateVersion(x, s, text) ==
  /\ Exists(s) /\ scripts[s].version < MaxEdits /\ Following(s) \in Numbers
  /\ Begin(x, "create_version", s, Following(s), text, NoCampaign,
           scripts[s], NoVersions)

UpdateVersion(x, s, n, text) ==
  /\ CanEditVersion(versions[s][n].status) /\ text \in Sound
  /\ VersionRead(x, "update_version", s, n, text)

SubmitVersion(x, s, n) ==
  /\ CanTransition(versions[s][n].status, "pending_approval")
  /\ VersionRead(x, "submit", s, n, NoText)

ApproveVersion(x, s, n) ==
  /\ CanTransition(versions[s][n].status, "approved")
  /\ VersionRead(x, "approve", s, n, NoText)

RejectVersion(x, s, n) ==
  /\ CanTransition(versions[s][n].status, "draft")
  /\ VersionRead(x, "reject", s, n, NoText)

\* Variant: a pending version may be activated.
ActivatePending(x, s, n, k) ==
  /\ versions[s][n].status \in {"active", "approved", "pending_approval"}
  /\ Begin(x, "activate", s, n, NoText, k, scripts[s], versions[s])

ActivateVersion(x, s, n, k) ==
  /\ \/ versions[s][n].status = "active"
     \/ CanTransition(versions[s][n].status, "active")
  /\ Begin(x, "activate", s, n, NoText, k, scripts[s], versions[s])

-----------------------------------------------------------------------------
(* The other requests: the writes.                                           *)

\* The second SELECT first sends the changes made so far: approve then reads
\* the script, activate the campaign.
Flush(x) ==
  LET r == tx[x] IN
  /\ r # NoRequest /\ TwoReads(x) /\ r.phase = "read"
  /\ Early(x) \cap Others(x) = {}
  /\ tx' = [tx EXCEPT ![x] =
       IF r.op = "approve"
       THEN [r EXCEPT !.phase = "flushed", !.row = scripts[r.script]]
       ELSE [r EXCEPT !.phase = "flushed", !.bound = bound[r.campaign]]]
  /\ UNCHANGED <<schema, rows, editing>>

Ready(x) ==
  /\ tx[x] # NoRequest
  /\ TwoReads(x) => tx[x].phase = "flushed"
  /\ Written(x) \cap Others(x) = {}

Commit(x) ==
  LET r == tx[x] IN
  /\ Ready(x) /\ ~Refused(x)
  /\ versions' = [versions EXCEPT ![r.script] =
                    [n \in Numbers |-> VersionAfter(x, n)]]
  /\ scripts' = [scripts EXCEPT ![r.script] = ScriptAfter(x)]
  /\ bound' = [k \in Campaigns |-> BoundAfter(x, k)]
  /\ activations' = activations \cup Recorded(x)
  /\ outbox' = outbox \cup Published(x)
  /\ tx' = [tx EXCEPT ![x] = NoRequest]
  /\ UNCHANGED <<schema, campaigns, editing>>

\* The database raises: the caller sees an internal error.
Refuse(x) ==
  /\ Ready(x) /\ Refused(x)
  /\ tx' = [tx EXCEPT ![x] = NoRequest]
  /\ UNCHANGED <<schema, rows, editing>>

\* The connection is lost before the commit: everything is rolled back.
Abandon(x) ==
  /\ tx[x] # NoRequest
  /\ tx' = [tx EXCEPT ![x] = NoRequest]
  /\ UNCHANGED <<schema, rows, editing>>

-----------------------------------------------------------------------------
(* The requests on a campaign that is there.                                 *)

BeginEdit(x, op, phase, k, new) ==
  /\ Fresh(x) /\ k \in campaigns /\ InPlace(new)
  /\ editing' = [editing EXCEPT ![x] =
       [op |-> op, phase |-> phase, campaign |-> k, new |-> new,
        read |-> bound[k]]]
  /\ UNCHANGED <<schema, rows, tx>>

\* Either column may be set, set to null, or left out of the payload, which
\* writes it as it was read.  Neither is checked.
UpdateCampaign(x, k, new) == BeginEdit(x, "update", "checked", k, new)

\* The script is not compared with the version.
BindScript(x, k, s, v) ==
  BeginEdit(x, "bind", "read", k, [script |-> {s}, version |-> {v}])

\* Variant: a version that waits for its approver will do.
CheckPending(x) ==
  LET e == editing[x] IN
  /\ e # NoRequest /\ e.phase = "read"
  /\ \A v \in e.new.version :
       versions[v[1]][v[2]].status \in {"approved", "active", "pending_approval"}
  /\ editing' = [editing EXCEPT ![x].phase = "checked"]
  /\ UNCHANGED <<schema, rows, tx>>

CheckVersion(x) ==
  LET e == editing[x] IN
  /\ e # NoRequest /\ e.phase = "read"
  /\ \A v \in e.new.version : versions[v[1]][v[2]].status \in {"approved", "active"}
  /\ editing' = [editing EXCEPT ![x].phase = "checked"]
  /\ UNCHANGED <<schema, rows, tx>>

CommitCampaign(x) ==
  LET e == editing[x]
      b == bound[e.campaign]
  IN
  /\ e # NoRequest /\ e.phase = "checked"
  /\ bound' = [bound EXCEPT ![e.campaign] =
       [script  |-> Column(e.read.script, e.new.script, b.script),
        version |-> Column(e.read.version, e.new.version, b.version)]]
  /\ editing' = [editing EXCEPT ![x] = NoRequest]
  /\ UNCHANGED <<schema, scripts, versions, campaigns, activations, outbox, tx>>

\* The version is not approved (any more), or the connection is lost.
EndEdit(x) ==
  /\ editing[x] # NoRequest
  /\ editing' = [editing EXCEPT ![x] = NoRequest]
  /\ UNCHANGED <<schema, rows, tx>>

-----------------------------------------------------------------------------
Request(x, s) ==
  \/ UpdateScript(x, s)
  \/ \E text \in Texts : CreateVersion(x, s, text)
  \/ \E n \in Numbers :
       \/ \E text \in Texts : UpdateVersion(x, s, n, text)
       \/ SubmitVersion(x, s, n) \/ ApproveVersion(x, s, n)
       \/ RejectVersion(x, s, n)
       \/ \E k \in campaigns \cup {NoCampaign} : ActivateVersion(x, s, n, k)

CampaignRequest(x, k) ==
  \/ \E b \in Payloads : UpdateCampaign(x, k, b)
  \/ \E s \in Scripts, v \in Scripts \X Numbers : BindScript(x, k, s, v)

Next ==
  \/ \E s \in Scripts, text \in Texts : CreateScript(s, text)
  \/ \E s, copy \in Scripts : DuplicateScript(s, copy)
  \/ \E k \in Campaigns, b \in Payloads \cup {Unbound} : CreateCampaign(k, b)
  \/ \E x \in Sessions :
       \/ \E s \in Scripts : Request(x, s)
       \/ Flush(x) \/ Commit(x) \/ Refuse(x) \/ Abandon(x)
       \/ \E k \in Campaigns : CampaignRequest(x, k)
       \/ CheckVersion(x) \/ CommitCampaign(x) \/ EndEdit(x)

Spec == Init /\ [][Next]_vars

-----------------------------------------------------------------------------
(* What the module promises. *)

\* Every variable has its type.
TypeOK ==
  /\ schema \in Schemas
  /\ scripts \in [Scripts -> ScriptRows]
  /\ versions \in [Scripts -> [Numbers -> VersionRows]]
  /\ campaigns \subseteq Campaigns
  /\ bound \in [Campaigns -> Bindings]
  /\ activations \subseteq Scripts \X Numbers \X (Campaigns \cup {NoCampaign})
  /\ outbox \subseteq {"created", "version_created"} \X Scripts \X Numbers
  /\ tx \in [Sessions -> Requests \cup {NoRequest}]
  /\ editing \in [Sessions -> Edits \cup {NoRequest}]

\* Whatever requests race, the versions of a script are numbered from one
\* without gap, current_version is the newest, and each version after the first
\* was announced, none that does not exist.
VersionsNumbered ==
  \A s \in Scripts : \A n \in Numbers :
    /\ Present(s, n) <=> n <= scripts[s].current
    /\ <<"version_created", s, n>> \in outbox <=> n > 1 /\ Present(s, n)

Signed(s, n) == versions[s][n].signed # NoText

\* Nothing that was never approved can be live, whatever requests race: a
\* version past its approval, and the one a script points at, have each been
\* signed by an approver.
LiveWasSigned ==
  /\ \A s \in Scripts : \A n \in Numbers :
       versions[s][n].status \in {"approved", "active", "archived"} => Signed(s, n)
  /\ \A s \in Scripts : scripts[s].active # 0 => Signed(s, scripts[s].active)

\* In this step a request of kind op on campaign k is carried out.
Ends(op, k) ==
  \E x \in Sessions : /\ editing[x] # NoRequest /\ editing'[x] = NoRequest
                       /\ editing[x].op = op /\ editing[x].campaign = k

MovesAccounted ==
  /\ \A s \in Scripts : scripts'[s].active # scripts[s].active =>
       \E a \in activations' : a[1] = s /\ a[2] = scripts'[s].active
  /\ \A k \in campaigns : bound'[k].version # bound[k].version =>
       \/ Ends("update", k)
       \/ \E v \in bound'[k].version :
            /\ versions'[v[1]][v[2]].signed # NoText
            /\ Ends("bind", k) \/ <<v[1], v[2], k>> \in activations'
  /\ \A s \in Scripts : \A n \in Numbers :
       Signed(s, n) => versions'[s][n].signed # NoText
  /\ activations \subseteq activations'

\* Whatever requests race, every move of a pointer is accounted for.  A script
\* is pointed at a version only together with the record of that activation.  A
\* campaign that is there is pointed at another version only by a plain update
\* of its columns, which checks nothing; or at a version that was signed, and
\* then by a bind_script or together with the record of the activation for that
\* campaign.  Records and signatures are never taken back.
BindingsAccounted == [][MovesAccounted]_vars

SubmittedStays ==
  \A s \in Scripts : \A n \in Numbers :
    schema = "migrated" /\ versions[s][n].status \notin {"absent", "draft"}
      => versions'[s][n] = versions[s][n]

\* In a migrated database a submitted version never changes again, even when
\* the edit was begun while it was a draft.
FrozenOnceSubmitted == [][SubmittedStays]_vars

Live(s) == {n \in Numbers : versions[s][n].status = "active"}

\* While requests come one at a time, whatever their order and whichever fail:
\* at most one version of a script is active, it is the one the script points
\* at, and it reads as its approver read it.  (Stated for one session.)
Lifecycle ==
  \A s \in Scripts :
    LET a == scripts[s].active IN
    /\ Live(s) = {n \in {a} : a # 0}
    /\ scripts[s].status = "active" <=> a # 0
    /\ a # 0 => versions[s][a].text = versions[s][a].signed

\* A request that comes alone, and that the service's policy has accepted, is
\* never refused by a database built from the ORM metadata.  (Stated for one
\* session.)
NeverRefused ==
  schema = "metadata" => \A x \in Sessions : Ready(x) => ~Refused(x)

\* Requests that come one at a time keep the life of a script (Lifecycle) and
\* are answered as the policy promises (NeverRefused), whatever their order and
\* whichever of them fail.  (Stated for one session.)
SerialSafety == Lifecycle /\ NeverRefused
=============================================================================
